------------------------------ MODULE TaskQueue -----------------------------
(***************************************************************************)
(* The queue of requests to devices and groups (addTask, processTasks and  *)
(* apsdeDataConfirm of de_web_plugin.cpp).  A task waits in tasks, is sent *)
(* when its destination is not busy, and runs until the core confirms it;  *)
(* what is never confirmed is dropped only when it stands in the way.      *)
(***************************************************************************)
EXTENDS Naturals, Sequences, FiniteSets, FiniteSetsExt, SequencesExt

CONSTANTS
    Node,               \* destinations of unicasts
    Group,              \* destinations of groupcasts
    MaxTasks,           \* (20)
    MaxBackground,      \* MAX_BACKGROUND_TASKS (5)
    MaxPerNode,         \* MAX_TASKS_PER_NODE (2)
    MaxOnAir,           \* unicasts under way to one destination (2)
    MaxGroupOnAir,      \* groupcasts under way (6)
    IdPool              \* bound: ids of tasks, which are used again when none has them

ASSUME TaskQueueAssumption ==
    /\ Node \cap Group = {}
    /\ {MaxTasks, MaxBackground, MaxPerNode, MaxOnAir, MaxGroupOnAir, IdPool} \subseteq Nat \ {0}
    /\ IdPool >= 2 * (MaxTasks + MaxBackground) + 2     \* two new ids at any time

VARIABLES
    tasks,
    runningTasks,       \* with the time since they were sent
    recent,             \* groups sent to within gwGroupSendDelay
    available,          \* the devices that can be reached
    inNetwork,
    channelChange       \* channelChangeState # CC_Idle

tqVars == <<tasks, runningTasks, recent, available, inNetwork, channelChange>>
tqEnvironment == <<available, inNetwork, channelChange>>

NoTask == 0
Kind == {"command", "read", "addScene", "storeScene"}

(* after: an ordered task's predecessor; attr: what a task reads.          *)
Task == [id : 1..IdPool, dst : Node \cup Group, kind : Kind, after : 0..IdPool, attr : Nat]

(* Seconds since a task was sent: less than 5, up to 120, more.            *)
Age == {"new", "sent", "stale"}

InitTaskQueue ==
    /\ tasks = <<>> /\ runningTasks = <<>> /\ recent = {}
    /\ available = [n \in Node |-> TRUE]
    /\ inNetwork = TRUE
    /\ channelChange = FALSE

ordered(t) == t.kind \in {"addScene", "storeScene"}

UsedIds ==
    UNION {{t.id, t.after} :
        t \in Range(tasks) \cup {runningTasks[j].task : j \in DOMAIN runningTasks}}

-----------------------------------------------------------------------------
(* Mutated form: the queue has no limit.                                   *)
addTaskNoLimit(ts, t) ==
    LET equal == {i \in DOMAIN ts : ts[i].kind = t.kind /\ ts[i].dst = t.dst}
    IN  IF ~inNetwork \/ channelChange THEN ts
        ELSE IF t.kind = "command" /\ equal # {} THEN [ts EXCEPT ![Min(equal)] = t]
        ELSE Append(ts, t)

(* addTask() on the waiting tasks ts: a command replaces an equal one that *)
(* still waits.                                                            *)
addTask(ts, t) ==
    LET equal == {i \in DOMAIN ts : ts[i].kind = t.kind /\ ts[i].dst = t.dst}
    IN  IF ~inNetwork \/ channelChange THEN ts
        ELSE IF t.kind = "command" /\ equal # {} THEN [ts EXCEPT ![Min(equal)] = t]
        ELSE IF Len(ts) < MaxTasks THEN Append(ts, t) ELSE ts

taskCountForAddress(d) ==
    Cardinality({i \in DOMAIN tasks : tasks[i].dst = d})
    + Cardinality({j \in DOMAIN runningTasks : runningTasks[j].task.dst = d})

(* readAttributes(): the conditions under which a read is queued at all.   *)
mayRead(d, attr) ==
    /\ available[d]
    /\ taskCountForAddress(d) < MaxPerNode
    /\ Len(runningTasks) + Len(tasks) <= MaxBackground
    /\ \A i \in DOMAIN tasks :
          ~(tasks[i].kind = "read" /\ tasks[i].dst = d /\ tasks[i].attr = attr)

-----------------------------------------------------------------------------
(* processTasks() on a queue q of waiting and running tasks.               *)

(* Mutated form: an ordered task does not wait for its predecessor.        *)
holdsUpUnordered(q, t, j) ==
    /\ t.dst \notin Group /\ q.running[j].task.dst = t.dst
    /\ \/ q.running[j].age = "new"
       \/ Cardinality({k \in 1..j : q.running[k].task.dst = t.dst}) >= MaxOnAir

(* The running task j keeps task t from being sent.                        *)
holdsUp(q, t, j) ==
    \/ ordered(t) /\ q.running[j].task.id = t.after
    \/ /\ t.dst \in Group /\ q.running[j].task.dst \in Group
       /\ Cardinality({k \in 1..j : q.running[k].task.dst \in Group}) >= MaxGroupOnAir
    \/ /\ t.dst \notin Group /\ q.running[j].task.dst = t.dst
       /\ \/ q.running[j].age = "new"
          \/ Cardinality({k \in 1..j : q.running[k].task.dst = t.dst}) >= MaxOnAir

(* Mutated form: a request that is never confirmed holds up for ever.      *)
verdictKeepsStale(q, i) ==
    LET t   == q.tasks[i]
        bys == {j \in DOMAIN q.running : holdsUp(q, t, j)}
    IN  IF t.kind = "command" /\ t.dst \in Node /\ ~available[t.dst] THEN "zombie"
        ELSE IF (ordered(t) /\ i > 1) \/ bys # {} \/ t.dst \in q.recent THEN "wait"
        ELSE "send"

(* What becomes of waiting task i when the loop gets there.                *)
verdict(q, i) ==
    LET t   == q.tasks[i]
        bys == {j \in DOMAIN q.running : holdsUp(q, t, j)}
        by  == q.running[Min(bys)]
    IN  IF t.kind = "command" /\ t.dst \in Node /\ ~available[t.dst] THEN "zombie"
        ELSE IF ordered(t) /\ i > 1 THEN "wait"
        ELSE IF bys # {} THEN IF by.task.dst = t.dst /\ t.dst \in Node /\ by.age = "stale"
                              THEN "dropRunning" ELSE "wait"
        ELSE IF t.dst \in q.recent THEN "wait" ELSE "send"

(* The ways in which the loop can end at waiting task i.  A unicast that   *)
(* the core refuses is dropped, as is a groupcast to a deleted group; a    *)
(* groupcast that is refused stays and the loop goes on.                   *)
endsAt(q, i) ==
    LET t       == q.tasks[i]
        without == [q EXCEPT !.tasks = RemoveAt(@, i)]
        by      == Min({j \in DOMAIN q.running : holdsUp(q, t, j)})
    IN  CASE verdict(q, i) = "zombie" -> {without}
          [] verdict(q, i) = "dropRunning" -> {[q EXCEPT !.running = RemoveAt(@, by)]}
          [] verdict(q, i) = "send" ->
                {without, [without EXCEPT !.running = Append(@, [task |-> t, age |-> "new"]),
                                          !.recent = @ \cup ({t.dst} \cap Group)]}
          [] OTHER -> {}

(* All queues processTasks() may leave behind.                             *)
processTasks(q) ==
    LET stale == {j \in DOMAIN q.running : q.running[j].age = "stale"}
        stops == {i \in DOMAIN q.tasks : verdict(q, i) # "wait"}
        goesOn(i) == verdict(q, i) = "send" /\ q.tasks[i].dst \in Group
        ends  == {i \in stops : \A k \in stops : k < i => goesOn(k)}
    IN  IF q.tasks = <<>> \/ (inNetwork /\ channelChange) THEN {q}
        ELSE IF ~inNetwork THEN {[q EXCEPT !.tasks = <<>>, !.running = <<>>]}
        ELSE IF Len(q.running) >= MaxBackground
             THEN {IF stale = {} THEN q ELSE [q EXCEPT !.running = RemoveAt(@, Min(stale))]}
        ELSE (UNION {endsAt(q, i) : i \in ends})
             \cup (IF \A i \in stops : goesOn(i) THEN {q} ELSE {})

queue == [tasks |-> tasks, running |-> runningTasks, recent |-> recent]

become(q) ==
    /\ tasks' = q.tasks
    /\ runningTasks' = q.running
    /\ recent' = q.recent

-----------------------------------------------------------------------------
(* The REST API queues a command for a light, or stores a scene: an empty  *)
(* scene is added first, and the two tasks have consecutive ids.           *)
addCommand(d) ==
    LET id == Min(1..IdPool \ UsedIds)
    IN  addTask(tasks, [id |-> id, dst |-> d, kind |-> "command", after |-> NoTask, attr |-> 0])

storeScene(g) ==
    LET id  == Min(1..IdPool \ UsedIds)
        id2 == Min(1..IdPool \ (UsedIds \cup {id}))
        ts  == addTask(tasks, [id |-> id, dst |-> g, kind |-> "addScene", after |-> NoTask,
                               attr |-> 0])
    IN  IF ts = tasks THEN tasks
        ELSE addTask(ts, [id |-> id2, dst |-> g, kind |-> "storeScene", after |-> id, attr |-> 0])

(* A running task gets older; those sent before it are not younger.        *)
GrowsOlder(j) ==
    /\ j \in DOMAIN runningTasks
    /\ LET next == IF runningTasks[j].age = "new" THEN "sent" ELSE "stale"
       IN  /\ runningTasks[j].age # "stale"
           /\ \A k \in 1..(j - 1) : runningTasks[k].age \in {next, "stale"}
           /\ runningTasks' = [runningTasks EXCEPT ![j].age = next]
    /\ UNCHANGED <<tasks, recent, tqEnvironment>>

GroupDelayOver(g) ==
    /\ g \in recent
    /\ recent' = recent \ {g}
    /\ UNCHANGED <<tasks, runningTasks, tqEnvironment>>

TypeOKTaskQueue ==
    /\ tasks \in Seq(Task) /\ Len(tasks) <= MaxTasks
    /\ runningTasks \in Seq([task : Task, age : Age]) /\ Len(runningTasks) <= MaxBackground
    /\ recent \subseteq Group
    /\ available \in [Node -> BOOLEAN]
    /\ inNetwork \in BOOLEAN /\ channelChange \in BOOLEAN
=============================================================================
