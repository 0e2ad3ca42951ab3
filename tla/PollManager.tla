----------------------------- MODULE PollManager ----------------------------
(***************************************************************************)
(* PollManager (poll_manager.cpp) reads the attributes of one legacy       *)
(* device after the other through the task queue, which it shares with     *)
(* the REST API.  A read may be refused, dropped, or never be confirmed,   *)
(* and a confirm may come after the manager has given up waiting.          *)
(***************************************************************************)
EXTENDS TaskQueue

CONSTANTS
    Attr,           \* attributes of a device that are polled
    GoesAway,       \* bound: devices that may become unreachable
    ApiBound        \* bound: requests of users and changes of the network

ASSUME PollManagerAssumption ==
    /\ ApiBound \in Nat
    /\ Attr \subseteq Nat
    /\ GoesAway \subseteq Node

VARIABLES
    pollNodes,      \* devices that wait to be polled
    item,           \* the poll item, if any: node and the attributes left to read
    pollState,
    pollTimer,      \* the timer is running
    apsReqId,       \* while pollState is Wait
    apiCount

pmVars == <<pollNodes, item, pollState, pollTimer, apsReqId>>
vars == <<tqVars, pmVars, apiCount>>

NoItem == [node |-> NoTask, left |-> {}]

Init ==
    /\ InitTaskQueue
    /\ pollNodes = <<>> /\ item = NoItem /\ pollState = "Idle" /\ pollTimer = FALSE
    /\ apsReqId = NoTask
    /\ apiCount = 0

-----------------------------------------------------------------------------
(* DEV_PollLegacy() and queuePollNode().                                   *)
queuePollNode(n) ==
    /\ n \notin Range(pollNodes)
    /\ pollNodes' = Append(pollNodes, n)
    /\ UNCHANGED <<tqVars, item, pollState, pollTimer, apsReqId, apiCount>>

(* pollNextDevice(): devices that are not available are passed over.       *)
nextNode ==
    LET up == {i \in DOMAIN pollNodes : available[pollNodes[i]]}
    IN  IF up = {} THEN 0 ELSE Min(up)

(* pollNextDevice() and PollManager::poll(): any of the attributes may not *)
(* belong to the device.                                                   *)
pollNextDevice ==
    IF item # NoItem THEN UNCHANGED <<pollNodes, item>>
    ELSE IF nextNode = 0 THEN pollNodes' = <<>> /\ UNCHANGED item
    ELSE /\ pollNodes' = SubSeq(pollNodes, nextNode + 1, Len(pollNodes))
         /\ \E left \in SUBSET Attr : item' = [node |-> pollNodes[nextNode], left |-> left]

(* idleTimerFired() polls the next device when there is nothing to do.     *)
IdleTimer ==
    /\ item = NoItem
    /\ UNCHANGED <<tqVars, pollState, apsReqId, apiCount>>
    /\ pollNextDevice
    /\ pollTimer' = (pollTimer \/ item' # NoItem)

-----------------------------------------------------------------------------
(* PollManager::pollTimerFired().                                          *)

(* All attributes of the last device are read: the next device is polled.  *)
pollDone ==
    /\ pollState = "Done"
    /\ pollState' = "Idle"
    /\ pollTimer' = TRUE
    /\ pollNextDevice
    /\ UNCHANGED <<tasks, apsReqId>>

(* Nothing to poll.                                                        *)
pollEmpty ==
    /\ pollState # "Done" /\ item = NoItem
    /\ pollState' = "Done"
    /\ pollTimer' = TRUE
    /\ apsReqId' = NoTask
    /\ UNCHANGED <<tasks, pollNodes, item>>

(* The device has gone, or everything was read.                            *)
pollRemove ==
    /\ pollState # "Done" /\ item # NoItem
    /\ item.left = {} \/ ~available[item.node]
    /\ item' = NoItem
    /\ pollState' = "Idle"
    /\ pollTimer' = TRUE
    /\ apsReqId' = NoTask
    /\ UNCHANGED <<tasks, pollNodes>>

(* Mutated form: waiting for a confirm has no timeout.                     *)
pollReadNoTimeout ==
    /\ pollState # "Done" /\ item # NoItem
    /\ item.left # {} /\ available[item.node]
    /\ LET a  == Min(item.left)
           id == Min(1..IdPool \ UsedIds)
           ts == addTask(tasks, [id |-> id, dst |-> item.node, kind |-> "read",
                                 after |-> NoTask, attr |-> a])
       IN  /\ item' = [item EXCEPT !.left = @ \ {a}]
           /\ tasks' = IF mayRead(item.node, a) THEN ts ELSE tasks
           /\ pollState' = IF tasks' # tasks THEN "Wait" ELSE "Idle"
           /\ apsReqId' = IF tasks' # tasks THEN id ELSE NoTask
           /\ pollTimer' = (tasks' = tasks)
    /\ UNCHANGED pollNodes

(* The next attribute is read, unless it was reported lately or the queue  *)
(* refuses the read; the attribute is passed over then.                    *)
pollRead ==
    /\ pollState # "Done" /\ item # NoItem
    /\ item.left # {} /\ available[item.node]
    /\ LET a  == Min(item.left)
           id == Min(1..IdPool \ UsedIds)
           ts == addTask(tasks, [id |-> id, dst |-> item.node, kind |-> "read",
                                 after |-> NoTask, attr |-> a])
       IN  /\ item' = [item EXCEPT !.left = @ \ {a}]
           /\ \/ /\ mayRead(item.node, a) /\ ts # tasks
                 /\ tasks' = ts
                 /\ pollState' = "Wait"
                 /\ apsReqId' = id
              \/ /\ tasks' = tasks
                 /\ pollState' = "Idle"
                 /\ apsReqId' = NoTask
           /\ pollTimer' = TRUE
    /\ UNCHANGED pollNodes

PollTimerFired ==
    /\ pollTimer
    /\ UNCHANGED <<runningTasks, recent, tqEnvironment, apiCount>>
    /\ pollDone \/ pollEmpty \/ pollRemove \/ pollRead

(* PollManager::apsdeDataConfirm() of request id to dst.  While the manager *)
(* waits, dstAddr is the address of its item; when the request failed, the *)
(* other attributes are not read either.                                   *)
pollConfirm(id, dst) ==
    IF pollState = "Wait" /\ apsReqId = id /\ item.node = dst
    THEN /\ item' \in {item, [item EXCEPT !.left = {}]}
         /\ pollState' = "Idle"
         /\ pollTimer' = TRUE
         /\ apsReqId' = NoTask
         /\ UNCHANGED pollNodes
    ELSE UNCHANGED pmVars

-----------------------------------------------------------------------------
(* The plugin: taskTimer, the confirms of the core, and the environment.   *)

ProcessTasks ==
    /\ UNCHANGED <<tqEnvironment, pmVars, apiCount>>
    /\ \E q \in processTasks(queue) : become(q)

(* apsdeDataConfirm(): the core confirms request id, "even if [it] was not  *)
(* issued by this plugin", or its task was given up, or a task that has the *)
(* id by now goes elsewhere.  The poll manager compares id and destination, *)
(* the queue only the id: the first task that has it is erased, and the    *)
(* next one is sent.                                                       *)
ApsdeDataConfirm(id, dst) ==
    LET confirmed == {j \in DOMAIN runningTasks : runningTasks[j].task.id = id}
    IN  /\ pollConfirm(id, dst)
        /\ IF confirmed = {} THEN become(queue)
           ELSE \E q \in processTasks([queue EXCEPT !.running = RemoveAt(@, Min(confirmed))]) :
                   become(q)
        /\ UNCHANGED <<tqEnvironment, apiCount>>

ApiRequest ==
    /\ apiCount < ApiBound
    /\ apiCount' = apiCount + 1
    /\ \/ \E d \in Node : tasks' = addCommand(d)
       \/ \E g \in Group : tasks' = storeScene(g)
    /\ UNCHANGED <<runningTasks, recent, tqEnvironment, pmVars>>

(* The network is lost, or a channel change begins.                        *)
Disturb ==
    /\ apiCount < ApiBound
    /\ apiCount' = apiCount + 1
    /\ \/ inNetwork' = FALSE /\ UNCHANGED channelChange
       \/ channelChange' = TRUE /\ UNCHANGED inNetwork
    /\ UNCHANGED <<tasks, runningTasks, recent, available, pmVars>>

(* A device cannot be reached any more.                                    *)
Unreachable(d) ==
    /\ available[d]
    /\ available' = [available EXCEPT ![d] = FALSE]
    /\ UNCHANGED <<tasks, runningTasks, recent, inNetwork, channelChange, pmVars, apiCount>>

Recover ==
    /\ inNetwork' = TRUE
    /\ channelChange' = FALSE
    /\ available' = [d \in Node |-> TRUE]
    /\ UNCHANGED <<tasks, runningTasks, recent, pmVars, apiCount>>

(* The ids that are waited for: the confirm of any other meets nothing.    *)
Awaited == {apsReqId} \cup {runningTasks[j].task.id : j \in DOMAIN runningTasks}

Queue(A) == A /\ UNCHANGED <<pmVars, apiCount>>

Next ==
    \/ \E n \in Node : queuePollNode(n)
    \/ IdleTimer
    \/ PollTimerFired
    \/ ProcessTasks
    \/ \E id \in Awaited, dst \in Node \cup Group : ApsdeDataConfirm(id, dst)
    \/ \E j \in 1..MaxBackground : Queue(GrowsOlder(j))
    \/ \E g \in Group : Queue(GroupDelayOver(g))
    \/ ApiRequest
    \/ Disturb
    \/ \E d \in GoesAway : Unreachable(d)
    \/ Recover

Spec == Init /\ [][Next]_vars

(* Timers fire and time passes, the network and the devices come back.     *)
(* Nothing is said of confirms: any of them may never come.                *)
FairSpec ==
    /\ Spec
    /\ WF_vars(IdleTimer) /\ WF_vars(PollTimerFired) /\ WF_vars(ProcessTasks)
    /\ WF_vars(Recover)
    /\ \A j \in 1..MaxBackground : WF_vars(Queue(GrowsOlder(j)))
    /\ \A g \in Group : WF_vars(Queue(GroupDelayOver(g)))

-----------------------------------------------------------------------------
(* Type invariant.                                                         *)
TypeOK ==
    /\ TypeOKTaskQueue
    /\ pollNodes \in Seq(Node)
    /\ item = NoItem \/ (item.node \in Node /\ item.left \subseteq Attr)
    /\ pollState \in {"Idle", "Wait", "Done"} /\ pollTimer \in BOOLEAN
    /\ apsReqId \in 0..IdPool
    /\ apiCount \in 0..ApiBound

(* "won't be send until al prior taskIds are send" (TaskItem::ordered): a  *)
(* scene is never stored while the request that adds it waits or is under  *)
(* way, however commands are queued, replaced and dropped in between.      *)
StoreAfterAdd ==
    \A j \in DOMAIN runningTasks : runningTasks[j].task.kind = "storeScene" =>
        /\ \A i \in DOMAIN tasks : tasks[i].id # runningTasks[j].task.after
        /\ \A k \in DOMAIN runningTasks :
              runningTasks[k].task.id = runningTasks[j].task.after => k > j

(* A task for a device is sent or dropped in the end, also when the tasks  *)
(* before it are never confirmed and the queue is full of them: the first  *)
(* one that waits never stays the first for ever.                          *)
UnicastsLeave ==
    LET unicasts == SelectSeq(tasks, LAMBDA t : t.dst \in Node)
        first    == IF unicasts = <<>> THEN NoTask ELSE Head(unicasts).id
    IN  []<>(first = NoTask) \/ []<><<first' # first>>_tasks

(* Polling goes on for ever: every device that waits gets its turn, and no *)
(* refused, dropped or unconfirmed read keeps the manager at one device,   *)
(* whatever confirms come late, of other requests or for a reused id.      *)
PollingGoesOn ==
    /\ []<>(item = NoItem)
    /\ \A n \in Node : []<>(n \notin Range(pollNodes))
=============================================================================
