--------------------------- MODULE PollManagerProofs --------------------------
(***************************************************************************)
(* Proofs about PollManager and the task queue it shares with the API: the  *)
(* types, the limits of the queue, and that a scene is stored only after    *)
(* the request that adds it, for any limits, devices, groups and requests.  *)
(***************************************************************************)
EXTENDS PollManager, FiniteSetTheorems, SequenceTheorems, WellFoundedInduction, TLAPS

Running == [task : Task, age : Age]

Queues == [tasks : Seq(Task), running : Seq(Running), recent : SUBSET Group]

\* The request that adds a scene is neither waiting nor under way once the request
\* that stores the scene has been sent.
Stored(q) ==
  \A j \in DOMAIN q.running : q.running[j].task.kind = "storeScene" =>
     /\ \A i \in DOMAIN q.tasks : q.tasks[i].id # q.running[j].task.after
     /\ \A k \in DOMAIN q.running : q.running[k].task.id # q.running[j].task.after

\* While both wait, the request that adds the scene stands before.
InOrder(q) ==
  \A i, k \in DOMAIN q.tasks :
     q.tasks[i].kind = "storeScene" /\ q.tasks[k].id = q.tasks[i].after => k < i

QueueOK(q) ==
  /\ q \in Queues
  /\ Len(q.tasks) <= MaxTasks /\ Len(q.running) <= MaxBackground
  /\ Stored(q) /\ InOrder(q)

ItemOK == item = NoItem \/ item \in [node : Node, left : SUBSET Attr]

\* The inductive invariant.
Inv == TypeOK /\ ItemOK /\ QueueOK(queue)

-------------------------------------------------------------------------------
(* Smallest elements, and sequences.                                         *)
LEMMA MinIn ==
  ASSUME NEW S \in SUBSET Nat, S # {}
  PROVE  Min(S) \in S
<1>1. PICK x \in S : \A y \in S : ~(<<y, x>> \in OpToRel(<, Nat))
  BY NatLessThanWellFounded, WFMin, Zenon
<1>2. \A y \in S : ~(y < x)
  BY <1>1 DEF OpToRel
<1>3. \A y \in S : x <= y
  BY <1>2
<1> QED
  BY <1>3 DEF Min

LEMMA RemoveOK ==
  ASSUME NEW S, NEW s \in Seq(S), NEW i \in DOMAIN s, NEW t, t = RemoveAt(s, i)
  PROVE  /\ t \in Seq(S) /\ Len(t) \in Nat /\ Len(t) = Len(s) - 1
         /\ \A j \in DOMAIN t : j < i => j \in DOMAIN s /\ t[j] = s[j]
         /\ \A j \in DOMAIN t : ~(j < i) => j + 1 \in DOMAIN s /\ t[j] = s[j + 1]
<1> DEFINE a == SubSeq(s, 1, i - 1)
           b == SubSeq(s, i + 1, Len(s))
<1>1. i \in 1..Len(s) /\ Len(s) \in Nat /\ DOMAIN s = 1..Len(s) /\ i \in Nat
  OBVIOUS
<1>2. t = a \o b
  BY DEF RemoveAt
<1>3. a \in Seq(S) /\ Len(a) = i - 1 /\ \A j \in 1..(i - 1) : a[j] = s[j]
  BY <1>1
<1>4. b \in Seq(S) /\ Len(b) = Len(s) - i /\ \A j \in 1..(Len(s) - i) : b[j] = s[j + i]
  BY <1>1
<1> HIDE DEF a, b
<1>5. t \in Seq(S) /\ Len(t) = Len(a) + Len(b) /\ DOMAIN t = 1..Len(t)
      /\ \A j \in 1..(Len(a) + Len(b)) : t[j] = IF j <= Len(a) THEN a[j] ELSE b[j - Len(a)]
  <2>1. t \in Seq(S) /\ Len(t) = Len(a) + Len(b)
    BY <1>2, <1>3, <1>4, ConcatProperties
  <2>2. \A j \in 1..(Len(a) + Len(b)) : t[j] = IF j <= Len(a) THEN a[j] ELSE b[j - Len(a)]
    <3>1. \A j \in 1..(Len(a) + Len(b)) : (a \o b)[j] = IF j <= Len(a) THEN a[j] ELSE b[j - Len(a)]
      BY <1>3, <1>4, ConcatProperties, Zenon
    <3> QED
      BY <1>2, <3>1, Zenon
  <2>3. DOMAIN t = 1..Len(t)
    BY <2>1
  <2> QED
    BY <2>1, <2>2, <2>3
<1>6. Len(t) = Len(s) - 1 /\ Len(t) \in Nat
  BY <1>1, <1>3, <1>4, <1>5
<1>7. ASSUME NEW j \in DOMAIN t, j < i PROVE j \in DOMAIN s /\ t[j] = s[j]
  <2>1. j \in 1..(i - 1) /\ j \in 1..(Len(a) + Len(b)) /\ j <= Len(a)
    BY <1>1, <1>3, <1>4, <1>5, <1>7
  <2> QED
    BY <2>1, <1>1, <1>3, <1>5
<1>8. ASSUME NEW j \in DOMAIN t, ~(j < i) PROVE j + 1 \in DOMAIN s /\ t[j] = s[j + 1]
  <2>a. j \in 1..(Len(s) - 1) /\ j >= i /\ Len(a) = i - 1 /\ Len(b) = Len(s) - i
    BY <1>1, <1>3, <1>4, <1>5, <1>6, <1>8
  <2>1. j \in 1..(Len(a) + Len(b)) /\ ~(j <= Len(a)) /\ j - Len(a) \in 1..(Len(s) - i)
        /\ (j - Len(a)) + i = j + 1 /\ j + 1 \in 1..Len(s)
    BY <1>1, <2>a
  <2>2. t[j] = b[j - Len(a)]
    BY <2>1, <1>5
  <2> QED
    BY <2>1, <2>2, <1>1, <1>4
<1> QED
  BY <1>5, <1>6, <1>7, <1>8

LEMMA QueueType ==
  ASSUME NEW ts \in Seq(Task), NEW rs \in Seq(Running), NEW gs \in SUBSET Group
  PROVE  [tasks |-> ts, running |-> rs, recent |-> gs] \in Queues
BY DEF Queues

\* How a queue looks after a task was sent.
LEMMA QueueIs ==
  ASSUME NEW q \in Queues, NEW ts, NEW r, NEW g
  PROVE  [[q EXCEPT !.tasks = ts] EXCEPT !.running = Append(@, r), !.recent = @ \cup g]
           = [tasks |-> ts, running |-> Append(q.running, r), recent |-> q.recent \cup g]
<1> DEFINE q1 == [q EXCEPT !.tasks = ts]
           rs == Append(q.running, r)
           gs == q.recent \cup g
           q2 == [q1 EXCEPT !.running = rs]
<1>1. q1 = [tasks |-> ts, running |-> q.running, recent |-> q.recent]
  BY DEF Queues
<1> HIDE DEF q1, rs, gs
<1>2. q1.running = q.running /\ q1.recent = q.recent
  BY <1>1
<1>3. q2 = [tasks |-> ts, running |-> rs, recent |-> q.recent]
  BY <1>1
<1> HIDE DEF q2
<1>4. [q2 EXCEPT !.recent = gs] = [tasks |-> ts, running |-> rs, recent |-> gs]
  BY <1>3
<1>5. [q1 EXCEPT !.running = Append(@, r), !.recent = @ \cup g]
        = [[q1 EXCEPT !.running = Append(q1.running, r)] EXCEPT !.recent = q1.recent \cup g]
  OBVIOUS
<1> QED
  BY <1>2, <1>4, <1>5, Zenon DEF q1, q2, rs, gs

LEMMA ExceptOK ==
  ASSUME NEW S, NEW s \in Seq(S), NEW k \in DOMAIN s, NEW c \in S,
         NEW t, t = [s EXCEPT ![k] = c]
  PROVE  /\ t \in Seq(S) /\ DOMAIN t = DOMAIN s /\ Len(t) = Len(s)
         /\ t[k] = c /\ \A j \in DOMAIN s \ {k} : t[j] = s[j]
OBVIOUS

LEMMA AppendOK ==
  ASSUME NEW S, NEW e \in Seq(S), NEW x \in S, NEW f, f = Append(e, x)
  PROVE  /\ f \in Seq(S) /\ Len(f) = Len(e) + 1 /\ Len(e) \in Nat
         /\ DOMAIN e = 1..Len(e) /\ DOMAIN f = 1..(Len(e) + 1)
         /\ f[Len(e) + 1] = x /\ \A j \in DOMAIN e : f[j] = e[j]
OBVIOUS

-------------------------------------------------------------------------------
(* The queue.                                                                *)

\* Dropping a waiting task.
LEMMA DropTaskOK ==
  ASSUME NEW q, QueueOK(q), NEW i \in DOMAIN q.tasks,
         NEW new, new = [q EXCEPT !.tasks = RemoveAt(@, i)]
  PROVE  QueueOK(new)
<1> DEFINE ts == RemoveAt(q.tasks, i)
<1>1. /\ q = [tasks |-> q.tasks, running |-> q.running, recent |-> q.recent]
      /\ q.tasks \in Seq(Task) /\ q.running \in Seq(Running) /\ q.recent \in SUBSET Group
      /\ Len(q.tasks) \in Nat
  BY DEF QueueOK, Queues
<1>2. new = [tasks |-> ts, running |-> q.running, recent |-> q.recent]
  <2> HIDE DEF ts
  <2>1. new = [q EXCEPT !.tasks = ts]
    BY DEF ts
  <2> QED
    BY <1>1, <2>1
<1>3. /\ ts \in Seq(Task) /\ Len(ts) \in Nat /\ Len(ts) = Len(q.tasks) - 1
      /\ \A j \in DOMAIN ts : j < i => j \in DOMAIN q.tasks /\ ts[j] = q.tasks[j]
      /\ \A j \in DOMAIN ts : ~(j < i) => j + 1 \in DOMAIN q.tasks /\ ts[j] = q.tasks[j + 1]
  <2>1. ts = RemoveAt(q.tasks, i)
    OBVIOUS
  <2> HIDE DEF ts
  <2> QED
    BY <1>1, <2>1, RemoveOK
<1> HIDE DEF ts
<1>4. new.tasks = ts /\ new.running = q.running /\ new.recent = q.recent /\ new \in Queues
  <2>1. new \in Queues
    BY <1>1, <1>2, <1>3 DEF Queues
  <2> QED
    BY <1>2, <2>1
<1>5. Len(new.tasks) <= MaxTasks /\ Len(new.running) <= MaxBackground
  BY <1>1, <1>3, <1>4, TaskQueueAssumption DEF QueueOK
<1>6. \A j \in DOMAIN ts : \E k \in DOMAIN q.tasks : ts[j] = q.tasks[k]
  BY <1>3
<1>7. Stored(new)
  BY <1>4, <1>6 DEF QueueOK, Stored
<1>8. ASSUME NEW j \in DOMAIN ts, NEW k \in DOMAIN ts, ts[j].kind = "storeScene", ts[k].id = ts[j].after
      PROVE  k < j
  <2> DEFINE old(n) == IF n < i THEN n ELSE n + 1
  <2>1. j \in Nat /\ k \in Nat /\ i \in Nat
    BY <1>1, <1>3
  <2>2. /\ old(j) \in DOMAIN q.tasks /\ ts[j] = q.tasks[old(j)]
        /\ old(k) \in DOMAIN q.tasks /\ ts[k] = q.tasks[old(k)]
    BY <1>3
  <2>3. old(k) < old(j)
    <3> HIDE DEF old
    <3> QED
      BY <1>8, <2>2 DEF QueueOK, InOrder
  <2> QED
    BY <2>1, <2>3
<1>9. InOrder(new)
  BY <1>4, <1>8 DEF InOrder
<1> QED
  BY <1>4, <1>5, <1>7, <1>9 DEF QueueOK

\* A running task is confirmed or given up.
LEMMA DropRunningOK ==
  ASSUME NEW q, QueueOK(q), NEW i \in DOMAIN q.running,
         NEW new, new = [q EXCEPT !.running = RemoveAt(@, i)]
  PROVE  QueueOK(new)
<1> DEFINE rs == RemoveAt(q.running, i)
<1>1. /\ q = [tasks |-> q.tasks, running |-> q.running, recent |-> q.recent]
      /\ q.tasks \in Seq(Task) /\ q.running \in Seq(Running) /\ q.recent \in SUBSET Group
      /\ Len(q.running) \in Nat
  BY DEF QueueOK, Queues
<1>2. new = [tasks |-> q.tasks, running |-> rs, recent |-> q.recent]
  <2> HIDE DEF rs
  <2>1. new = [q EXCEPT !.running = rs]
    BY DEF rs
  <2> QED
    BY <1>1, <2>1
<1>3. /\ rs \in Seq(Running) /\ Len(rs) \in Nat /\ Len(rs) = Len(q.running) - 1
      /\ \A j \in DOMAIN rs : \E k \in DOMAIN q.running : rs[j] = q.running[k]
  <2>1. rs = RemoveAt(q.running, i)
    OBVIOUS
  <2> HIDE DEF rs
  <2>2. /\ rs \in Seq(Running) /\ Len(rs) \in Nat /\ Len(rs) = Len(q.running) - 1
        /\ \A j \in DOMAIN rs : j < i => j \in DOMAIN q.running /\ rs[j] = q.running[j]
        /\ \A j \in DOMAIN rs : ~(j < i) => j + 1 \in DOMAIN q.running /\ rs[j] = q.running[j + 1]
    BY <1>1, <2>1, RemoveOK
  <2> QED
    BY <2>2
<1> HIDE DEF rs
<1>4. new.tasks = q.tasks /\ new.running = rs /\ new.recent = q.recent /\ new \in Queues
  BY <1>1, <1>2, <1>3 DEF Queues
<1>5. Len(new.tasks) <= MaxTasks /\ Len(new.running) <= MaxBackground
  BY <1>1, <1>3, <1>4, TaskQueueAssumption DEF QueueOK
<1>6. Stored(new)
  BY <1>3, <1>4 DEF QueueOK, Stored
<1>7. InOrder(new)
  BY <1>4 DEF QueueOK, InOrder
<1> QED
  BY <1>4, <1>5, <1>6, <1>7 DEF QueueOK

\* A waiting task is sent: an ordered one only from the front of the queue, and
\* only when its predecessor is not running.
LEMMA SendOK ==
  ASSUME NEW q, QueueOK(q), NEW i \in DOMAIN q.tasks, Len(q.running) < MaxBackground,
         q.tasks[i].kind = "storeScene" =>
            /\ i = 1
            /\ \A j \in DOMAIN q.running : q.running[j].task.id # q.tasks[i].after,
         NEW gs \in SUBSET Group,
         NEW new, new = [tasks |-> RemoveAt(q.tasks, i),
                         running |-> Append(q.running, [task |-> q.tasks[i], age |-> "new"]),
                         recent |-> gs]
  PROVE  QueueOK(new)
<1> DEFINE r == [task |-> q.tasks[i], age |-> "new"]
           rs == Append(q.running, r)
           n == Len(q.running)
           ts == RemoveAt(q.tasks, i)
           without == [q EXCEPT !.tasks = RemoveAt(@, i)]
<1>1. /\ q = [tasks |-> q.tasks, running |-> q.running, recent |-> q.recent]
      /\ q.tasks \in Seq(Task) /\ q.running \in Seq(Running) /\ q.recent \in SUBSET Group
      /\ n \in Nat /\ q.tasks[i] \in Task
  BY DEF QueueOK, Queues
<1>2. QueueOK(without)
  <2>1. without = [q EXCEPT !.tasks = RemoveAt(@, i)]
    OBVIOUS
  <2> HIDE DEF without
  <2> QED
    BY <2>1, DropTaskOK
<1>3. without = [tasks |-> ts, running |-> q.running, recent |-> q.recent]
  <2> HIDE DEF ts
  <2>1. without = [q EXCEPT !.tasks = ts]
    BY DEF ts
  <2> QED
    BY <1>1, <2>1
<1> HIDE DEF without
<1>4. new = [tasks |-> ts, running |-> rs, recent |-> gs] /\ new.tasks = ts /\ new.running = rs
  OBVIOUS
<1>5. r \in Running /\ r.task = q.tasks[i]
  BY <1>1 DEF Running, Age
<1>6. /\ rs \in Seq(Running) /\ Len(rs) = n + 1 /\ DOMAIN q.running = 1..n /\ DOMAIN rs = 1..(n + 1)
      /\ rs[n + 1] = r /\ \A j \in DOMAIN q.running : rs[j] = q.running[j]
  <2>1. rs = Append(q.running, r)
    OBVIOUS
  <2> HIDE DEF rs, r
  <2> QED
    BY <1>1, <1>5, <2>1, AppendOK
<1>7. /\ ts \in Seq(Task) /\ Len(ts) <= MaxTasks
      /\ \A j \in DOMAIN ts : j \in Nat
      /\ \A j \in DOMAIN ts : j < i => j \in DOMAIN q.tasks /\ ts[j] = q.tasks[j]
      /\ \A j \in DOMAIN ts : ~(j < i) => j + 1 \in DOMAIN q.tasks /\ ts[j] = q.tasks[j + 1]
  <2>1. ts = RemoveAt(q.tasks, i)
    OBVIOUS
  <2>2. without.tasks = ts
    BY <1>3
  <2> HIDE DEF ts
  <2>3. ts \in Seq(Task) /\ Len(ts) <= MaxTasks
    BY <1>2, <2>2 DEF QueueOK, Queues
  <2>4. \A j \in DOMAIN ts : j \in Nat
    BY <2>3
  <2> QED
    BY <1>1, <2>1, <2>3, <2>4, RemoveOK
<1> HIDE DEF ts, rs, r, n
<1>8. new \in Queues
  <2>1. ts \in Seq(Task) /\ rs \in Seq(Running)
    BY <1>6, <1>7
  <2> QED
    BY <1>4, <2>1, QueueType, Zenon
<1>9. Len(rs) <= MaxBackground
  BY <1>1, <1>6, TaskQueueAssumption DEF n
<1>10. InOrder(new)
  <2>1. InOrder(without) /\ without.tasks = ts
    BY <1>2, <1>3 DEF QueueOK
  <2> QED
    BY <1>4, <2>1 DEF InOrder
<1>11. \A j \in DOMAIN rs : (j \in DOMAIN q.running /\ rs[j] = q.running[j]) \/ rs[j] = r
  BY <1>1, <1>6
<1>12. \A j \in DOMAIN ts : \E k \in DOMAIN q.tasks : ts[j] = q.tasks[k]
  BY <1>7
<1>13. ASSUME NEW j \in DOMAIN rs, rs[j].task.kind = "storeScene"
       PROVE  /\ \A k \in DOMAIN ts : ts[k].id # rs[j].task.after
              /\ \A k \in DOMAIN rs : rs[k].task.id # rs[j].task.after
  <2>1. CASE j \in DOMAIN q.running /\ rs[j] = q.running[j]
    <3>1. /\ \A k \in DOMAIN q.tasks : q.tasks[k].id # rs[j].task.after
          /\ \A k \in DOMAIN q.running : q.running[k].task.id # rs[j].task.after
      BY <1>13, <2>1 DEF QueueOK, Stored
    <3> QED
      BY <3>1, <1>5, <1>11, <1>12
  <2>2. CASE rs[j] = r
    <3>1. i = 1 /\ \A k \in DOMAIN q.running : q.running[k].task.id # q.tasks[i].after
      BY <1>5, <1>13, <2>2
    <3>2. \A k \in DOMAIN q.tasks : q.tasks[k].id = q.tasks[i].after => k < i
      BY <1>5, <1>13, <2>2 DEF QueueOK, InOrder
    <3>3. \A k \in DOMAIN q.tasks : ~(k < 1)
      BY <1>1
    <3>4. \A k \in DOMAIN q.tasks : q.tasks[k].id # q.tasks[i].after
      BY <3>1, <3>2, <3>3
    <3> QED
      BY <3>1, <3>4, <2>2, <1>5, <1>11, <1>12
  <2> QED
    BY <1>11, <2>1, <2>2
<1>14. Stored(new)
  BY <1>4, <1>13 DEF Stored
<1> QED
  BY <1>4, <1>7, <1>8, <1>9, <1>10, <1>14 DEF QueueOK

LEMMA EndsOK ==
  ASSUME NEW q, QueueOK(q), NEW i \in DOMAIN q.tasks, Len(q.running) < MaxBackground,
         NEW new \in endsAt(q, i)
  PROVE  QueueOK(new)
<1> DEFINE t == q.tasks[i]
           without == [q EXCEPT !.tasks = RemoveAt(@, i)]
           bys == {j \in DOMAIN q.running : holdsUp(q, t, j)}
<1>1. CASE new = without
  BY <1>1, DropTaskOK
<1>2. CASE verdict(q, i) = "dropRunning" /\ new = [q EXCEPT !.running = RemoveAt(@, Min(bys))]
  <2>1. bys # {}
    BY <1>2 DEF verdict
  <2>2. bys \in SUBSET (DOMAIN q.running) /\ bys \in SUBSET Nat
    BY DEF QueueOK, Queues
  <2> HIDE DEF bys
  <2>3. Min(bys) \in DOMAIN q.running
    BY <2>1, <2>2, MinIn
  <2> QED
    BY <1>2, <2>3, DropRunningOK
<1>3. CASE /\ verdict(q, i) = "send"
           /\ new = [without EXCEPT !.running = Append(@, [task |-> t, age |-> "new"]),
                                    !.recent = @ \cup ({t.dst} \cap Group)]
  <2>1. bys = {} /\ ~(ordered(t) /\ i > 1)
    BY <1>3 DEF verdict
  <2>2. ASSUME t.kind = "storeScene"
        PROVE  i = 1 /\ \A j \in DOMAIN q.running : q.running[j].task.id # t.after
    <3>1. ordered(t)
      BY <2>2 DEF ordered
    <3>2. i \in Nat /\ i >= 1
      BY DEF QueueOK, Queues
    <3>3. \A j \in DOMAIN q.running : ~holdsUp(q, t, j)
      BY <2>1
    <3>4. i = 1
      BY <2>1, <3>1, <3>2
    <3>5. ASSUME NEW j \in DOMAIN q.running, q.running[j].task.id = t.after
          PROVE  holdsUp(q, t, j)
      BY <3>1, <3>5 DEF holdsUp
    <3> QED
      BY <3>3, <3>4, <3>5
  <2>3. q \in Queues /\ q.recent \cup ({t.dst} \cap Group) \in SUBSET Group
    BY DEF QueueOK, Queues
  <2>4. new = [tasks |-> RemoveAt(q.tasks, i),
               running |-> Append(q.running, [task |-> t, age |-> "new"]),
               recent |-> q.recent \cup ({t.dst} \cap Group)]
    BY <1>3, <2>3, QueueIs, Zenon
  <2> QED
    BY <2>2, <2>3, <2>4, SendOK
<1> QED
  BY <1>1, <1>2, <1>3 DEF endsAt

LEMMA ProcessOK ==
  ASSUME NEW q, QueueOK(q), NEW new \in processTasks(q)
  PROVE  QueueOK(new)
<1> DEFINE stale == {j \in DOMAIN q.running : q.running[j].age = "stale"}
           stops == {i \in DOMAIN q.tasks : verdict(q, i) # "wait"}
           goesOn(i) == verdict(q, i) = "send" /\ q.tasks[i].dst \in Group
           ends == {i \in stops : \A k \in stops : k < i => goesOn(k)}
           W == (UNION {endsAt(q, i) : i \in ends}) \cup (IF \A i \in stops : goesOn(i) THEN {q} ELSE {})
           quits == q.tasks = <<>> \/ (inNetwork /\ channelChange)
           full == IF stale = {} THEN q ELSE [q EXCEPT !.running = RemoveAt(@, Min(stale))]
<1>0. processTasks(q) =
        IF quits THEN {q}
        ELSE IF ~inNetwork THEN {[q EXCEPT !.tasks = <<>>, !.running = <<>>]}
        ELSE IF Len(q.running) >= MaxBackground THEN {full}
        ELSE W
  BY DEF processTasks
<1>1. CASE new = q
  BY <1>1
<1>2. CASE new = [q EXCEPT !.tasks = <<>>, !.running = <<>>]
  <2>1. new = [tasks |-> <<>>, running |-> <<>>, recent |-> q.recent] /\ q.recent \in SUBSET Group
    BY <1>2 DEF QueueOK, Queues
  <2>2. new.tasks = <<>> /\ new.running = <<>> /\ new \in Queues
    BY <2>1 DEF Queues
  <2> QED
    BY <2>2, TaskQueueAssumption DEF QueueOK, Stored, InOrder
<1>3. CASE stale # {} /\ new = [q EXCEPT !.running = RemoveAt(@, Min(stale))]
  <2>1. stale \in SUBSET (DOMAIN q.running) /\ stale \in SUBSET Nat
    BY DEF QueueOK, Queues
  <2> HIDE DEF stale
  <2>2. Min(stale) \in DOMAIN q.running
    BY <1>3, <2>1, MinIn
  <2> QED
    BY <1>3, <2>2, DropRunningOK
<1>4. CASE ~(Len(q.running) >= MaxBackground) /\ \E i \in DOMAIN q.tasks : new \in endsAt(q, i)
  <2>1. Len(q.running) < MaxBackground
    BY <1>4, TaskQueueAssumption DEF QueueOK, Queues
  <2> QED
    BY <1>4, <2>1, EndsOK
<1>5. ends \subseteq DOMAIN q.tasks
  OBVIOUS
<1>6. full = q \/ (stale # {} /\ full = [q EXCEPT !.running = RemoveAt(@, Min(stale))])
  OBVIOUS
<1>a. \A x \in W : x = q \/ \E i \in ends : x \in endsAt(q, i)
  <2> DEFINE U == UNION {endsAt(q, i) : i \in ends}
             on == \A i \in stops : goesOn(i)
  <2> HIDE DEF ends, stops, goesOn
  <2>1. \A x \in U : \E i \in ends : x \in endsAt(q, i)
    OBVIOUS
  <2>2. W = U \cup (IF on THEN {q} ELSE {})
    OBVIOUS
  <2> HIDE DEF U, W, on
  <2> QED
    BY <2>1, <2>2
<1> HIDE DEF stale, quits, full, ends, W
<1>7. CASE ~quits /\ inNetwork /\ ~(Len(q.running) >= MaxBackground)
  <2>1. processTasks(q) = W
    BY <1>0, <1>7
  <2>2. new = q \/ \E i \in ends : new \in endsAt(q, i)
    BY <1>a, <2>1
  <2> QED
    BY <1>1, <1>4, <1>5, <1>7, <2>2
<1>8. CASE ~(~quits /\ inNetwork /\ ~(Len(q.running) >= MaxBackground))
  <2>1. new = q \/ new = full \/ new = [q EXCEPT !.tasks = <<>>, !.running = <<>>]
    BY <1>0, <1>8
  <2> QED
    BY <1>1, <1>2, <1>3, <1>6, <2>1
<1> QED
  BY <1>7, <1>8
-------------------------------------------------------------------------------
(* Ids.                                                                      *)
LEMMA UpToFinite ==
  ASSUME NEW n \in Nat
  PROVE  IsFiniteSet(1..n) /\ Cardinality(1..n) = n
BY FS_Interval

LEMMA ImageBound ==
  ASSUME NEW n \in Nat, NEW f, NEW S, S = {f[i] : i \in 1..n}
  PROVE  IsFiniteSet(S) /\ Cardinality(S) \in Nat /\ Cardinality(S) <= n
<1> DEFINE g == [i \in 1..n |-> f[i]]
<1>1. g \in Surjection(1..n, S)
  <2>1. (\A i \in 1..n : f[i] \in S) /\ (\A x \in S : \E i \in 1..n : f[i] = x)
    OBVIOUS
  <2> QED
    BY <2>1 DEF Surjection
<1> HIDE DEF g
<1>2. IsFiniteSet(1..n) /\ Cardinality(1..n) = n
  BY UpToFinite
<1>3. IsFiniteSet(S) /\ Cardinality(S) <= Cardinality(1..n)
  BY <1>1, <1>2, FS_Surjection
<1>4. Cardinality(S) \in Nat
  BY <1>3, FS_CardinalityType
<1> QED
  BY <1>2, <1>3, <1>4

LEMMA UnionBound ==
  ASSUME NEW S, NEW T, IsFiniteSet(S), IsFiniteSet(T), NEW m \in Nat, NEW n \in Nat,
         Cardinality(S) <= m, Cardinality(T) <= n
  PROVE  IsFiniteSet(S \cup T) /\ Cardinality(S \cup T) \in Nat /\ Cardinality(S \cup T) <= m + n
<1>1. IsFiniteSet(S \cup T)
      /\ Cardinality(S \cup T) = Cardinality(S) + Cardinality(T) - Cardinality(S \cap T)
  BY FS_Union, Zenon
<1>2. IsFiniteSet(S \cap T)
  BY FS_Intersection
<1>3. Cardinality(S) \in Nat /\ Cardinality(T) \in Nat /\ Cardinality(S \cap T) \in Nat
      /\ Cardinality(S \cup T) \in Nat
  BY <1>1, <1>2, FS_CardinalityType
<1> QED
  BY <1>1, <1>3

LEMMA PickFresh ==
  ASSUME NEW S, IsFiniteSet(S), Cardinality(S) < IdPool
  PROVE  Min(1..IdPool \ S) \in 1..IdPool /\ Min(1..IdPool \ S) \notin S
<1>0. IdPool \in Nat
  BY TaskQueueAssumption
<1>1. Cardinality(1..IdPool) = IdPool
  BY <1>0, FS_Interval
<1>2. 1..IdPool \ S # {}
  <2>1. SUFFICES ASSUME 1..IdPool \ S = {} PROVE FALSE
    OBVIOUS
  <2>2. 1..IdPool \in SUBSET S
    BY <2>1
  <2>3. Cardinality(1..IdPool) <= Cardinality(S)
    BY <2>2, FS_Subset
  <2>4. Cardinality(S) \in Nat
    BY FS_CardinalityType
  <2> QED
    BY <1>0, <1>1, <2>3, <2>4
<1>3. 1..IdPool \ S \in SUBSET Nat
  BY <1>0
<1> QED
  BY <1>2, <1>3, MinIn

\* Two new ids can be had, and they are nobody's and nobody's predecessor's.
LEMMA UsedBound ==
  ASSUME Inv
  PROVE  /\ IsFiniteSet(UsedIds) /\ Cardinality(UsedIds) < IdPool
         /\ \A id \in 1..IdPool : IsFiniteSet(UsedIds \cup {id}) /\ Cardinality(UsedIds \cup {id}) < IdPool
         /\ \A i \in DOMAIN tasks : tasks[i].id \in UsedIds /\ tasks[i].after \in UsedIds
         /\ \A j \in DOMAIN runningTasks :
               runningTasks[j].task.id \in UsedIds /\ runningTasks[j].task.after \in UsedIds
<1> DEFINE n == Len(tasks)
           m == Len(runningTasks)
           fa == [i \in 1..n |-> tasks[i].id]
           fb == [i \in 1..n |-> tasks[i].after]
           fc == [j \in 1..m |-> runningTasks[j].task.id]
           fd == [j \in 1..m |-> runningTasks[j].task.after]
           A == {fa[i] : i \in 1..n}
           B == {fb[i] : i \in 1..n}
           C == {fc[i] : i \in 1..m}
           D == {fd[i] : i \in 1..m}
<1>1. /\ n \in Nat /\ m \in Nat /\ n <= MaxTasks /\ m <= MaxBackground
      /\ DOMAIN tasks = 1..n /\ DOMAIN runningTasks = 1..m
  BY DEF Inv, TypeOK, TypeOKTaskQueue
<1>2. \A i \in DOMAIN tasks : tasks[i].id \in UsedIds /\ tasks[i].after \in UsedIds
  BY DEF UsedIds, Range
<1>3. \A j \in DOMAIN runningTasks :
         runningTasks[j].task.id \in UsedIds /\ runningTasks[j].task.after \in UsedIds
  BY DEF UsedIds
<1>4. UsedIds \subseteq (A \cup B) \cup (C \cup D)
  <2>1. ASSUME NEW t \in Range(tasks) PROVE t.id \in A /\ t.after \in B
    <3>1. PICK i \in 1..n : t = tasks[i]
      BY <1>1 DEF Range
    <3> QED
      BY <3>1
  <2>2. ASSUME NEW j \in 1..m PROVE runningTasks[j].task.id \in C /\ runningTasks[j].task.after \in D
    OBVIOUS
  <2> HIDE DEF A, B, C, D, n, m
  <2> QED
    BY <1>1, <2>1, <2>2 DEF UsedIds
<1>5. IsFiniteSet(A) /\ Cardinality(A) <= n /\ IsFiniteSet(B) /\ Cardinality(B) <= n
  <2>1. A = {fa[i] : i \in 1..n} /\ B = {fb[i] : i \in 1..n}
    OBVIOUS
  <2> HIDE DEF A, B, fa, fb
  <2> QED
    BY <1>1, <2>1, ImageBound
<1>6. IsFiniteSet(C) /\ Cardinality(C) <= m /\ IsFiniteSet(D) /\ Cardinality(D) <= m
  <2>1. C = {fc[i] : i \in 1..m} /\ D = {fd[i] : i \in 1..m}
    OBVIOUS
  <2> HIDE DEF C, D, fc, fd
  <2> QED
    BY <1>1, <2>1, ImageBound
<1> HIDE DEF A, B, C, D, n, m
<1>7. IsFiniteSet(A \cup B) /\ Cardinality(A \cup B) <= n + n
  BY <1>1, <1>5, UnionBound
<1>8. IsFiniteSet(C \cup D) /\ Cardinality(C \cup D) <= m + m
  BY <1>1, <1>6, UnionBound
<1> DEFINE E == (A \cup B) \cup (C \cup D)
<1>9. IsFiniteSet(E) /\ Cardinality(E) \in Nat /\ Cardinality(E) <= (n + n) + (m + m)
  <2>1. n + n \in Nat /\ m + m \in Nat
    BY <1>1
  <2> DEFINE S == A \cup B
             T == C \cup D
  <2>2. IsFiniteSet(S) /\ IsFiniteSet(T) /\ Cardinality(S) <= n + n /\ Cardinality(T) <= m + m
    BY <1>7, <1>8
  <2>3. E = S \cup T
    OBVIOUS
  <2> HIDE DEF S, T, E
  <2>4. IsFiniteSet(S \cup T) /\ Cardinality(S \cup T) \in Nat
        /\ Cardinality(S \cup T) <= (n + n) + (m + m)
    BY <2>1, <2>2, UnionBound
  <2> QED
    BY <2>3, <2>4, Zenon
<1>10. UsedIds \in SUBSET E
  BY <1>4
<1> HIDE DEF E
<1>11. IsFiniteSet(UsedIds) /\ Cardinality(UsedIds) <= Cardinality(E) /\ Cardinality(UsedIds) \in Nat
  BY <1>9, <1>10, FS_Subset, FS_CardinalityType
<1>12. Cardinality(UsedIds) + 1 < IdPool
  BY <1>1, <1>9, <1>11, TaskQueueAssumption
<1>13. ASSUME NEW id \in 1..IdPool
       PROVE  IsFiniteSet(UsedIds \cup {id}) /\ Cardinality(UsedIds \cup {id}) < IdPool
  <2>1. IsFiniteSet(UsedIds \cup {id})
        /\ (Cardinality(UsedIds \cup {id}) = Cardinality(UsedIds) + 1
            \/ Cardinality(UsedIds \cup {id}) = Cardinality(UsedIds))
    BY <1>11, FS_AddElement
  <2> QED
    BY <2>1, <1>11, <1>12, TaskQueueAssumption
<1>14. Cardinality(UsedIds) < IdPool
  BY <1>11, <1>12, TaskQueueAssumption
<1> QED
  BY <1>2, <1>3, <1>11, <1>13, <1>14

-------------------------------------------------------------------------------
(* addTask().                                                                *)
LEMMA AddTaskOK ==
  ASSUME NEW ts, NEW rs, NEW gs, QueueOK([tasks |-> ts, running |-> rs, recent |-> gs]),
         NEW t \in Task, t.id # t.after,
         \A i \in DOMAIN ts : ts[i].after # t.id,
         \A j \in DOMAIN rs : rs[j].task.after # t.id,
         NEW new, new = addTask(ts, t)
  PROVE  /\ QueueOK([tasks |-> new, running |-> rs, recent |-> gs])
         /\ \A i \in DOMAIN new : new[i] = t \/ (i \in DOMAIN ts /\ new[i] = ts[i])
<1> DEFINE q == [tasks |-> ts, running |-> rs, recent |-> gs]
           equal == {i \in DOMAIN ts : ts[i].kind = t.kind /\ ts[i].dst = t.dst}
<1>1. /\ ts \in Seq(Task) /\ rs \in Seq(Running) /\ gs \in SUBSET Group
      /\ Len(ts) <= MaxTasks /\ Len(rs) <= MaxBackground /\ Len(ts) \in Nat
      /\ \A j \in DOMAIN rs : rs[j].task.kind = "storeScene" =>
            /\ \A i \in DOMAIN ts : ts[i].id # rs[j].task.after
            /\ \A k \in DOMAIN rs : rs[k].task.id # rs[j].task.after
      /\ \A i, k \in DOMAIN ts : ts[i].kind = "storeScene" /\ ts[k].id = ts[i].after => k < i
  <2>1. q.tasks = ts /\ q.running = rs /\ q.recent = gs /\ QueueOK(q)
    OBVIOUS
  <2> HIDE DEF q
  <2>2. ts \in Seq(Task) /\ rs \in Seq(Running) /\ gs \in SUBSET Group
    BY <2>1 DEF QueueOK, Queues
  <2>3. Len(ts) <= MaxTasks /\ Len(rs) <= MaxBackground /\ Len(ts) \in Nat
    BY <2>1, <2>2 DEF QueueOK
  <2> QED
    BY <2>1, <2>2, <2>3 DEF QueueOK, Stored, InOrder
<1>2. ASSUME new \in Seq(Task), Len(new) <= MaxTasks,
             \A i \in DOMAIN new : new[i] = t \/ (i \in DOMAIN ts /\ new[i] = ts[i]),
             \A i, k \in DOMAIN new : new[i].kind = "storeScene" /\ new[k].id = new[i].after => k < i
      PROVE  QueueOK([tasks |-> new, running |-> rs, recent |-> gs])
  <2> DEFINE p == [tasks |-> new, running |-> rs, recent |-> gs]
  <2>1. p \in Queues
    BY <1>1, <1>2, QueueType
  <2>2. p.tasks = new /\ p.running = rs
    OBVIOUS
  <2> HIDE DEF p
  <2>3. Stored(p)
    BY <1>1, <1>2, <2>2 DEF Stored
  <2>4. InOrder(p)
    BY <1>2, <2>2 DEF InOrder
  <2> QED
    BY <1>1, <1>2, <2>1, <2>2, <2>3, <2>4 DEF QueueOK, p
<1>3. CASE new = ts
  BY <1>1, <1>2, <1>3
<1>4. CASE t.kind = "command" /\ equal # {} /\ new = [ts EXCEPT ![Min(equal)] = t]
  <2> DEFINE e == Min(equal)
  <2>1. equal \in SUBSET Nat /\ equal \subseteq DOMAIN ts
    BY <1>1
  <2>2. e \in DOMAIN ts
    <3> HIDE DEF equal
    <3> QED
      BY <1>4, <2>1, MinIn
  <2> HIDE DEF e
  <2>3. new = [ts EXCEPT ![e] = t]
    BY <1>4 DEF e
  <2>4. /\ new \in Seq(Task) /\ DOMAIN new = DOMAIN ts /\ Len(new) = Len(ts)
        /\ new[e] = t /\ \A j \in DOMAIN ts \ {e} : new[j] = ts[j]
    BY <1>1, <2>2, <2>3, ExceptOK
  <2>5. \A i \in DOMAIN new : new[i] = t \/ (i \in DOMAIN ts /\ new[i] = ts[i])
    BY <2>4
  <2>6. \A i, k \in DOMAIN new : new[i].kind = "storeScene" /\ new[k].id = new[i].after => k < i
    BY <1>1, <1>4, <2>4, <2>5
  <2> QED
    BY <1>1, <1>2, <2>4, <2>5, <2>6
<1>5. CASE Len(ts) < MaxTasks /\ new = Append(ts, t)
  <2> DEFINE n == Len(ts) + 1
  <2>1. /\ new \in Seq(Task) /\ Len(new) = Len(ts) + 1
        /\ DOMAIN ts = 1..Len(ts) /\ DOMAIN new = 1..n
        /\ new[n] = t /\ \A j \in DOMAIN ts : new[j] = ts[j]
    BY <1>1, <1>5, AppendOK
  <2>2. \A i \in DOMAIN new : (i = n /\ new[i] = t) \/ (i \in DOMAIN ts /\ i < n /\ new[i] = ts[i])
    BY <1>1, <2>1
  <2>3. Len(new) <= MaxTasks
    BY <1>1, <1>5, <2>1, TaskQueueAssumption
  <2> HIDE DEF n
  <2>4. \A i, k \in DOMAIN new : new[i].kind = "storeScene" /\ new[k].id = new[i].after => k < i
    BY <1>1, <2>2
  <2> QED
    BY <1>2, <2>1, <2>2, <2>3, <2>4
<1> HIDE DEF equal
<1> QED
  BY <1>3, <1>4, <1>5 DEF addTask, equal

-------------------------------------------------------------------------------
(* Each action keeps the invariant.                                          *)
LEMMA QueueTypes ==
  ASSUME Inv
  PROVE  /\ QueueOK([tasks |-> tasks, running |-> runningTasks, recent |-> recent])
         /\ tasks \in Seq(Task) /\ runningTasks \in Seq(Running) /\ recent \in SUBSET Group
  BY DEF Inv, TypeOK, TypeOKTaskQueue, queue, Running

\* The types of the queue's variables follow from what holds of the queue.
LEMMA QueueStep ==
  ASSUME NEW q, QueueOK(q), become(q), TypeOKTaskQueue,
         available' \in [Node -> BOOLEAN], inNetwork' \in BOOLEAN, channelChange' \in BOOLEAN
  PROVE  TypeOKTaskQueue' /\ QueueOK(queue')
<1>1. tasks' = q.tasks /\ runningTasks' = q.running /\ recent' = q.recent
  BY DEF become
<1>2. /\ q = [tasks |-> q.tasks, running |-> q.running, recent |-> q.recent]
      /\ q.tasks \in Seq(Task) /\ q.running \in Seq(Running) /\ q.recent \in SUBSET Group
  BY DEF QueueOK, Queues
<1>3. queue' = q
  BY <1>1, <1>2 DEF queue
<1>4. Len(tasks') <= MaxTasks /\ Len(runningTasks') <= MaxBackground
  BY <1>1 DEF QueueOK
<1> QED
  BY <1>1, <1>2, <1>3, <1>4 DEF TypeOKTaskQueue, Running

LEMMA QueueKept ==
  ASSUME Inv, UNCHANGED <<tasks, runningTasks, recent>>, available' \in [Node -> BOOLEAN],
         inNetwork' \in BOOLEAN, channelChange' \in BOOLEAN
  PROVE  TypeOKTaskQueue' /\ QueueOK(queue')
<1>1. queue' = queue /\ QueueOK(queue)
  BY DEF Inv, queue
<1> QED
  BY <1>1 DEF Inv, TypeOK, TypeOKTaskQueue

\* The types of the manager's variables.
ManagerOK ==
  /\ pollNodes \in Seq(Node) /\ ItemOK
  /\ pollState \in {"Idle", "Wait", "Done"} /\ pollTimer \in BOOLEAN
  /\ apsReqId \in 0..IdPool /\ apiCount \in 0..ApiBound

LEMMA InvIs ==
  ASSUME TypeOKTaskQueue, QueueOK(queue), ManagerOK
  PROVE  Inv
<1>1. item = NoItem \/ (item.node \in Node /\ item.left \subseteq Attr)
  BY DEF ManagerOK, ItemOK
<1> QED
  BY <1>1 DEF Inv, TypeOK, ManagerOK

LEMMA InvNext ==
  ASSUME TypeOKTaskQueue', QueueOK(queue'), ManagerOK'
  PROVE  Inv'
<1>1. item' = NoItem \/ (item'.node \in Node /\ item'.left \subseteq Attr)
  BY DEF ManagerOK, ItemOK
<1>2. QueueOK(queue)'
  BY DEF QueueOK, Stored, InOrder
<1> QED
  BY <1>1, <1>2 DEF Inv, TypeOK, ManagerOK

LEMMA InvGives ==
  ASSUME Inv
  PROVE  TypeOKTaskQueue /\ QueueOK(queue) /\ ManagerOK
BY DEF Inv, TypeOK, ManagerOK

LEMMA InitInv == ASSUME Init PROVE Inv
<1>0. MaxTasks \in Nat /\ MaxBackground \in Nat /\ IdPool \in Nat /\ ApiBound \in Nat
  BY TaskQueueAssumption, PollManagerAssumption
<1>1. TypeOKTaskQueue
  <2>1. /\ tasks \in Seq(Task) /\ Len(tasks) <= MaxTasks
        /\ runningTasks \in Seq([task : Task, age : Age]) /\ Len(runningTasks) <= MaxBackground
    <3>1. tasks = <<>> /\ runningTasks = <<>>
      BY DEF Init, InitTaskQueue
    <3> QED
      BY <1>0, <3>1
  <2>2. recent \subseteq Group
    BY DEF Init, InitTaskQueue
  <2>3. available \in [Node -> BOOLEAN]
    BY DEF Init, InitTaskQueue
  <2>4. inNetwork \in BOOLEAN /\ channelChange \in BOOLEAN
    BY DEF Init, InitTaskQueue
  <2> QED
    BY <2>1, <2>2, <2>3, <2>4, Zenon DEF TypeOKTaskQueue
<1>2. QueueOK(queue)
  <2>1. queue.tasks = <<>> /\ queue.running = <<>> /\ queue.recent = {} /\ queue \in Queues
    BY DEF Init, InitTaskQueue, queue, Queues
  <2> QED
    BY <2>1, TaskQueueAssumption DEF QueueOK, Stored, InOrder
<1>3. ManagerOK
  <2>1. pollNodes \in Seq(Node)
    <3>1. pollNodes = <<>>
      BY DEF Init
    <3> QED
      BY <3>1
  <2>2. ItemOK /\ pollState \in {"Idle", "Wait", "Done"}
    BY DEF Init, ItemOK
  <2>3. pollTimer \in BOOLEAN
    BY DEF Init
  <2>4. apsReqId \in 0..IdPool /\ apiCount \in 0..ApiBound
    <3>1. apsReqId = 0 /\ apiCount = 0
      BY DEF Init, NoTask
    <3> QED
      BY <1>0, <3>1
  <2> QED
    BY <2>1, <2>2, <2>3, <2>4, Zenon DEF ManagerOK
<1> QED
  BY <1>1, <1>2, <1>3, InvIs

LEMMA TaskIs ==
  ASSUME NEW id \in 1..IdPool, NEW d \in Node \cup Group, NEW kind \in Kind,
         NEW after \in 0..IdPool, NEW a \in Nat,
         NEW t, t = [id |-> id, dst |-> d, kind |-> kind, after |-> after, attr |-> a]
  PROVE  t \in Task /\ t.id = id /\ t.after = after
BY DEF Task

LEMMA FreshAdd ==
  ASSUME Inv, NEW t \in Task, t.id \notin UsedIds, t.id # t.after,
         NEW new, new = addTask(tasks, t)
  PROVE  /\ QueueOK([tasks |-> new, running |-> runningTasks, recent |-> recent])
         /\ \A i \in DOMAIN new : new[i] = t \/ (i \in DOMAIN tasks /\ new[i] = tasks[i])
<1>1. (\A i \in DOMAIN tasks : tasks[i].after # t.id)
      /\ (\A j \in DOMAIN runningTasks : runningTasks[j].task.after # t.id)
  BY UsedBound
<1>2. QueueOK([tasks |-> tasks, running |-> runningTasks, recent |-> recent])
  BY QueueTypes
<1> QED
  BY <1>1, <1>2, AddTaskOK

LEMMA FreshTask ==
  ASSUME Inv, NEW d \in Node \cup Group, NEW kind \in Kind, NEW a \in Nat,
         NEW id, id = Min(1..IdPool \ UsedIds),
         NEW t, t = [id |-> id, dst |-> d, kind |-> kind, after |-> NoTask, attr |-> a],
         NEW new, new = addTask(tasks, t)
  PROVE  /\ id \in 1..IdPool /\ id \notin UsedIds /\ t \in Task /\ t.after = NoTask
         /\ QueueOK([tasks |-> new, running |-> runningTasks, recent |-> recent])
         /\ \A i \in DOMAIN new : new[i] = t \/ (i \in DOMAIN tasks /\ new[i] = tasks[i])
<1>0. IdPool \in Nat /\ NoTask = 0
  BY TaskQueueAssumption DEF NoTask
<1>1. id \in 1..IdPool /\ id \notin UsedIds
  BY UsedBound, PickFresh
<1>a. NoTask \in 0..IdPool /\ id # NoTask
  BY <1>0, <1>1
<1>2. t \in Task /\ t.id = id /\ t.after = NoTask
  BY <1>1, <1>a, TaskIs
<1>3. t \in Task /\ t.id \notin UsedIds /\ t.id # t.after
  BY <1>1, <1>a, <1>2, Zenon
<1>5. /\ QueueOK([tasks |-> new, running |-> runningTasks, recent |-> recent])
      /\ \A i \in DOMAIN new : new[i] = t \/ (i \in DOMAIN tasks /\ new[i] = tasks[i])
  <2> DEFINE P(u) ==
        /\ QueueOK([tasks |-> addTask(tasks, u), running |-> runningTasks, recent |-> recent])
        /\ \A i \in DOMAIN addTask(tasks, u) :
              addTask(tasks, u)[i] = u \/ (i \in DOMAIN tasks /\ addTask(tasks, u)[i] = tasks[i])
  <2>1. ASSUME NEW u \in Task, u.id \notin UsedIds, u.id # u.after PROVE P(u)
    BY <2>1, FreshAdd, Zenon
  <2> HIDE DEF P
  <2>2. P(t)
    BY <1>3, <2>1, Zenon
  <2> QED
    BY <2>2, Zenon DEF P
<1> QED
  BY <1>1, <1>2, <1>5

LEMMA TasksStep ==
  ASSUME Inv, NEW ts, QueueOK([tasks |-> ts, running |-> runningTasks, recent |-> recent]),
         tasks' = ts, UNCHANGED <<runningTasks, recent, available, inNetwork, channelChange>>
  PROVE  TypeOKTaskQueue' /\ QueueOK(queue')
<1> DEFINE q == [tasks |-> ts, running |-> runningTasks, recent |-> recent]
<1>1. QueueOK(q) /\ become(q)
  BY DEF become
<1>2. TypeOKTaskQueue
  BY DEF Inv, TypeOK
<1>3. available' \in [Node -> BOOLEAN] /\ inNetwork' \in BOOLEAN /\ channelChange' \in BOOLEAN
  BY <1>2 DEF TypeOKTaskQueue
<1> HIDE DEF q
<1> QED
  BY <1>1, <1>2, <1>3, QueueStep

LEMMA Environment ==
  ASSUME Inv, UNCHANGED <<available, inNetwork, channelChange>>
  PROVE  available' \in [Node -> BOOLEAN] /\ inNetwork' \in BOOLEAN /\ channelChange' \in BOOLEAN
BY DEF Inv, TypeOK, TypeOKTaskQueue

LEMMA QueueUnchanged ==
  ASSUME Inv, UNCHANGED tqVars
  PROVE  TypeOKTaskQueue' /\ QueueOK(queue')
BY Environment, QueueKept DEF tqVars

LEMMA ManagerUnchanged ==
  ASSUME Inv, UNCHANGED pmVars, apiCount' \in 0..ApiBound
  PROVE  ManagerOK'
<1>1. ManagerOK
  BY InvGives
<1>2. UNCHANGED <<pollNodes, item, pollState, pollTimer, apsReqId>>
  BY DEF pmVars
<1>3. ItemOK'
  BY <1>1, <1>2 DEF ManagerOK, ItemOK
<1> QED
  BY <1>1, <1>2, <1>3 DEF ManagerOK

LEMMA queuePollNodeInv ==
  ASSUME Inv, NEW n \in Node, queuePollNode(n)
  PROVE  Inv'
<1>1. TypeOKTaskQueue' /\ QueueOK(queue')
  BY QueueUnchanged DEF queuePollNode
<1>2. ManagerOK
  BY InvGives
<1>3. pollNodes' \in Seq(Node)
  <2>1. pollNodes \in Seq(Node) /\ pollNodes' = Append(pollNodes, n)
    BY <1>2 DEF ManagerOK, queuePollNode
  <2> QED
    BY <2>1, AppendOK
<1>4. UNCHANGED <<item, pollState, pollTimer, apsReqId, apiCount>>
  BY DEF queuePollNode
<1>5. ManagerOK'
  BY <1>2, <1>3, <1>4 DEF ManagerOK, ItemOK
<1> QED
  BY <1>1, <1>5, InvNext

\* pollNextDevice() takes one of the devices that wait.
LEMMA NextDeviceOK ==
  ASSUME Inv, pollNextDevice
  PROVE  pollNodes' \in Seq(Node) /\ ItemOK'
<1> DEFINE up == {i \in DOMAIN pollNodes : available[pollNodes[i]]}
<1>1. pollNodes \in Seq(Node) /\ ItemOK
  BY InvGives DEF ManagerOK
<1>2. CASE item # NoItem
  BY <1>1, <1>2 DEF pollNextDevice, ItemOK
<1>3. CASE item = NoItem /\ nextNode = 0
  BY <1>1, <1>3 DEF pollNextDevice, ItemOK
<1>4. CASE item = NoItem /\ nextNode # 0
  <2>1. up # {} /\ nextNode = Min(up)
    BY <1>4 DEF nextNode
  <2>2. up \in SUBSET Nat /\ up \in SUBSET (DOMAIN pollNodes)
    BY <1>1
  <2> HIDE DEF up
  <2>3. nextNode \in DOMAIN pollNodes
    BY <2>1, <2>2, MinIn
  <2>4. pollNodes[nextNode] \in Node
    BY <1>1, <2>3
  <2>5. nextNode \in Nat /\ Len(pollNodes) \in Nat
    BY <1>1, <2>3
  <2>6. SubSeq(pollNodes, nextNode + 1, Len(pollNodes)) \in Seq(Node)
    BY <1>1, <2>5
  <2>7. pollNodes' = SubSeq(pollNodes, nextNode + 1, Len(pollNodes))
    BY <1>4 DEF pollNextDevice
  <2>8. PICK left \in SUBSET Attr : item' = [node |-> pollNodes[nextNode], left |-> left]
    BY <1>4 DEF pollNextDevice
  <2>9. ItemOK'
    BY <2>4, <2>8 DEF ItemOK
  <2> QED
    BY <2>6, <2>7, <2>9
<1> QED
  BY <1>2, <1>3, <1>4

LEMMA IdleTimerInv ==
  ASSUME Inv, IdleTimer
  PROVE  Inv'
<1>1. TypeOKTaskQueue' /\ QueueOK(queue')
  BY QueueUnchanged DEF IdleTimer
<1>2. pollNodes' \in Seq(Node) /\ ItemOK'
  BY NextDeviceOK DEF IdleTimer
<1>3. pollTimer' \in BOOLEAN
  BY DEF IdleTimer
<1>4. ManagerOK /\ UNCHANGED <<pollState, apsReqId, apiCount>>
  BY InvGives DEF IdleTimer
<1>5. ManagerOK'
  BY <1>2, <1>3, <1>4 DEF ManagerOK
<1> QED
  BY <1>1, <1>5, InvNext

LEMMA PollReadInv ==
  ASSUME Inv, pollRead, UNCHANGED <<runningTasks, recent, tqEnvironment, apiCount>>
  PROVE  Inv'
<1> DEFINE a  == Min(item.left)
           id == Min(1..IdPool \ UsedIds)
           t  == [id |-> id, dst |-> item.node, kind |-> "read", after |-> NoTask, attr |-> a]
           ts == addTask(tasks, t)
<1>0. /\ item # NoItem /\ item.left # {}
      /\ item' = [item EXCEPT !.left = @ \ {a}]
      /\ \/ tasks' = ts /\ pollState' = "Wait" /\ apsReqId' = id
         \/ tasks' = tasks /\ pollState' = "Idle" /\ apsReqId' = NoTask
      /\ pollTimer' = TRUE
      /\ UNCHANGED <<runningTasks, recent, available, inNetwork, channelChange, pollNodes>>
  BY DEF pollRead, tqEnvironment
<1>1. ManagerOK
  BY InvGives
<1>2. item \in [node : Node, left : SUBSET Attr]
  BY <1>0, <1>1 DEF ManagerOK, ItemOK
<1>3. a \in Nat
  <2>1. item.left \in SUBSET Nat /\ item.left # {}
    BY <1>0, <1>2, PollManagerAssumption
  <2> HIDE DEF a
  <2> QED
    BY <2>1, PollManagerAssumption, MinIn DEF a
<1>4. ItemOK'
  <2> HIDE DEF a
  <2> QED
    BY <1>0, <1>2 DEF ItemOK
<1>5. id \in 1..IdPool /\ QueueOK([tasks |-> ts, running |-> runningTasks, recent |-> recent])
  <2>1. item.node \in Node \cup Group /\ "read" \in Kind
    BY <1>2 DEF Kind
  <2>2. id = Min(1..IdPool \ UsedIds)
    OBVIOUS
  <2>3. t = [id |-> id, dst |-> item.node, kind |-> "read", after |-> NoTask, attr |-> a]
    OBVIOUS
  <2>4. ts = addTask(tasks, t)
    OBVIOUS
  <2> HIDE DEF a, id, t, ts
  <2> QED
    BY <1>3, <2>1, <2>2, <2>3, <2>4, FreshTask, Zenon
<1> HIDE DEF ts, id, t, a
<1>6. TypeOKTaskQueue' /\ QueueOK(queue')
  <2>1. CASE tasks' = ts
    BY <1>0, <1>5, <2>1, TasksStep
  <2>2. CASE tasks' = tasks
    BY <1>0, <2>2, QueueUnchanged DEF tqVars
  <2> QED
    BY <1>0, <2>1, <2>2
<1>7. ManagerOK'
  <2>1. pollState' \in {"Idle", "Wait", "Done"} /\ pollNodes' \in Seq(Node) /\ apiCount' \in 0..ApiBound
    BY <1>0, <1>1 DEF ManagerOK
  <2>2. pollTimer' \in BOOLEAN
    BY <1>0
  <2>3. apsReqId' \in 0..IdPool
    BY <1>0, <1>5, TaskQueueAssumption DEF NoTask
  <2> QED
    BY <1>4, <2>1, <2>2, <2>3, Zenon DEF ManagerOK
<1> QED
  BY <1>6, <1>7, InvNext

LEMMA PollTimerFiredInv ==
  ASSUME Inv, PollTimerFired
  PROVE  Inv'
<1>0. /\ UNCHANGED apiCount /\ UNCHANGED <<runningTasks, recent, tqEnvironment, apiCount>>
      /\ pollDone \/ pollEmpty \/ pollRemove \/ pollRead
  BY DEF PollTimerFired
<1>1. ManagerOK /\ NoTask \in 0..IdPool
  BY InvGives, TaskQueueAssumption DEF NoTask
<1>2. CASE pollDone
  <2>1. TypeOKTaskQueue' /\ QueueOK(queue')
    BY <1>0, <1>2, QueueUnchanged DEF pollDone, tqVars, tqEnvironment
  <2>2. pollNodes' \in Seq(Node) /\ ItemOK'
    BY <1>2, NextDeviceOK DEF pollDone
  <2>3. pollTimer' \in BOOLEAN
    BY <1>2 DEF pollDone
  <2>4. ManagerOK'
    BY <1>0, <1>1, <1>2, <2>2, <2>3 DEF ManagerOK, pollDone
  <2> QED
    BY <2>1, <2>4, InvNext
<1>3. CASE pollEmpty
  <2>1. TypeOKTaskQueue' /\ QueueOK(queue')
    BY <1>0, <1>3, QueueUnchanged DEF pollEmpty, tqVars, tqEnvironment
  <2>2. ItemOK'
    BY <1>1, <1>3 DEF pollEmpty, ManagerOK, ItemOK
  <2>3. pollTimer' \in BOOLEAN
    BY <1>3 DEF pollEmpty
  <2>4. ManagerOK'
    BY <1>0, <1>1, <1>3, <2>2, <2>3 DEF ManagerOK, pollEmpty
  <2> QED
    BY <2>1, <2>4, InvNext
<1>4. CASE pollRemove
  <2>1. TypeOKTaskQueue' /\ QueueOK(queue')
    BY <1>0, <1>4, QueueUnchanged DEF pollRemove, tqVars, tqEnvironment
  <2>2. ItemOK'
    BY <1>4 DEF pollRemove, ItemOK
  <2>3. pollTimer' \in BOOLEAN
    BY <1>4 DEF pollRemove
  <2>4. ManagerOK'
    BY <1>0, <1>1, <1>4, <2>2, <2>3 DEF ManagerOK, pollRemove
  <2> QED
    BY <2>1, <2>4, InvNext
<1>5. CASE pollRead
  BY <1>0, <1>5, PollReadInv
<1> QED
  BY <1>0, <1>2, <1>3, <1>4, <1>5

LEMMA ProcessTasksInv ==
  ASSUME Inv, ProcessTasks
  PROVE  Inv'
<1>1. PICK q \in processTasks(queue) : become(q)
  BY DEF ProcessTasks
<1>2. QueueOK(queue) /\ TypeOKTaskQueue /\ ManagerOK
  BY InvGives
<1>3. QueueOK(q)
  BY <1>1, <1>2, ProcessOK
<1>4. UNCHANGED <<available, inNetwork, channelChange>> /\ UNCHANGED pmVars /\ UNCHANGED apiCount
  BY DEF ProcessTasks, tqEnvironment
<1>5. TypeOKTaskQueue' /\ QueueOK(queue')
  BY <1>1, <1>2, <1>3, <1>4, Environment, QueueStep
<1>6. ManagerOK'
  BY <1>2, <1>4, ManagerUnchanged DEF ManagerOK
<1> QED
  BY <1>5, <1>6, InvNext

LEMMA PollConfirmOK ==
  ASSUME Inv, NEW id, NEW dst, pollConfirm(id, dst), UNCHANGED apiCount
  PROVE  ManagerOK'
<1>0. ManagerOK /\ apiCount' \in 0..ApiBound
  BY InvGives DEF ManagerOK
<1>1. CASE UNCHANGED pmVars
  BY <1>0, <1>1, ManagerUnchanged
<1>2. CASE /\ item' \in {item, [item EXCEPT !.left = {}]}
           /\ pollState' = "Idle" /\ pollTimer' = TRUE /\ apsReqId' = NoTask
           /\ UNCHANGED pollNodes
  <2>1. ItemOK'
    BY <1>0, <1>2 DEF ManagerOK, ItemOK, NoItem
  <2>2. pollTimer' \in BOOLEAN
    BY <1>2
  <2>3. apsReqId' \in 0..IdPool
    BY <1>2, TaskQueueAssumption DEF NoTask
  <2> QED
    BY <1>0, <1>2, <2>1, <2>2, <2>3 DEF ManagerOK
<1> QED
  BY <1>1, <1>2 DEF pollConfirm

LEMMA ApsdeDataConfirmInv ==
  ASSUME Inv, NEW id, NEW dst \in Node \cup Group, ApsdeDataConfirm(id, dst)
  PROVE  Inv'
<1> DEFINE confirmed == {j \in DOMAIN runningTasks : runningTasks[j].task.id = id}
           without == [queue EXCEPT !.running = RemoveAt(@, Min(confirmed))]
<1>0. QueueOK(queue) /\ TypeOKTaskQueue /\ ManagerOK
  BY InvGives
<1>1. PICK q : QueueOK(q) /\ become(q)
  <2>1. CASE confirmed = {}
    BY <1>0, <2>1 DEF ApsdeDataConfirm
  <2>2. CASE confirmed # {}
    <3>1. PICK q \in processTasks(without) : become(q)
      BY <2>2 DEF ApsdeDataConfirm
    <3>2. Min(confirmed) \in DOMAIN queue.running
      <4>1. confirmed \in SUBSET (DOMAIN runningTasks) /\ confirmed \in SUBSET Nat
        BY QueueTypes
      <4> HIDE DEF confirmed
      <4>2. Min(confirmed) \in DOMAIN runningTasks
        BY <2>2, <4>1, MinIn
      <4> QED
        BY <4>2 DEF queue
    <3> HIDE DEF confirmed
    <3>3. QueueOK(without)
      BY <1>0, <3>2, DropRunningOK
    <3> HIDE DEF without
    <3> QED
      BY <3>1, <3>3, ProcessOK
  <2> QED
    BY <2>1, <2>2
<1>2. UNCHANGED <<available, inNetwork, channelChange>> /\ UNCHANGED apiCount
  BY DEF ApsdeDataConfirm, tqEnvironment
<1>3. TypeOKTaskQueue' /\ QueueOK(queue')
  BY <1>0, <1>1, <1>2, Environment, QueueStep
<1>4. ManagerOK'
  BY <1>0, <1>2, PollConfirmOK DEF ApsdeDataConfirm
<1> QED
  BY <1>3, <1>4, InvNext

LEMMA GrowsOlderInv ==
  ASSUME Inv, NEW j, Queue(GrowsOlder(j))
  PROVE  Inv'
<1>0. QueueOK(queue) /\ TypeOKTaskQueue /\ ManagerOK
  BY InvGives
<1>1. /\ UNCHANGED pmVars /\ UNCHANGED apiCount /\ j \in DOMAIN runningTasks
      /\ UNCHANGED <<tasks, recent, available, inNetwork, channelChange>>
  BY DEF Queue, GrowsOlder, tqEnvironment
<1>2. PICK next \in {"sent", "stale"} : runningTasks' = [runningTasks EXCEPT ![j].age = next]
  BY DEF Queue, GrowsOlder
<1>3. tasks \in Seq(Task) /\ runningTasks \in Seq(Running) /\ recent \in SUBSET Group
  BY QueueTypes
<1> DEFINE r == [runningTasks[j] EXCEPT !.age = next]
           rs == [runningTasks EXCEPT ![j] = r]
           q == [tasks |-> tasks, running |-> rs, recent |-> recent]
<1>4. r \in Running /\ r.task = runningTasks[j].task
  <2>1. runningTasks[j] \in Running
    BY <1>1, <1>3
  <2> QED
    BY <2>1 DEF Running, Age
<1>5. runningTasks' = rs
  BY <1>2
<1>6. /\ rs \in Seq(Running) /\ DOMAIN rs = DOMAIN runningTasks /\ Len(rs) = Len(runningTasks)
      /\ rs[j] = r /\ \A k \in DOMAIN runningTasks \ {j} : rs[k] = runningTasks[k]
  <2>1. rs = [runningTasks EXCEPT ![j] = r]
    OBVIOUS
  <2> HIDE DEF rs, r
  <2> QED
    BY <1>1, <1>3, <1>4, <2>1, ExceptOK
<1> HIDE DEF r, rs
<1>7. \A k \in DOMAIN rs : k \in DOMAIN runningTasks /\ rs[k].task = runningTasks[k].task
  BY <1>4, <1>6
<1>8. QueueOK(q)
  <2>1. q \in Queues
    BY <1>3, <1>6, QueueType
  <2>2. q.tasks = tasks /\ q.running = rs /\ queue.tasks = tasks /\ queue.running = runningTasks
    BY DEF queue
  <2> HIDE DEF q
  <2>3. Stored(q)
    BY <1>0, <1>7, <2>2 DEF QueueOK, Stored
  <2>4. InOrder(q)
    BY <1>0, <2>2 DEF QueueOK, InOrder
  <2> QED
    BY <1>0, <1>6, <2>1, <2>2, <2>3, <2>4 DEF QueueOK
<1>9. become(q)
  BY <1>1, <1>5 DEF become
<1> HIDE DEF q
<1>10. TypeOKTaskQueue' /\ QueueOK(queue')
  BY <1>0, <1>1, <1>8, <1>9, Environment, QueueStep
<1>11. ManagerOK'
  BY <1>0, <1>1, ManagerUnchanged DEF ManagerOK
<1> QED
  BY <1>10, <1>11, InvNext

LEMMA GroupDelayOverInv ==
  ASSUME Inv, NEW g, Queue(GroupDelayOver(g))
  PROVE  Inv'
<1>0. QueueOK(queue) /\ TypeOKTaskQueue /\ ManagerOK
  BY InvGives
<1>1. /\ UNCHANGED pmVars /\ UNCHANGED apiCount /\ recent' = recent \ {g}
      /\ UNCHANGED <<tasks, runningTasks, available, inNetwork, channelChange>>
  BY DEF Queue, GroupDelayOver, tqEnvironment
<1> DEFINE gs == recent \ {g}
           q == [tasks |-> tasks, running |-> runningTasks, recent |-> gs]
<1>2. tasks \in Seq(Task) /\ runningTasks \in Seq(Running) /\ gs \in SUBSET Group
  BY QueueTypes
<1>3. recent' = gs
  BY <1>1
<1> HIDE DEF gs
<1>4. QueueOK(q)
  <2>1. q \in Queues
    BY <1>2, QueueType
  <2>2. q.tasks = tasks /\ q.running = runningTasks /\ queue.tasks = tasks /\ queue.running = runningTasks
    BY DEF queue
  <2> HIDE DEF q
  <2> QED
    BY <1>0, <2>1, <2>2 DEF QueueOK, Stored, InOrder
<1>5. become(q)
  BY <1>1, <1>3 DEF become
<1> HIDE DEF q
<1>6. TypeOKTaskQueue' /\ QueueOK(queue')
  BY <1>0, <1>1, <1>4, <1>5, Environment, QueueStep
<1>7. ManagerOK'
  BY <1>0, <1>1, ManagerUnchanged DEF ManagerOK
<1> QED
  BY <1>6, <1>7, InvNext

\* A scene is added and stored: the second request comes after the first.
LEMMA StoreSceneOK ==
  ASSUME Inv, NEW g \in Group
  PROVE  QueueOK([tasks |-> storeScene(g), running |-> runningTasks, recent |-> recent])
<1> DEFINE id  == Min(1..IdPool \ UsedIds)
           id2 == Min(1..IdPool \ (UsedIds \cup {id}))
           t   == [id |-> id, dst |-> g, kind |-> "addScene", after |-> NoTask, attr |-> 0]
           ts  == addTask(tasks, t)
           t2  == [id |-> id2, dst |-> g, kind |-> "storeScene", after |-> id, attr |-> 0]
           new == addTask(ts, t2)
<1>1. storeScene(g) = IF ts = tasks THEN tasks ELSE new
  BY DEF storeScene
<1>2. QueueOK([tasks |-> tasks, running |-> runningTasks, recent |-> recent])
  BY QueueTypes
<1>3. /\ id \in 1..IdPool /\ id \notin UsedIds /\ t.after = NoTask
      /\ QueueOK([tasks |-> ts, running |-> runningTasks, recent |-> recent])
      /\ \A i \in DOMAIN ts : ts[i] = t \/ (i \in DOMAIN tasks /\ ts[i] = tasks[i])
  <2>1. g \in Node \cup Group /\ "addScene" \in Kind /\ 0 \in Nat
    BY DEF Kind
  <2>2. id = Min(1..IdPool \ UsedIds)
    OBVIOUS
  <2>3. t = [id |-> id, dst |-> g, kind |-> "addScene", after |-> NoTask, attr |-> 0]
    OBVIOUS
  <2>4. ts = addTask(tasks, t)
    OBVIOUS
  <2> HIDE DEF id, t, ts
  <2> QED
    BY <2>1, <2>2, <2>3, <2>4, FreshTask
<1>4. id2 \in 1..IdPool /\ id2 \notin UsedIds /\ id2 # id
  <2>1. IsFiniteSet(UsedIds \cup {id}) /\ Cardinality(UsedIds \cup {id}) < IdPool
    <3> HIDE DEF id
    <3> QED
      BY <1>3, UsedBound, Zenon
  <2> DEFINE S == UsedIds \cup {id}
  <2>2. IsFiniteSet(S) /\ Cardinality(S) < IdPool
    BY <2>1, Zenon
  <2>3. id2 = Min(1..IdPool \ S)
    OBVIOUS
  <2> HIDE DEF S, id2
  <2>4. id2 \in 1..IdPool /\ id2 \notin S
    BY <2>2, <2>3, PickFresh, Zenon
  <2> QED
    BY <2>4 DEF S
<1>5. t2 \in Task /\ t2.id = id2 /\ t2.after = id
  <2>1. g \in Node \cup Group /\ "storeScene" \in Kind /\ 0 \in Nat
    BY DEF Kind
  <2>2. id \in 0..IdPool
    <3> HIDE DEF id
    <3> QED
      BY <1>3, TaskQueueAssumption
  <2>3. t2 = [id |-> id2, dst |-> g, kind |-> "storeScene", after |-> id, attr |-> 0]
    OBVIOUS
  <2> HIDE DEF id, id2, t2
  <2> QED
    BY <1>4, <2>1, <2>2, <2>3, TaskIs
<1>6. new = addTask(ts, t2)
  OBVIOUS
<1> HIDE DEF id, id2, t, ts, t2, new
<1>7. \A i \in DOMAIN ts : ts[i].after # t2.id
  <2>1. NoTask # id2
    BY <1>4, TaskQueueAssumption DEF NoTask
  <2>2. \A i \in DOMAIN tasks : tasks[i].after # id2
    BY <1>4, UsedBound
  <2> QED
    BY <1>3, <1>5, <2>1, <2>2
<1>8. \A j \in DOMAIN runningTasks : runningTasks[j].task.after # t2.id
  BY <1>4, <1>5, UsedBound
<1>9. t2.id # t2.after
  BY <1>4, <1>5
<1>10. QueueOK([tasks |-> new, running |-> runningTasks, recent |-> recent])
  BY <1>3, <1>5, <1>6, <1>7, <1>8, <1>9, AddTaskOK
<1> QED
  BY <1>1, <1>2, <1>10

LEMMA AddCommandOK ==
  ASSUME Inv, NEW d \in Node
  PROVE  QueueOK([tasks |-> addCommand(d), running |-> runningTasks, recent |-> recent])
<1> DEFINE id == Min(1..IdPool \ UsedIds)
           t  == [id |-> id, dst |-> d, kind |-> "command", after |-> NoTask, attr |-> 0]
           ts == addTask(tasks, t)
<1>1. d \in Node \cup Group /\ "command" \in Kind /\ 0 \in Nat
  BY DEF Kind
<1>2. id = Min(1..IdPool \ UsedIds)
  OBVIOUS
<1>3. t = [id |-> id, dst |-> d, kind |-> "command", after |-> NoTask, attr |-> 0]
  OBVIOUS
<1>4. ts = addTask(tasks, t)
  OBVIOUS
<1>5. addCommand(d) = ts
  BY DEF addCommand
<1> HIDE DEF id, t, ts
<1>6. QueueOK([tasks |-> ts, running |-> runningTasks, recent |-> recent])
  BY <1>1, <1>2, <1>3, <1>4, FreshTask, Zenon
<1> QED
  BY <1>5, <1>6, Zenon

LEMMA ApiRequestInv ==
  ASSUME Inv, ApiRequest
  PROVE  Inv'
<1>1. /\ UNCHANGED pmVars /\ apiCount < ApiBound /\ apiCount' = apiCount + 1
      /\ UNCHANGED <<runningTasks, recent, available, inNetwork, channelChange>>
  BY DEF ApiRequest, tqEnvironment
<1>2. apiCount' \in 0..ApiBound
  BY <1>1, InvGives, PollManagerAssumption DEF ManagerOK
<1>3. QueueOK([tasks |-> tasks', running |-> runningTasks, recent |-> recent])
  <2>1. CASE \E d \in Node : tasks' = addCommand(d)
    BY <2>1, AddCommandOK
  <2>2. CASE \E g \in Group : tasks' = storeScene(g)
    BY <2>2, StoreSceneOK
  <2> QED
    BY <2>1, <2>2 DEF ApiRequest
<1>4. TypeOKTaskQueue' /\ QueueOK(queue')
  BY <1>1, <1>3, TasksStep
<1>5. ManagerOK'
  BY <1>1, <1>2, ManagerUnchanged
<1> QED
  BY <1>4, <1>5, InvNext

LEMMA DisturbInv ==
  ASSUME Inv, Disturb
  PROVE  Inv'
<1>1. /\ UNCHANGED pmVars /\ apiCount < ApiBound /\ apiCount' = apiCount + 1
      /\ UNCHANGED <<tasks, runningTasks, recent>>
  BY DEF Disturb
<1>2. apiCount' \in 0..ApiBound
  BY <1>1, InvGives, PollManagerAssumption DEF ManagerOK
<1>3. available \in [Node -> BOOLEAN] /\ inNetwork \in BOOLEAN /\ channelChange \in BOOLEAN
  BY DEF Inv, TypeOK, TypeOKTaskQueue
<1>4. available' \in [Node -> BOOLEAN]
  BY <1>3 DEF Disturb
<1>5. inNetwork' \in BOOLEAN
  BY <1>3, Zenon DEF Disturb
<1>6. channelChange' \in BOOLEAN
  BY <1>3, Zenon DEF Disturb
<1>7. TypeOKTaskQueue' /\ QueueOK(queue')
  BY <1>1, <1>4, <1>5, <1>6, QueueKept
<1>8. ManagerOK'
  BY <1>1, <1>2, ManagerUnchanged
<1> QED
  BY <1>7, <1>8, InvNext

LEMMA UnreachableInv ==
  ASSUME Inv, NEW d \in Node, Unreachable(d)
  PROVE  Inv'
<1>1. UNCHANGED pmVars /\ UNCHANGED apiCount /\ UNCHANGED <<tasks, runningTasks, recent>>
  BY DEF Unreachable
<1>2. available \in [Node -> BOOLEAN] /\ inNetwork \in BOOLEAN /\ channelChange \in BOOLEAN
  BY DEF Inv, TypeOK, TypeOKTaskQueue
<1>3. available' \in [Node -> BOOLEAN]
  BY <1>2 DEF Unreachable
<1>4. inNetwork' \in BOOLEAN /\ channelChange' \in BOOLEAN
  BY <1>2, Zenon DEF Unreachable
<1>5. TypeOKTaskQueue' /\ QueueOK(queue')
  BY <1>1, <1>3, <1>4, QueueKept
<1>6. ManagerOK'
  BY <1>1, InvGives, ManagerUnchanged DEF ManagerOK
<1> QED
  BY <1>5, <1>6, InvNext

LEMMA RecoverInv ==
  ASSUME Inv, Recover
  PROVE  Inv'
<1>1. UNCHANGED pmVars /\ UNCHANGED apiCount /\ UNCHANGED <<tasks, runningTasks, recent>>
  BY DEF Recover
<1>2. available' \in [Node -> BOOLEAN]
  BY DEF Recover
<1>3. inNetwork' \in BOOLEAN /\ channelChange' \in BOOLEAN
  BY DEF Recover
<1>4. TypeOKTaskQueue' /\ QueueOK(queue')
  BY <1>1, <1>2, <1>3, QueueKept
<1>5. ManagerOK'
  BY <1>1, InvGives, ManagerUnchanged DEF ManagerOK
<1> QED
  BY <1>4, <1>5, InvNext

\* The inductive invariant: whatever waits or runs is a task within the limits of
\* the queue, a request that stores a scene stands behind the one that adds it, and
\* is sent only when that one has left both lists.
THEOREM InvHolds == Spec => []Inv
<1>1. Init => Inv
  BY InitInv
<1>2. Inv /\ [Next]_vars => Inv'
  <2> SUFFICES ASSUME Inv, [Next]_vars PROVE Inv'
    OBVIOUS
  <2>1. CASE \E n \in Node : queuePollNode(n)
    BY <2>1, queuePollNodeInv
  <2>2. CASE IdleTimer
    BY <2>2, IdleTimerInv
  <2>3. CASE PollTimerFired
    BY <2>3, PollTimerFiredInv
  <2>4. CASE ProcessTasks
    BY <2>4, ProcessTasksInv
  <2>5. CASE \E id \in Awaited, dst \in Node \cup Group : ApsdeDataConfirm(id, dst)
    BY <2>5, ApsdeDataConfirmInv
  <2>6. CASE \E j \in 1..MaxBackground : Queue(GrowsOlder(j))
    BY <2>6, GrowsOlderInv
  <2>7. CASE \E g \in Group : Queue(GroupDelayOver(g))
    BY <2>7, GroupDelayOverInv
  <2>8. CASE ApiRequest
    BY <2>8, ApiRequestInv
  <2>9. CASE Disturb
    BY <2>9, DisturbInv
  <2>12. CASE \E d \in GoesAway : Unreachable(d)
    BY <2>12, UnreachableInv, PollManagerAssumption
  <2>10. CASE Recover
    BY <2>10, RecoverInv
  <2>11. CASE UNCHANGED vars
    <3>1. UNCHANGED tqVars /\ UNCHANGED pmVars /\ UNCHANGED apiCount
      BY <2>11 DEF vars
    <3>2. TypeOKTaskQueue' /\ QueueOK(queue')
      BY <3>1, QueueUnchanged
    <3>3. ManagerOK'
      BY <3>1, InvGives, ManagerUnchanged DEF ManagerOK
    <3> QED
      BY <3>2, <3>3, InvNext
  <2> QED
    BY <2>1, <2>2, <2>3, <2>4, <2>5, <2>6, <2>7, <2>8, <2>9, <2>10, <2>11, <2>12 DEF Next
<1> QED
  BY <1>1, <1>2, PTL DEF Spec

\* The types: what addTask(), processTasks() and the confirms leave behind is always
\* a queue within MaxTasks and MAX_BACKGROUND_TASKS, and the poll manager waits for a
\* request that can exist.
THEOREM TypesRight == Spec => []TypeOK
<1>1. Inv => TypeOK
  BY DEF Inv
<1> QED
  BY <1>1, InvHolds, PTL

\* TaskItem::ordered keeps its promise in processTasks(): while the request that
\* stores a scene is under way, the one that adds the scene does not wait, and was
\* not sent before it and left unconfirmed.
THEOREM ScenesInOrder == Spec => []StoreAfterAdd
<1>1. Inv => StoreAfterAdd
  <2> SUFFICES ASSUME Inv PROVE StoreAfterAdd
    OBVIOUS
  <2>1. Stored(queue) /\ queue.tasks = tasks /\ queue.running = runningTasks
    BY DEF Inv, QueueOK, queue
  <2> QED
    BY <2>1 DEF Stored, StoreAfterAdd
<1> QED
  BY <1>1, InvHolds, PTL

===============================================================================
