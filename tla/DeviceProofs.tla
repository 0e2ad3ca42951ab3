---------------------------- MODULE DeviceProofs ----------------------------
(***************************************************************************)
(* Proofs about Device: the lock and timer discipline of the hierarchical  *)
(* state machine, for every device and any number of pending events.       *)
(*                                                                         *)
(* DeviceInv rests on Good(sm), which only speaks of the state machine.    *)
(* While a handler runs it does not hold: a StateEnter unlocks its level   *)
(* before the handler has started a timer, and a timeout stops the timer   *)
(* before the handler leaves the state.  So the lemmas about setState()    *)
(* and the timers start from Weak(s), which says nothing about waiting     *)
(* states, and establish Good again.  MembersInv, on top of DeviceInv, is  *)
(* about the members of the device and the poll queue.                     *)
(***************************************************************************)
EXTENDS Device, TLAPS

States0 == {"Init", "GetDeviceDescription", "Idle", "Dead", "Zgp"} \cup Interview

Polling == {"PollIdle", "PollNext", "PollBusy"}

Machines == [state : State, lock : Bool3, timer : Bool3, urgent : Seq(Level), skipped : BOOLEAN]

\* Which handlers run at which level, and who may have a timer.
Weak(s) ==
  /\ s \in Machines
  /\ s.state[0] \in States0 \cup {None}
  /\ s.state[1] \in {None, "Binding"}
  /\ s.state[2] \in Polling \cup {None}
  /\ \A l \in Level : s.lock[l] => Queued(s.urgent, l)
  /\ s.state[0] \in {"GetDeviceDescription", "Idle"} => ~s.timer[0]
  /\ ~s.timer[1]
  /\ s.timer[2] => s.state[2] \in {"PollNext", "PollBusy"}
  /\ s.state[0] # "Idle" => s.state[1] = None /\ s.state[2] = None

\* Entered states that wait have their timer, Idle has its sub states.
Good0(s) ==
  /\ s.state[0] \in Interview /\ ~s.lock[0] => s.timer[0]
  /\ s.state[0] = "Idle" /\ ~s.lock[0] => s.state[1] = "Binding" /\ s.state[2] # None

Good2(s) ==
  s.state[2] \in {"PollNext", "PollBusy"} /\ ~s.lock[2] => s.timer[2]

Good(s) == Weak(s) /\ Good0(s) /\ Good2(s)

\* A level that was pending stays pending when another is appended, and the
\* appended one is pending (enqueueEvent() of the urgent queue).
LEMMA AppendQueued ==
  ASSUME NEW u \in Seq(Level), NEW l \in Level
  PROVE  /\ Append(u, l) \in Seq(Level)
         /\ Queued(Append(u, l), l)
         /\ \A k \in Level : Queued(u, k) => Queued(Append(u, l), k)
BY DEF Queued, Level

\* Notifying the first StateEnter removes none of another level.
LEMMA TailQueued ==
  ASSUME NEW u \in Seq(Level), u # <<>>, NEW k \in Level, k # Head(u), Queued(u, k)
  PROVE  Tail(u) \in Seq(Level) /\ Queued(Tail(u), k)
<1>1. PICK i \in 1 .. Len(u) : u[i] = k
  BY DEF Queued
<1>2. i # 1
  BY <1>1
<1>3. i - 1 \in 1 .. Len(Tail(u)) /\ Tail(u)[i - 1] = u[i]
  BY <1>2
<1>4. Tail(u) \in Seq(Level)
  OBVIOUS
<1> QED
  BY <1>1, <1>3, <1>4 DEF Queued

\* Leaving a state at level 0 ends the sub states of Idle and the timer of an
\* interview state.
LEMMA LeaveLevel0 ==
  ASSUME NEW s, Weak(s)
  PROVE  /\ leave(s, 0) \in Machines
         /\ leave(s, 0).state[0] = s.state[0]
         /\ leave(s, 0).state[1] = None
         /\ leave(s, 0).state[2] = None
         /\ leave(s, 0).urgent = s.urgent
         /\ leave(s, 0).skipped = s.skipped
         /\ \A l \in Level : leave(s, 0).lock[l] => s.lock[l]
         /\ \A l \in {1, 2} : ~leave(s, 0).timer[l]
         /\ s.state[0] \in Interview => ~leave(s, 0).timer[0]
         /\ s.state[0] \notin Interview => (leave(s, 0).timer[0] => s.timer[0])
<1> USE DEF Weak, Machines, Level, Bool3, State, None, States0, Polling
<1>1. CASE s.state[0] = "Idle"
  <2>1. leave(s, 0) = [s EXCEPT !.state = [i \in Level |-> IF i = 0 THEN @[0] ELSE None],
                                !.lock  = [i \in Level |-> IF i = 0 THEN @[0] ELSE FALSE],
                                !.timer = [i \in Level |-> IF i = 0 THEN @[0] ELSE FALSE]]
    BY <1>1 DEF leave
  <2>2. /\ leave(s, 0).state = [i \in Level |-> IF i = 0 THEN s.state[0] ELSE None]
        /\ leave(s, 0).lock = [i \in Level |-> IF i = 0 THEN s.lock[0] ELSE FALSE]
        /\ leave(s, 0).timer = [i \in Level |-> IF i = 0 THEN s.timer[0] ELSE FALSE]
        /\ leave(s, 0).urgent = s.urgent
        /\ leave(s, 0).skipped = s.skipped
    BY <2>1
  <2>3. /\ [i \in Level |-> IF i = 0 THEN s.state[0] ELSE None] \in State
        /\ [i \in Level |-> IF i = 0 THEN s.lock[0] ELSE FALSE] \in Bool3
        /\ [i \in Level |-> IF i = 0 THEN s.timer[0] ELSE FALSE] \in Bool3
    OBVIOUS
  <2>4. leave(s, 0) \in Machines
    BY <2>1, <2>3
  <2>5. \A l \in Level : leave(s, 0).lock[l] => s.lock[l]
    BY <2>2
  <2>6. \A l \in {1, 2} : ~leave(s, 0).timer[l]
    <3>1. 1 \in Level /\ 2 \in Level /\ 1 # 0 /\ 2 # 0
      OBVIOUS
    <3> HIDE DEF Weak, Machines, Level, Bool3, State, None, States0, Polling
    <3>2. ~leave(s, 0).timer[1]
      BY <2>2, <3>1, Zenon
    <3>3. ~leave(s, 0).timer[2]
      BY <2>2, <3>1, Zenon
    <3> QED
      BY <3>2, <3>3, Zenon
  <2>7. (leave(s, 0).timer[0] => s.timer[0])
    BY <2>2
  <2>8. leave(s, 0).state[0] = s.state[0] /\ leave(s, 0).state[1] = None /\ leave(s, 0).state[2] = None
    BY <2>2
  <2>9. s.state[0] \notin Interview
    BY <1>1 DEF Interview
  <2> HIDE DEF Weak, Machines, Level, Bool3, State, None, States0, Polling
  <2> QED
    BY <2>2, <2>4, <2>5, <2>6, <2>7, <2>8, <2>9
<1>2. CASE s.state[0] # "Idle" /\ s.state[0] \in StopsTimer
  BY <1>2 DEF leave, StopsTimer, Interview, stopStateTimer
<1>3. CASE s.state[0] # "Idle" /\ s.state[0] \notin StopsTimer
  BY <1>3 DEF leave, StopsTimer, Interview, stopStateTimer
<1> QED
  BY <1>1, <1>2, <1>3

\* setState() at level 0, to another state.
LEMMA SetStateLevel0 ==
  ASSUME NEW s, Weak(s), NEW new \in States0, s.state[0] # new,
         new \in {"GetDeviceDescription", "Idle"} => s.state[0] \in Interview \/ ~s.timer[0]
  PROVE  /\ Good(setState(s, 0, new))
         /\ setState(s, 0, new).state[0] = new
         /\ setState(s, 0, new).lock[0]
         /\ setState(s, 0, new).skipped = s.skipped
<1> DEFINE left == leave(s, 0)
           t == [left EXCEPT !.state[0] = new, !.lock[0] = TRUE, !.urgent = Append(@, 0)]
<1>1. setState(s, 0, new) = t
  BY DEF setState
<1>2. /\ left \in Machines
      /\ left.state[0] = s.state[0]
      /\ left.state[1] = None
      /\ left.state[2] = None
      /\ left.urgent = s.urgent
      /\ left.skipped = s.skipped
      /\ \A l \in Level : left.lock[l] => s.lock[l]
      /\ \A l \in {1, 2} : ~left.timer[l]
      /\ s.state[0] \in Interview => ~left.timer[0]
      /\ s.state[0] \notin Interview => (left.timer[0] => s.timer[0])
  BY LeaveLevel0
<1> HIDE DEF left
<1>3. s.urgent \in Seq(Level) /\ 0 \in Level
  BY DEF Weak, Machines, Level
<1>4. /\ Append(s.urgent, 0) \in Seq(Level)
      /\ Queued(Append(s.urgent, 0), 0)
      /\ \A k \in Level : Queued(s.urgent, k) => Queued(Append(s.urgent, 0), k)
  BY <1>3, AppendQueued
<1>5. /\ t.urgent = Append(s.urgent, 0)
      /\ t.state[0] = new /\ t.state[1] = None /\ t.state[2] = None
      /\ t.lock[0]
      /\ \A l \in Level \ {0} : t.lock[l] = left.lock[l]
      /\ t.timer = left.timer
      /\ t.skipped = s.skipped
  BY <1>2 DEF Machines, Level, Bool3, State, None
<1>6. t \in Machines
  BY <1>2, <1>4 DEF Machines, Level, Bool3, State, States0, None
<1>7. \A l \in Level : t.lock[l] => Queued(t.urgent, l)
  <2> TAKE l \in Level
  <2>1. CASE l = 0
    BY <2>1, <1>4, <1>5
  <2>2. CASE l # 0
    BY <2>2, <1>2, <1>4, <1>5 DEF Weak
  <2> QED
    BY <2>1, <2>2
<1>8. ~t.timer[1] /\ ~t.timer[2]
  BY <1>2, <1>5
<1>9. new \in {"GetDeviceDescription", "Idle"} => ~t.timer[0]
  BY <1>2, <1>5
<1> QED
  BY <1>1, <1>5, <1>6, <1>7, <1>8, <1>9 DEF Good, Weak, Good0, Good2, None

\* setState() of a polling state, in Idle.
LEMMA SetStateLevel2 ==
  ASSUME NEW s, Weak(s), ~s.lock[0] => s.state[1] = "Binding", s.state[0] = "Idle",
         NEW new \in Polling, s.state[2] # new
  PROVE  /\ Good(setState(s, 2, new))
         /\ setState(s, 2, new).state[0] = "Idle"
         /\ setState(s, 2, new).skipped = s.skipped
<1> DEFINE left == leave(s, 2)
           t == [left EXCEPT !.state[2] = new, !.lock[2] = TRUE, !.urgent = Append(@, 2)]
<1>1. setState(s, 2, new) = t
  BY DEF setState
<1>2. /\ left \in Machines
      /\ left.state = s.state
      /\ left.lock = s.lock
      /\ left.urgent = s.urgent
      /\ left.skipped = s.skipped
      /\ \A l \in Level : left.timer[l] => s.timer[l]
      /\ ~left.timer[2]
  <2> USE DEF Weak, Machines, Level, Bool3, State, None, States0, Polling
  <2>1. CASE s.state[2] \in StopsTimer
    <3>1. left = [s EXCEPT !.timer[2] = FALSE]
      BY <2>1 DEF leave, StopsTimer, Interview, stopStateTimer
    <3>2. left.timer = [s.timer EXCEPT ![2] = FALSE] /\ s.timer \in [Level -> BOOLEAN]
      BY <3>1
    <3>3. 2 \in Level
      OBVIOUS
    <3>7. s \in Machines
      OBVIOUS
    <3> HIDE DEF Weak, Machines, Level, Bool3, State, None, States0, Polling, left
    <3>4. /\ left \in Machines
          /\ left.state = s.state
          /\ left.lock = s.lock
          /\ left.urgent = s.urgent
          /\ left.skipped = s.skipped
      BY <3>1, <3>7 DEF Machines, Bool3
    <3>5. \A l \in Level : left.timer[l] => s.timer[l]
      BY <3>2
    <3>6. ~left.timer[2]
      BY <3>2, <3>3
    <3> QED
      BY <3>4, <3>5, <3>6
  <2>2. CASE s.state[2] \notin StopsTimer
    BY <2>2 DEF leave, StopsTimer, Interview
  <2> QED
    BY <2>1, <2>2
<1> HIDE DEF left
<1>3. s.urgent \in Seq(Level) /\ 2 \in Level
  BY DEF Weak, Machines, Level
<1>4. /\ Append(s.urgent, 2) \in Seq(Level)
      /\ Queued(Append(s.urgent, 2), 2)
      /\ \A k \in Level : Queued(s.urgent, k) => Queued(Append(s.urgent, 2), k)
  BY <1>3, AppendQueued
<1>5. /\ t.urgent = Append(s.urgent, 2)
      /\ t.state[0] = "Idle" /\ t.state[1] = s.state[1] /\ t.state[2] = new
      /\ t.lock[2]
      /\ \A l \in Level \ {2} : t.lock[l] <=> s.lock[l]
      /\ t.timer = left.timer
      /\ t.skipped = s.skipped
  BY <1>2 DEF Machines, Level, Bool3, State, None
<1>6. t \in Machines
  BY <1>2, <1>4 DEF Machines, Level, Bool3, State, States0, None, Polling
<1>7. \A l \in Level : t.lock[l] => Queued(t.urgent, l)
  <2> TAKE l \in Level
  <2>1. CASE l = 2
    BY <2>1, <1>4, <1>5
  <2>2. CASE l # 2
    BY <2>2, <1>2, <1>4, <1>5 DEF Weak
  <2> QED
    BY <2>1, <2>2
<1>8. ~t.timer[0] /\ ~t.timer[1] /\ ~t.timer[2]
  BY <1>2, <1>5 DEF Weak, Level
<1>9. t.state[1] = s.state[1] /\ (~t.lock[0] => t.state[1] = "Binding") /\ new # None
  BY <1>5 DEF Level, Polling, None
<1> QED
  BY <1>1, <1>5, <1>6, <1>7, <1>8, <1>9 DEF Good, Weak, Good0, Good2, None, Interview, States0

\* Starting the timer of an interview state, or of Init for a reload.
LEMMA StartTimerLevel0 ==
  ASSUME NEW s, Weak(s), Good2(s), s.state[0] \in Interview \cup {"Init"}
  PROVE  /\ Good(startStateTimer(s, 0))
         /\ startStateTimer(s, 0).state = s.state
         /\ startStateTimer(s, 0).skipped = s.skipped
<1> DEFINE t == [s EXCEPT !.timer[0] = TRUE]
<1>1. startStateTimer(s, 0) = t
  BY DEF startStateTimer
<1>2. /\ t \in Machines
      /\ t.state = s.state /\ t.lock = s.lock /\ t.urgent = s.urgent /\ t.skipped = s.skipped
  BY DEF Weak, Machines, Level, Bool3
<1>5. t.timer[0] = TRUE
  BY DEF Weak, Machines, Level, Bool3
<1>3. t.timer[1] = s.timer[1]
  BY DEF Weak, Machines, Level, Bool3
<1>4. t.timer[2] = s.timer[2]
  BY DEF Weak, Machines, Level, Bool3
<1> HIDE DEF t
<1> QED
  BY <1>1, <1>2, <1>3, <1>4, <1>5 DEF Good, Weak, Good0, Good2, Interview, None, Level

\* Starting the timer of a polling state.
LEMMA StartTimerLevel2 ==
  ASSUME NEW s, Weak(s), Good0(s), s.state[2] \in {"PollNext", "PollBusy"}
  PROVE  /\ Good(startStateTimer(s, 2))
         /\ startStateTimer(s, 2).state = s.state
         /\ startStateTimer(s, 2).skipped = s.skipped
<1> DEFINE t == [s EXCEPT !.timer[2] = TRUE]
<1>1. startStateTimer(s, 2) = t
  BY DEF startStateTimer
<1>2. /\ t \in Machines
      /\ t.state = s.state /\ t.lock = s.lock /\ t.urgent = s.urgent /\ t.skipped = s.skipped
      /\ t.timer[2]
      /\ \A l \in {0, 1} : t.timer[l] <=> s.timer[l]
  BY DEF Weak, Machines, Level, Bool3
<1> HIDE DEF t
<1> QED
  BY <1>1, <1>2 DEF Good, Weak, Good0, Good2, Interview, None, Level

\* Stopping a timer.
LEMMA StopTimer ==
  ASSUME NEW s, Weak(s), NEW l \in Level
  PROVE  /\ Weak(stopStateTimer(s, l))
         /\ stopStateTimer(s, l).state = s.state
         /\ stopStateTimer(s, l).lock = s.lock
         /\ stopStateTimer(s, l).urgent = s.urgent
         /\ stopStateTimer(s, l).skipped = s.skipped
         /\ \A k \in Level \ {l} : stopStateTimer(s, l).timer[k] <=> s.timer[k]
<1> DEFINE t == [s EXCEPT !.timer[l] = FALSE]
<1>1. stopStateTimer(s, l) = t
  BY DEF stopStateTimer
<1>2. /\ t \in Machines
      /\ t.state = s.state /\ t.lock = s.lock /\ t.urgent = s.urgent /\ t.skipped = s.skipped
      /\ ~t.timer[l]
      /\ \A k \in Level \ {l} : t.timer[k] <=> s.timer[k]
  BY DEF Weak, Machines, Level, Bool3
<1>3. \A k \in Level : t.timer[k] => s.timer[k]
  BY <1>2
<1> HIDE DEF t
<1> QED
  BY <1>1, <1>2, <1>3 DEF Weak, Level

\* What a handler for StateEnter is called with.
unlocked(s, l) == [s EXCEPT !.urgent = Tail(@), !.lock[l] = FALSE]

\* Notifying a StateEnter takes it from the urgent queue and unlocks its level.
LEMMA Unlocked ==
  ASSUME NEW s, Good(s), s.urgent # <<>>, NEW l \in Level, Head(s.urgent) = l,
         NEW t, t = unlocked(s, l)
  PROVE  /\ Weak(t)
         /\ t.state = s.state /\ t.timer = s.timer /\ t.skipped = s.skipped
         /\ ~t.lock[l]
         /\ \A k \in Level \ {l} : t.lock[k] <=> s.lock[k]
         /\ l # 0 => Good0(t)
         /\ l # 2 => Good2(t)
<1>1. s \in Machines /\ s.urgent \in Seq(Level)
  BY DEF Good, Weak, Machines
<1>2. Tail(s.urgent) \in Seq(Level)
  BY <1>1
<1>3. t \in Machines
  BY <1>1, <1>2 DEF Machines, Bool3, Level, unlocked
<1>4. t.state = s.state /\ t.timer = s.timer /\ t.skipped = s.skipped /\ t.urgent = Tail(s.urgent)
  BY <1>1 DEF Machines, unlocked
<1>5. t.lock = [s.lock EXCEPT ![l] = FALSE] /\ s.lock \in [Level -> BOOLEAN]
  BY <1>1 DEF Machines, Bool3, unlocked
<1>6. ~t.lock[l]
  BY <1>5
<1>7. \A k \in Level \ {l} : t.lock[k] <=> s.lock[k]
  BY <1>5
<1>8. \A k \in Level : t.lock[k] => Queued(t.urgent, k)
  <2> TAKE k \in Level
  <2>1. CASE k = l
    BY <2>1, <1>6
  <2>2. CASE k # l
    <3>1. t.lock[k] => Queued(s.urgent, k)
      BY <2>2, <1>7 DEF Good, Weak
    <3> QED
      BY <3>1, <2>2, <1>1, <1>4, TailQueued
  <2> QED
    BY <2>1, <2>2
<1>9. Weak(t)
  BY <1>3, <1>4, <1>8 DEF Good, Weak
<1>10. l # 0 => Good0(t)
  BY <1>4, <1>7 DEF Good, Good0, Level
<1>11. l # 2 => Good2(t)
  BY <1>4, <1>7 DEF Good, Good2, Level
<1> QED
  BY <1>4, <1>6, <1>7, <1>9, <1>10, <1>11

\* Remembering a dropped event changes nothing else, and without a lock nothing.
LEMMA NoteSkipped ==
  ASSUME NEW s, Weak(s), NEW levels \in SUBSET Level
  PROVE  /\ Weak(noteSkipped(s, levels))
         /\ Good0(s) => Good0(noteSkipped(s, levels))
         /\ Good2(s) => Good2(noteSkipped(s, levels))
         /\ noteSkipped(s, levels).state = s.state
         /\ noteSkipped(s, levels).lock = s.lock
         /\ ~s.skipped /\ (\A l \in levels : ~s.lock[l]) => ~noteSkipped(s, levels).skipped
<1> DEFINE t == noteSkipped(s, levels)
<1>1. s \in Machines /\ s.skipped \in BOOLEAN
  BY DEF Weak, Machines
<1>2. t = [s EXCEPT !.skipped = s.skipped \/ \E l \in levels : s.lock[l]]
  BY DEF noteSkipped
<1>3. t \in Machines
  BY <1>1, <1>2 DEF Machines
<1>4. t.state = s.state /\ t.lock = s.lock /\ t.timer = s.timer /\ t.urgent = s.urgent
  BY <1>1, <1>2 DEF Machines
<1>5. ~s.skipped /\ (\A l \in levels : ~s.lock[l]) => ~t.skipped
  BY <1>1, <1>2 DEF Machines
<1> HIDE DEF t
<1>6. Weak(t)
  BY <1>3, <1>4 DEF Weak
<1>7. (Good0(s) => Good0(t)) /\ (Good2(s) => Good2(t))
  BY <1>4 DEF Good0, Good2
<1> QED
  BY <1>4, <1>5, <1>6, <1>7 DEF t

\* The polling handlers keep the discipline.  StateEnter and a timeout may find
\* the level without a timer, other events do not.
LEMMA PollHandlerKeeps ==
  ASSUME NEW e, NEW s, NEW d, NEW q, Weak(s), Good0(s),
         e \notin {"enter", "timeout"} => Good2(s),
         PollHandler(e, s, d, q)
  PROVE  Good(sm') /\ sm'.skipped = s.skipped /\ sm'.state[0] = s.state[0]
<1>1. CASE s.state[2] = None
  <2>1. sm' = s
    BY <1>1 DEF PollHandler, Becomes, None
  <2> QED
    BY <2>1, <1>1 DEF Good, Good2, None
<1>2. ASSUME s.state[2] # None
      PROVE  s.state[0] = "Idle" /\ (~s.lock[0] => s.state[1] = "Binding")
  BY <1>2 DEF Weak, Good0
<1>3. CASE s.state[2] = "PollIdle"
  <2>1. DEV_PollIdleStateHandler(e, s, d, q) /\ s.state[2] # None
    BY <1>3 DEF PollHandler, None
  <2>2. sm' = s \/ sm' = setState(s, 2, "PollNext")
    BY <2>1 DEF DEV_PollIdleStateHandler, Becomes
  <2>3. Good(s)
    BY <1>3 DEF Good, Good2
  <2>4. /\ Good(setState(s, 2, "PollNext")) /\ setState(s, 2, "PollNext").skipped = s.skipped
        /\ setState(s, 2, "PollNext").state[0] = s.state[0]
    BY <1>2, <1>3, <2>1, SetStateLevel2 DEF Polling
  <2> QED
    BY <2>2, <2>3, <2>4
<1>4. CASE s.state[2] = "PollNext"
  <2>1. DEV_PollNextStateHandler(e, s, d, q) /\ s.state[2] # None
    BY <1>4 DEF PollHandler, None
  <2>2. \/ sm' = setState(s, 2, "PollIdle")
        \/ sm' = startStateTimer(s, 2)
        \/ sm' = setState(s, 2, "PollBusy")
        \/ e \notin {"enter", "timeout"} /\ sm' = s
    BY <2>1 DEF DEV_PollNextStateHandler, Becomes
  <2>3. \A new \in {"PollIdle", "PollBusy"} :
          /\ Good(setState(s, 2, new)) /\ setState(s, 2, new).skipped = s.skipped
          /\ setState(s, 2, new).state[0] = s.state[0]
    BY <1>2, <1>4, <2>1, SetStateLevel2 DEF Polling
  <2>4. /\ Good(startStateTimer(s, 2)) /\ startStateTimer(s, 2).skipped = s.skipped
        /\ startStateTimer(s, 2).state = s.state
    BY <1>4, StartTimerLevel2
  <2> QED
    BY <2>2, <2>3, <2>4 DEF Good
<1>5. CASE s.state[2] = "PollBusy"
  <2>1. DEV_PollBusyStateHandler(e, s, d, q) /\ s.state[2] # None
    BY <1>5 DEF PollHandler, None
  <2>2. \/ sm' = startStateTimer(s, 2)
        \/ sm' = startStateTimer(stopStateTimer(s, 0), 2)
        \/ sm' = setState(s, 2, "PollNext")
        \/ e \notin {"enter", "timeout"} /\ sm' = s
    BY <2>1 DEF DEV_PollBusyStateHandler, Becomes
  <2>3. /\ Good(setState(s, 2, "PollNext")) /\ setState(s, 2, "PollNext").skipped = s.skipped
        /\ setState(s, 2, "PollNext").state[0] = s.state[0]
    BY <1>2, <1>5, <2>1, SetStateLevel2 DEF Polling
  <2>4. /\ Good(startStateTimer(s, 2)) /\ startStateTimer(s, 2).skipped = s.skipped
        /\ startStateTimer(s, 2).state = s.state
    BY <1>5, StartTimerLevel2
  <2>5. /\ Good(startStateTimer(stopStateTimer(s, 0), 2))
        /\ startStateTimer(stopStateTimer(s, 0), 2).skipped = s.skipped
        /\ startStateTimer(stopStateTimer(s, 0), 2).state = s.state
    <3> DEFINE t == stopStateTimer(s, 0)
    <3>1. Weak(t) /\ t.state = s.state /\ t.lock = s.lock /\ t.skipped = s.skipped
      BY StopTimer DEF Level
    <3>2. Good0(t)
      BY <3>1, <1>2, <2>1 DEF Good0, Interview, None
    <3> HIDE DEF t
    <3>3. /\ Good(startStateTimer(t, 2)) /\ startStateTimer(t, 2).skipped = t.skipped
          /\ startStateTimer(t, 2).state = t.state
      BY <3>1, <3>2, <1>5, StartTimerLevel2
    <3> QED
      BY <3>1, <3>3 DEF t
  <2> QED
    BY <2>2, <2>3, <2>4, <2>5 DEF Good
<1> QED
  BY <1>1, <1>3, <1>4, <1>5 DEF Weak, Polling

\* The binding sub state starts with Idle.
LEMMA SetStateLevel1 ==
  ASSUME NEW s, Weak(s), Good2(s), s.state[0] = "Idle"
  PROVE  LET t == setState(s, 1, "Binding")
         IN /\ Weak(t) /\ Good2(t)
            /\ t.state[0] = "Idle" /\ t.state[1] = "Binding" /\ t.state[2] = s.state[2]
            /\ t.skipped = s.skipped
<1>1. CASE s.state[1] = "Binding"
  BY <1>1 DEF setState
<1>2. CASE s.state[1] # "Binding"
  <2> DEFINE t == [s EXCEPT !.state[1] = "Binding", !.lock[1] = TRUE, !.urgent = Append(@, 1)]
  <2>1. leave(s, 1) = s
    BY DEF leave, Weak, StopsTimer, Interview, None
  <2>2. setState(s, 1, "Binding") = t
    BY <1>2, <2>1 DEF setState
  <2>3. s.urgent \in Seq(Level) /\ 1 \in Level /\ s \in Machines
    BY DEF Weak, Machines, Level
  <2>4. /\ Append(s.urgent, 1) \in Seq(Level)
        /\ Queued(Append(s.urgent, 1), 1)
        /\ \A k \in Level : Queued(s.urgent, k) => Queued(Append(s.urgent, 1), k)
    BY <2>3, AppendQueued
  <2>5. t \in Machines
    BY <2>3, <2>4 DEF Machines, Bool3, State, Level
  <2>6. /\ t.urgent = Append(s.urgent, 1)
        /\ t.timer = s.timer
        /\ t.skipped = s.skipped
    BY <2>3 DEF Machines
  <2>7. t.state = [s.state EXCEPT ![1] = "Binding"] /\ t.lock = [s.lock EXCEPT ![1] = TRUE]
    BY <2>3 DEF Machines
  <2>8. s.state \in State /\ s.lock \in [Level -> BOOLEAN]
    BY <2>3 DEF Machines, Bool3
  <2> HIDE DEF t
  <2>9. t.state[0] = s.state[0] /\ t.state[1] = "Binding" /\ t.state[2] = s.state[2]
    BY <2>7, <2>8 DEF State
  <2>10. \A l \in Level \ {1} : t.lock[l] <=> s.lock[l]
    BY <2>7, <2>8
  <2>11. \A l \in Level : t.lock[l] => Queued(t.urgent, l)
    <3> TAKE l \in Level
    <3>1. CASE l = 1
      BY <3>1, <2>4, <2>6
    <3>2. CASE l # 1
      BY <3>2, <2>4, <2>6, <2>10 DEF Weak
    <3> QED
      BY <3>1, <3>2
  <2>12. Weak(t)
    BY <2>5, <2>6, <2>9, <2>11 DEF Weak
  <2>13. Good2(t)
    BY <2>6, <2>9, <2>10 DEF Good2, Level
  <2> QED
    BY <2>2, <2>6, <2>9, <2>12, <2>13
<1> QED
  BY <1>1, <1>2

\* An interview state waits with its timer, or goes back to Init.
LEMMA InterviewKeeps ==
  ASSUME NEW s, Weak(s), Good2(s), s.state[0] \in Interview, NEW e, NEW d, NEW q, NEW d1,
         NEW slot \in {"zdp", "read"}, NEW answer,
         e \notin {"enter", "timeout"} => Good0(s),
         Ask(slot, s, d, q) \/ Await(slot, answer, e, s, d, q, d1)
  PROVE  Good(sm') /\ sm'.skipped = s.skipped /\ sm'.state[0] # "GetDeviceDescription"
<1>1. \/ sm' = setState(s, 0, "Init")
      \/ sm' = startStateTimer(s, 0)
      \/ e \notin {"enter", "timeout"} /\ sm' = s
  BY DEF Ask, Await, Becomes
<1>2. /\ Good(setState(s, 0, "Init")) /\ setState(s, 0, "Init").skipped = s.skipped
      /\ setState(s, 0, "Init").state[0] = "Init"
  BY SetStateLevel0 DEF States0, Interview
<1>3. /\ Good(startStateTimer(s, 0)) /\ startStateTimer(s, 0).skipped = s.skipped
      /\ startStateTimer(s, 0).state = s.state
  BY StartTimerLevel0
<1> QED
  BY <1>1, <1>2, <1>3 DEF Good, Interview

\* The handlers of level 0 keep the discipline.  StateEnter and a timeout may find
\* the level without a timer; a timeout never comes in Idle, where the timer of
\* level 0 is off.
LEMMA HandlerKeeps ==
  ASSUME NEW e, NEW s, NEW d, NEW q, Weak(s), Good2(s),
         e \notin {"enter", "timeout"} => Good0(s),
         e = "timeout" => s.state[0] # "Idle",
         Handler(e, s, d, q)
  PROVE  /\ Good(sm')
         /\ ~s.skipped /\ (e = "enter" \/ s.state[0] # "Idle" \/ (~s.lock[1] /\ ~s.lock[2]))
              => ~sm'.skipped
         /\ sm'.state[0] = "GetDeviceDescription" /\ ~sm'.lock[0] =>
              /\ s.state[0] = "GetDeviceDescription"
              /\ \/ e = "enter" /\ queue' = enqueue(q, "ddfRequest")
                 \/ e \notin {"enter", "ddfMatches", "ddfMissing"} /\ queue' = q
<1>1. CASE s.state[0] \in {"Zgp", None}
  <2>1. sm' = s
    BY <1>1 DEF Handler, Becomes, None
  <2> QED
    BY <2>1, <1>1 DEF Good, Good0, Interview, None
<1>2. CASE s.state[0] = "Dead"
  <2>1. sm' = s \/ sm' = setState(s, 0, "Init")
    BY <1>2 DEF Handler, DEV_DeadStateHandler, Becomes, None
  <2>2. /\ Good(setState(s, 0, "Init")) /\ setState(s, 0, "Init").skipped = s.skipped
        /\ setState(s, 0, "Init").state[0] = "Init"
    BY <1>2, SetStateLevel0 DEF States0
  <2>3. Good(s)
    BY <1>2 DEF Good, Good0, Interview
  <2> QED
    BY <1>2, <2>1, <2>2, <2>3
<1>3. CASE s.state[0] = "Init"
  <2>1. DEV_InitStateHandler(e, s, d, q)
    BY <1>3 DEF Handler, None
  <2>2. \/ sm' = s
        \/ \E new \in {"Dead", "NodeDescriptor", "Zgp"} : sm' = setState(s, 0, new)
    BY <2>1 DEF DEV_InitStateHandler, Becomes
  <2>3. \A new \in {"Dead", "NodeDescriptor", "Zgp"} :
          /\ Good(setState(s, 0, new)) /\ setState(s, 0, new).skipped = s.skipped
          /\ setState(s, 0, new).lock[0]
    BY <1>3, SetStateLevel0 DEF States0, Interview
  <2>4. Good(s)
    BY <1>3 DEF Good, Good0, Interview
  <2> QED
    BY <1>3, <2>2, <2>3, <2>4
<1>4. CASE s.state[0] = "GetDeviceDescription"
  <2>1. DEV_GetDeviceDescriptionHandler(e, s, d, q)
    BY <1>4 DEF Handler, None
  <2>2. \/ /\ sm' = s
           /\ \/ e = "enter" /\ queue' = enqueue(q, "ddfRequest")
              \/ e \notin {"enter", "ddfMatches", "ddfMissing"} /\ queue' = q
        \/ \E new \in {"Idle", "Dead"} : sm' = setState(s, 0, new)
    BY <2>1 DEF DEV_GetDeviceDescriptionHandler, Becomes
  <2>3. ~s.timer[0]
    BY <1>4 DEF Weak
  <2>4. \A new \in {"Idle", "Dead"} :
          /\ Good(setState(s, 0, new)) /\ setState(s, 0, new).skipped = s.skipped
          /\ setState(s, 0, new).lock[0]
    BY <1>4, <2>3, SetStateLevel0 DEF States0, Interview
  <2>5. Good(s)
    BY <1>4 DEF Good, Good0, Interview
  <2> QED
    BY <2>2, <2>4, <2>5
<1>5. CASE s.state[0] \in Interview
  <2>1. \A new \in {"ActiveEndpoints", "SimpleDescriptor", "BasicCluster", "GetDeviceDescription"} :
          s.state[0] # new => /\ Good(setState(s, 0, new))
                              /\ setState(s, 0, new).skipped = s.skipped
                              /\ setState(s, 0, new).lock[0]
    BY <1>5, SetStateLevel0 DEF States0, Interview
  <2>2. CASE s.state[0] = "NodeDescriptor"
    <3>1. DEV_NodeDescriptorStateHandler(e, s, d, q)
      BY <2>2 DEF Handler, None
    <3>2. CASE sm' = setState(s, 0, "ActiveEndpoints")
      BY <3>2, <2>1, <2>2
    <3>3. CASE Ask("zdp", s, d, q) \/ Await("zdp", "nodeDescriptor", e, s, d, q, d)
      BY <3>3, <1>5, InterviewKeeps
    <3> QED
      BY <3>1, <3>2, <3>3 DEF DEV_NodeDescriptorStateHandler, Becomes
  <2>3. CASE s.state[0] = "ActiveEndpoints"
    <3>1. DEV_ActiveEndpointsStateHandler(e, s, d, q)
      BY <2>3 DEF Handler, None
    <3>2. CASE sm' = setState(s, 0, "SimpleDescriptor")
      BY <3>2, <2>1, <2>3
    <3> DEFINE d1 == [d EXCEPT !.needReadActiveEndpoints = FALSE]
    <3>3. CASE Ask("zdp", s, d, q) \/ Await("zdp", "activeEndpoints", e, s, d, q, d1)
      <4> HIDE DEF d1
      <4> QED
        BY <3>3, <1>5, InterviewKeeps
    <3> QED
      BY <3>1, <3>2, <3>3 DEF DEV_ActiveEndpointsStateHandler, Becomes
  <2>4. CASE s.state[0] = "SimpleDescriptor"
    <3>1. DEV_SimpleDescriptorStateHandler(e, s, d, q)
      BY <2>4 DEF Handler, None
    <3>2. CASE sm' = setState(s, 0, "BasicCluster")
      BY <3>2, <2>1, <2>4
    <3>3. CASE \E d1 : Ask("zdp", s, d, q) \/ Await("zdp", "simpleDescriptor", e, s, d, q, d1)
      <4>1. PICK d1 : Ask("zdp", s, d, q) \/ Await("zdp", "simpleDescriptor", e, s, d, q, d1)
        BY <3>3
      <4> QED
        BY <4>1, <1>5, InterviewKeeps
    <3>4. sm' = setState(s, 0, "BasicCluster")
            \/ \E d1 : Ask("zdp", s, d, q) \/ Await("zdp", "simpleDescriptor", e, s, d, q, d1)
      BY <3>1 DEF DEV_SimpleDescriptorStateHandler, Becomes
    <3> QED
      BY <3>2, <3>3, <3>4
  <2>5. CASE s.state[0] = "BasicCluster"
    <3>1. DEV_BasicClusterStateHandler(e, s, d, q)
      BY <2>5 DEF Handler, None
    <3>2. CASE sm' = setState(s, 0, "GetDeviceDescription")
      BY <3>2, <2>1, <2>5
    <3>3. CASE Ask("read", s, d, q) \/ Await("read", "basicAttribute", e, s, d, q, d)
      BY <3>3, <1>5, InterviewKeeps
    <3> QED
      BY <3>1, <3>2, <3>3 DEF DEV_BasicClusterStateHandler, Becomes
  <2> QED
    BY <1>5, <2>2, <2>3, <2>4, <2>5 DEF Interview
<1>6. CASE s.state[0] = "Idle"
  <2>1. DEV_IdleStateHandler(e, s, d, q)
    BY <1>6 DEF Handler, Interview, None
  <2>2. CASE e = "enter"
    <3> DEFINE t == setState(s, 1, "Binding")
    <3>1. sm' = setState(t, 2, "PollIdle")
      BY <2>1, <2>2 DEF DEV_IdleStateHandler, Becomes
    <3>2. /\ Weak(t) /\ Good2(t)
          /\ t.state[0] = "Idle" /\ t.state[1] = "Binding" /\ t.state[2] = s.state[2]
          /\ t.skipped = s.skipped
      BY <1>6, SetStateLevel1
    <3> HIDE DEF t
    <3>3. CASE t.state[2] = "PollIdle"
      <4>1. setState(t, 2, "PollIdle") = t
        BY <3>3 DEF setState
      <4> QED
        BY <4>1, <3>1, <3>2, <3>3 DEF Good, Good0, None, Interview
    <3>4. CASE t.state[2] # "PollIdle"
      BY <3>1, <3>2, <3>4, SetStateLevel2 DEF Polling
    <3> QED
      BY <3>3, <3>4
  <2>3. CASE e # "enter"
    <3> DEFINE t == noteSkipped(s, {1, 2})
    <3>1. {1, 2} \in SUBSET Level
      BY DEF Level
    <3>2. Good0(s)
      BY <1>6, <2>3
    <3>3. /\ Weak(t) /\ Good0(t) /\ Good2(t) /\ t.state = s.state /\ t.lock = s.lock
          /\ ~s.skipped /\ ~s.lock[1] /\ ~s.lock[2] => ~t.skipped
      BY <3>1, <3>2, NoteSkipped
    <3>4. sm' = t \/ PollHandler(e, t, countConfirm(d, e), q)
      BY <2>1, <2>3 DEF DEV_IdleStateHandler, Becomes
    <3> HIDE DEF t
    <3>5. CASE PollHandler(e, t, countConfirm(d, e), q)
      <4>1. Good(sm') /\ sm'.skipped = t.skipped /\ sm'.state[0] = t.state[0]
        BY <3>3, <3>5, PollHandlerKeeps
      <4> QED
        BY <4>1, <3>3, <1>6, <2>3
    <3> QED
      BY <3>3, <3>4, <3>5, <1>6, <2>3 DEF Good
  <2> QED
    BY <2>2, <2>3
<1> QED
  BY <1>1, <1>2, <1>3, <1>4, <1>5, <1>6 DEF Weak, States0

\* Device::handleEvent() keeps the discipline, and drops no event unless a level
\* is locked.
LEMMA HandleEventKeeps ==
  ASSUME NEW e, NEW s, NEW d, NEW q, Good(s), handleEvent(e, s, d, q),
         e \notin {"enter", "timeout"}
  PROVE  /\ Good(sm')
         /\ ~s.skipped /\ (\A l \in Level : ~s.lock[l]) => ~sm'.skipped
         /\ sm'.state[0] = "GetDeviceDescription" /\ ~sm'.lock[0] =>
              /\ s.state[0] = "GetDeviceDescription" /\ ~s.lock[0]
              /\ e \notin {"ddfMatches", "ddfMissing"}
              /\ queue' = q
<1>1. CASE s.lock[0]
  <2>1. sm' = noteSkipped(s, {0}) /\ {0} \in SUBSET Level
    BY <1>1 DEF handleEvent, Becomes, Level
  <2> QED
    BY <1>1, <2>1, NoteSkipped DEF Good, Level
<1>2. CASE ~s.lock[0] /\ e \in {"ddfReload", "zdpReload"}
  <2>1. PICK new \in {"Init", "ActiveEndpoints"} : sm' = startStateTimer(setState(s, 0, new), 0)
    BY <1>2 DEF handleEvent, Becomes
  <2> DEFINE t == setState(s, 0, new)
  <2>2. Good(t) /\ t.state[0] = new /\ t.skipped = s.skipped
    <3>1. CASE s.state[0] = new
      BY <3>1 DEF setState
    <3>2. CASE s.state[0] # new
      BY <3>2, SetStateLevel0 DEF Good, States0, Interview
    <3> QED
      BY <3>1, <3>2
  <2> HIDE DEF t
  <2>3. /\ Good(startStateTimer(t, 0)) /\ startStateTimer(t, 0).skipped = t.skipped
        /\ startStateTimer(t, 0).state = t.state
    BY <2>2, StartTimerLevel0 DEF Good, Interview
  <2> QED
    BY <2>1, <2>2, <2>3 DEF t
<1>3. CASE ~s.lock[0] /\ e \notin {"ddfReload", "zdpReload"}
  <2>1. \E d1 : Handler(e, s, d1, q)
    BY <1>3 DEF handleEvent
  <2> QED
    BY <1>3, <2>1, HandlerKeeps DEF Good, Level
<1> QED
  BY <1>1, <1>2, <1>3

\* The request for a description or its answer.
DdfEvents == {"ddfRequest", "ddfMatches", "ddfMissing"}

\* What a handler may do with the normal queue.
QueueStep(q, r) ==
  \/ r = q
  \/ \E e \in Event : r = enqueue(q, e)
  \/ \E slot \in {"zdp", "read"} : r = forget(q, slot)

\* enqueueEvent() keeps what is queued, and the event is queued afterwards.
LEMMA EnqueueKeeps ==
  ASSUME NEW q \in Seq(Event), NEW e \in Event
  PROVE  /\ enqueue(q, e) \in Seq(Event)
         /\ Queued(enqueue(q, e), e)
         /\ \A x : Queued(q, x) => Queued(enqueue(q, e), x)
<1>1. CASE enqueue(q, e) = q /\ Queued(q, e)
  BY <1>1
<1>2. CASE enqueue(q, e) = Append(q, e)
  <2> HIDE DEF Event
  <2>1. Append(q, e) \in Seq(Event) /\ Len(Append(q, e)) = Len(q) + 1
    OBVIOUS
  <2>2. Append(q, e)[Len(q) + 1] = e
    OBVIOUS
  <2>3. \A i \in 1 .. Len(q) : Append(q, e)[i] = q[i]
    OBVIOUS
  <2> QED
    BY <1>2, <2>1, <2>2, <2>3 DEF Queued
<1> QED
  BY <1>1, <1>2 DEF enqueue

\* Forgetting a request renames its confirms only.
LEMMA ForgetKeeps ==
  ASSUME NEW q \in Seq(Event), NEW slot \in {"zdp", "read"}
  PROVE  /\ forget(q, slot) \in Seq(Event)
         /\ \A x \in DdfEvents : Queued(q, x) => Queued(forget(q, slot), x)
<1>1. "otherOk" \in Event /\ "otherFail" \in Event
  BY DEF Event, Confirms
<1>2. \A i \in 1 .. Len(q) : q[i] \in Event
  OBVIOUS
<1>3. forget(q, slot) \in Seq(Event) /\ Len(forget(q, slot)) = Len(q)
  <2> HIDE DEF Event
  <2> QED
    BY <1>1, <1>2 DEF forget
<1>4. \A i \in 1 .. Len(q) : q[i] \in DdfEvents => forget(q, slot)[i] = q[i]
  BY DEF forget, DdfEvents, Ok, Fail
<1> QED
  BY <1>3, <1>4 DEF Queued

\* No step of a handler on the queue loses a request for a description.
LEMMA QueueStepKeeps ==
  ASSUME NEW q \in Seq(Event), NEW r, QueueStep(q, r)
  PROVE  /\ r \in Seq(Event)
         /\ \A x \in DdfEvents : Queued(q, x) => Queued(r, x)
BY EnqueueKeeps, ForgetKeeps DEF QueueStep

\* Handlers only add events and forget requests.
LEMMA PollHandlerQueue ==
  ASSUME NEW e, NEW s, NEW d, NEW q, PollHandler(e, s, d, q)
  PROVE  QueueStep(q, queue')
<1>1. "zdpReload" \in Event /\ "pollDone" \in Event
  BY DEF Event
<1>2. CASE DEV_PollIdleStateHandler(e, s, d, q)
  BY <1>1, <1>2 DEF DEV_PollIdleStateHandler, Becomes, QueueStep
<1>3. CASE DEV_PollNextStateHandler(e, s, d, q)
  BY <1>1, <1>3 DEF DEV_PollNextStateHandler, Becomes, QueueStep
<1>4. CASE DEV_PollBusyStateHandler(e, s, d, q)
  BY <1>4 DEF DEV_PollBusyStateHandler, Becomes, QueueStep
<1> QED
  BY <1>2, <1>3, <1>4 DEF PollHandler, Becomes, QueueStep

\* The same for all handlers of level 0.
LEMMA HandlerQueue ==
  ASSUME NEW e, NEW s, NEW d, NEW q, Handler(e, s, d, q)
  PROVE  QueueStep(q, queue')
<1>1. "awake" \in Event /\ "ddfRequest" \in Event
  BY DEF Event
<1>2. CASE DEV_InitStateHandler(e, s, d, q)
  BY <1>2 DEF DEV_InitStateHandler, Becomes, QueueStep
<1>3. \A slot \in {"zdp", "read"} : Ask(slot, s, d, q) => QueueStep(q, queue')
  BY DEF Ask, Becomes, QueueStep
<1>4. \A slot, answer, d1 : Await(slot, answer, e, s, d, q, d1) => QueueStep(q, queue')
  BY <1>1 DEF Await, Becomes, QueueStep
<1>5. CASE DEV_NodeDescriptorStateHandler(e, s, d, q)
  BY <1>3, <1>4, <1>5 DEF DEV_NodeDescriptorStateHandler, Becomes, QueueStep
<1>6. CASE DEV_ActiveEndpointsStateHandler(e, s, d, q)
  BY <1>3, <1>4, <1>6 DEF DEV_ActiveEndpointsStateHandler, Becomes, QueueStep
<1>7. CASE DEV_SimpleDescriptorStateHandler(e, s, d, q)
  BY <1>3, <1>4, <1>7 DEF DEV_SimpleDescriptorStateHandler, Becomes, QueueStep
<1>8. CASE DEV_BasicClusterStateHandler(e, s, d, q)
  BY <1>3, <1>4, <1>8 DEF DEV_BasicClusterStateHandler, Becomes, QueueStep
<1>9. CASE DEV_GetDeviceDescriptionHandler(e, s, d, q)
  BY <1>1, <1>9 DEF DEV_GetDeviceDescriptionHandler, Becomes, QueueStep
<1>10. CASE DEV_IdleStateHandler(e, s, d, q)
  <2>1. \A s1, d1 : PollHandler(e, s1, d1, q) => QueueStep(q, queue')
    BY PollHandlerQueue
  <2> QED
    BY <1>10, <2>1 DEF DEV_IdleStateHandler, Becomes, QueueStep
<1>11. CASE DEV_DeadStateHandler(e, s, d, q)
  BY <1>11 DEF DEV_DeadStateHandler, Becomes, QueueStep
<1> QED
  BY <1>2, <1>5, <1>6, <1>7, <1>8, <1>9, <1>10, <1>11 DEF Handler, Becomes, QueueStep

\* And for Device::handleEvent().
LEMMA HandleEventQueue ==
  ASSUME NEW e, NEW s, NEW d, NEW q, handleEvent(e, s, d, q)
  PROVE  QueueStep(q, queue')
<1>1. queue' = q \/ \E d1 : Handler(e, s, d1, q)
  BY DEF handleEvent, Becomes
<1> QED
  BY <1>1, HandlerQueue DEF QueueStep

-----------------------------------------------------------------------------
\* The inductive invariant.  Queued events are no StateEnter and no timeout,
\* which handlers treat differently; without the device widget, nothing has been
\* dropped.
DeviceInv ==
  /\ Good(sm)
  /\ queue \in Seq(Event)
  /\ DescriptionPending
  /\ ~WidgetReloads => EnterArrivesFirst

\* The invariant holds when the device is created.
LEMMA DeviceInit == Init => DeviceInv
<1> SUFFICES ASSUME Init PROVE DeviceInv
  OBVIOUS
<1>1. sm.state = [l \in Level |-> None] /\ sm.lock = [l \in Level |-> FALSE]
      /\ sm.timer = [l \in Level |-> FALSE] /\ sm.urgent = <<>> /\ sm.skipped = FALSE
  BY DEF Init
<1>2. 0 \in Level /\ 1 \in Level /\ 2 \in Level
  BY DEF Level
<1>3. sm.state[0] = None /\ sm.state[1] = None /\ sm.state[2] = None
  BY <1>1, <1>2
<1>4. \A l \in Level : ~sm.lock[l] /\ ~sm.timer[l]
  BY <1>1, Zenon
<1>5. sm \in Machines
  <2>1. [l \in Level |-> None] \in State /\ [l \in Level |-> FALSE] \in Bool3
    BY DEF State, Bool3, Level
  <2>2. <<>> \in Seq(Level)
    OBVIOUS
  <2> QED
    BY <2>1, <2>2 DEF Init, Machines
<1>6. Good(sm)
  BY <1>2, <1>3, <1>4, <1>5 DEF Good, Weak, Good0, Good2, None, Interview
<1>7. queue \in Seq(Event) /\ DescriptionPending /\ EnterArrivesFirst
  BY <1>1, <1>3 DEF Init, DescriptionPending, EnterArrivesFirst, None
<1> QED
  BY <1>6, <1>7 DEF DeviceInv

\* An event that arrives is queued behind the others.
LEMMA ArrivalKeeps ==
  ASSUME DeviceInv, sm' = sm, queue' \in Seq(Event),
         \A x \in DdfEvents : Queued(queue, x) => Queued(queue', x)
  PROVE  DeviceInv'
BY DEF DeviceInv, DescriptionPending, EnterArrivesFirst, DdfEvents

\* A StateEnter that is notified keeps the invariant: Idle and the waiting states
\* set up what they need, GetDeviceDescription asks for the description.
LEMMA StateEnterKeeps ==
  ASSUME DeviceInv, NEW l \in Level, StateEnter(l)
  PROVE  DeviceInv'
<1>1. PICK s : s = unlocked(sm, l)
  OBVIOUS
<1>2. /\ Weak(s)
      /\ s.state = sm.state /\ s.timer = sm.timer /\ s.skipped = sm.skipped
      /\ ~s.lock[l]
      /\ \A k \in Level \ {l} : s.lock[k] <=> sm.lock[k]
      /\ l # 0 => Good0(s)
      /\ l # 2 => Good2(s)
  <2>1. Good(sm) /\ sm.urgent # <<>> /\ Head(sm.urgent) = l
    BY DEF DeviceInv, StateEnter
  <2>2. \A s1, t1 : \A l1 \in Level :
          /\ Good(s1) /\ s1.urgent # <<>> /\ Head(s1.urgent) = l1
          /\ t1 = unlocked(s1, l1)
          => /\ Weak(t1)
             /\ t1.state = s1.state /\ t1.timer = s1.timer /\ t1.skipped = s1.skipped
             /\ ~t1.lock[l1]
             /\ \A k \in Level \ {l1} : t1.lock[k] <=> s1.lock[k]
             /\ l1 # 0 => Good0(t1)
             /\ l1 # 2 => Good2(t1)
    BY Unlocked, Zenon
  <2> QED
    BY <1>1, <2>1, <2>2
<1>3. \/ l = 0 /\ Handler("enter", s, dev, queue)
      \/ l = 1 /\ sm' = s /\ queue' = queue
      \/ l = 2 /\ PollHandler("enter", s, dev, queue)
  BY <1>1 DEF StateEnter, Becomes, unlocked
<1>4. CASE l = 0
  <2>1. /\ Good(sm')
        /\ ~s.skipped => ~sm'.skipped
        /\ sm'.state[0] = "GetDeviceDescription" /\ ~sm'.lock[0] =>
             queue' = enqueue(queue, "ddfRequest")
    <3>1. Handler("enter", s, dev, queue) /\ Weak(s) /\ Good2(s)
      BY <1>2, <1>3, <1>4
    <3>2. \A e, s1, d, q :
            /\ Weak(s1) /\ Good2(s1) /\ e = "enter" /\ Handler(e, s1, d, q)
            => /\ Good(sm')
               /\ ~s1.skipped => ~sm'.skipped
               /\ sm'.state[0] = "GetDeviceDescription" /\ ~sm'.lock[0] =>
                    queue' = enqueue(q, "ddfRequest")
      <4> TAKE e, s1, d, q
      <4> HAVE Weak(s1) /\ Good2(s1) /\ e = "enter" /\ Handler(e, s1, d, q)
      <4>1. e \in {"enter", "timeout"} /\ e # "timeout"
        OBVIOUS
      <4>2. Good(sm')
        BY <4>1, HandlerKeeps, Zenon
      <4>3. ~s1.skipped => ~sm'.skipped
        BY <4>1, HandlerKeeps
      <4>4. sm'.state[0] = "GetDeviceDescription" /\ ~sm'.lock[0] =>
              queue' = enqueue(q, "ddfRequest")
        BY <4>1, HandlerKeeps, Zenon
      <4> QED
        BY <4>2, <4>3, <4>4
    <3> QED
      BY <3>1, <3>2, Zenon
  <2>2. queue' \in Seq(Event)
    BY <1>3, <1>4, HandlerQueue, QueueStepKeeps DEF DeviceInv
  <2>3. Queued(enqueue(queue, "ddfRequest"), "ddfRequest")
    BY EnqueueKeeps DEF DeviceInv, Event
  <2> QED
    BY <1>2, <2>1, <2>2, <2>3 DEF DeviceInv, DescriptionPending, EnterArrivesFirst
<1>5. ASSUME sm' = s, queue' = queue, Good(s), l # 0
      PROVE  DeviceInv'
  <2>1. s.lock[0] <=> sm.lock[0]
    BY <1>2, <1>5 DEF Level
  <2>2. DescriptionPending'
    <3>1. ASSUME sm'.state[0] = "GetDeviceDescription", ~sm'.lock[0]
          PROVE  \E e \in {"ddfRequest", "ddfMatches", "ddfMissing"} : Queued(queue', e)
      <4>1. sm.state[0] = "GetDeviceDescription" /\ ~sm.lock[0]
        BY <1>2, <1>5, <2>1, <3>1
      <4> QED
        BY <1>5, <4>1 DEF DeviceInv, DescriptionPending
    <3> QED
      BY <3>1 DEF DescriptionPending
  <2>3. (~WidgetReloads => EnterArrivesFirst)'
    BY <1>2, <1>5 DEF DeviceInv, EnterArrivesFirst
  <2> QED
    BY <1>5, <2>2, <2>3 DEF DeviceInv
<1>6. CASE l = 1
  BY <1>2, <1>3, <1>5, <1>6 DEF Good
<1>7. CASE l = 2
  <2>1. CASE s.state[2] = None
    <3>1. sm' = s /\ queue' = queue
      BY <1>3, <1>7, <2>1 DEF PollHandler, Becomes, None
    <3>2. Good(s)
      BY <1>2, <1>7, <2>1 DEF Good, Good2, None
    <3> QED
      BY <1>5, <1>7, <3>1, <3>2
  <2>2. CASE s.state[2] # None
    <3>1. Good(sm') /\ sm'.skipped = s.skipped /\ sm'.state[0] = s.state[0]
      BY <1>2, <1>3, <1>7, PollHandlerKeeps
    <3>2. s.state[0] = "Idle"
      BY <1>2, <2>2 DEF Weak
    <3>3. queue' \in Seq(Event)
      BY <1>3, <1>7, PollHandlerQueue, QueueStepKeeps DEF DeviceInv
    <3> QED
      BY <1>2, <3>1, <3>2, <3>3 DEF DeviceInv, DescriptionPending, EnterArrivesFirst
  <2> QED
    BY <2>1, <2>2
<1> QED
  BY <1>4, <1>6, <1>7 DEF Level

\* The constructor's timer starts the interview.
LEMMA StartKeeps ==
  ASSUME DeviceInv, Start
  PROVE  DeviceInv'
<1>1. sm' = setState(sm, 0, "Init") /\ queue' = queue /\ Good(sm)
  BY DEF Start, DeviceInv
<1>2. CASE sm.state[0] = "Init"
  BY <1>1, <1>2, ArrivalKeeps DEF setState, DeviceInv
<1>3. CASE sm.state[0] # "Init"
  <2>1. /\ Good(setState(sm, 0, "Init")) /\ setState(sm, 0, "Init").skipped = sm.skipped
        /\ setState(sm, 0, "Init").state[0] = "Init"
    BY <1>1, <1>3, SetStateLevel0 DEF Good, States0
  <2> QED
    BY <1>1, <2>1 DEF DeviceInv, DescriptionPending, EnterArrivesFirst
<1> QED
  BY <1>2, <1>3

\* A timeout at level 0 never comes in Idle or GetDeviceDescription, one at
\* level 2 only in Idle.
LEMMA TimerKeeps ==
  ASSUME DeviceInv, NEW l \in Level, timerEvent(l)
  PROVE  DeviceInv'
<1>1. PICK s : s = stopStateTimer(sm, l)
  OBVIOUS
<1>2. Weak(sm) /\ Good0(sm) /\ Good2(sm)
  BY DEF DeviceInv, Good
<1>3. /\ Weak(s) /\ s.state = sm.state /\ s.lock = sm.lock /\ s.skipped = sm.skipped
      /\ \A k \in Level \ {l} : s.timer[k] <=> sm.timer[k]
  BY <1>1, <1>2, StopTimer
<1>4. \/ l = 0 /\ sm.timer[0] /\ Handler("timeout", s, dev, queue)
      \/ l = 2 /\ sm.timer[2] /\ PollHandler("timeout", s, dev, queue)
  BY <1>1 DEF timerEvent
<1>5. CASE l = 0
  <2>1. sm.state[0] \notin {"GetDeviceDescription", "Idle"}
    BY <1>2, <1>4, <1>5 DEF Weak
  <2>2. Good2(s)
    BY <1>2, <1>3, <1>5 DEF Good2, Level
  <2>3. \A e, s1, d, q :
          /\ Weak(s1) /\ Good2(s1) /\ s1.state[0] \notin {"GetDeviceDescription", "Idle"}
          /\ e = "timeout" /\ Handler(e, s1, d, q)
          => /\ Good(sm')
             /\ ~s1.skipped => ~sm'.skipped
             /\ ~(sm'.state[0] = "GetDeviceDescription" /\ ~sm'.lock[0])
    BY HandlerKeeps
  <2>4. /\ Good(sm')
        /\ ~s.skipped => ~sm'.skipped
        /\ ~(sm'.state[0] = "GetDeviceDescription" /\ ~sm'.lock[0])
    BY <1>3, <1>4, <1>5, <2>1, <2>2, <2>3
  <2>5. queue' \in Seq(Event)
    BY <1>4, <1>5, HandlerQueue, QueueStepKeeps DEF DeviceInv
  <2> QED
    BY <1>3, <2>4, <2>5 DEF DeviceInv, DescriptionPending, EnterArrivesFirst
<1>6. CASE l = 2
  <2>1. s.state[0] = "Idle"
    BY <1>2, <1>3, <1>4, <1>6 DEF Weak, None
  <2>2. Good0(s)
    BY <1>2, <1>3, <1>6, <2>1 DEF Good0, Interview
  <2>3. \A e, s1, d, q :
          Weak(s1) /\ Good0(s1) /\ e = "timeout" /\ PollHandler(e, s1, d, q)
          => Good(sm') /\ sm'.skipped = s1.skipped /\ sm'.state[0] = s1.state[0]
    BY PollHandlerKeeps
  <2>4. Good(sm') /\ sm'.skipped = s.skipped /\ sm'.state[0] = s.state[0]
    BY <1>3, <1>4, <1>6, <2>2, <2>3
  <2>5. queue' \in Seq(Event)
    BY <1>4, <1>6, PollHandlerQueue, QueueStepKeeps DEF DeviceInv
  <2> QED
    BY <1>3, <2>1, <2>4, <2>5 DEF DeviceInv, DescriptionPending, EnterArrivesFirst
<1> QED
  BY <1>4, <1>5, <1>6

\* Notifying the first event of the queue removes no other one.
LEMMA TailQueuedEvent ==
  ASSUME NEW q \in Seq(Event), q # <<>>
  PROVE  /\ Tail(q) \in Seq(Event)
         /\ Head(q) \in Event
         /\ \A x : Queued(q, x) /\ x # Head(q) => Queued(Tail(q), x)
<1> HIDE DEF Event
<1>1. Tail(q) \in Seq(Event) /\ Head(q) \in Event
  OBVIOUS
<1>2. ASSUME NEW x, Queued(q, x), x # Head(q)
      PROVE  Queued(Tail(q), x)
  <2>1. PICK i \in 1 .. Len(q) : q[i] = x
    BY <1>2 DEF Queued
  <2>2. i # 1
    BY <1>2, <2>1
  <2>3. i - 1 \in 1 .. Len(Tail(q)) /\ Tail(q)[i - 1] = q[i]
    BY <2>2
  <2> QED
    BY <2>1, <2>3 DEF Queued
<1> QED
  BY <1>1, <1>2

\* A normal event is notified while no level is locked; the request for a
\* description is answered before anything else happens.
LEMMA NotifyKeeps ==
  ASSUME DeviceInv, Notify
  PROVE  DeviceInv'
<1>1. PICK result \in {"ddfMatches", "ddfMissing"} :
        handleEvent(Head(queue), sm, dev, answered(Head(queue), Tail(queue), result))
  BY DEF Notify
<1>2. PICK e : e = Head(queue)
  OBVIOUS
<1>3. PICK q : q = answered(e, Tail(queue), result)
  OBVIOUS
<1>4. handleEvent(e, sm, dev, q) /\ Good(sm)
  BY <1>1, <1>2, <1>3 DEF DeviceInv
<1>5. /\ Tail(queue) \in Seq(Event)
      /\ e \in Event
      /\ \A x : Queued(queue, x) /\ x # e => Queued(Tail(queue), x)
  BY <1>2, TailQueuedEvent DEF Notify, DeviceInv
<1>6. e \notin {"enter", "timeout"}
  BY <1>5 DEF Event, Confirms, Answers
<1>7. result \in Event
  BY DEF Event
<1>8. /\ q \in Seq(Event)
      /\ e = "ddfRequest" => Queued(q, result)
      /\ e # "ddfRequest" => q = Tail(queue)
  BY <1>3, <1>5, <1>7, EnqueueKeeps DEF answered
<1>9. \A l \in Level : ~sm.lock[l]
  <2>1. sm.urgent = <<>>
    BY DEF Notify
  <2>2. \A l \in Level : ~Queued(sm.urgent, l)
    BY <2>1 DEF Queued
  <2> QED
    BY <1>4, <2>2 DEF Good, Weak
<1>10. /\ Good(sm')
       /\ ~sm.skipped => ~sm'.skipped
       /\ sm'.state[0] = "GetDeviceDescription" /\ ~sm'.lock[0] =>
            /\ sm.state[0] = "GetDeviceDescription" /\ ~sm.lock[0]
            /\ e \notin {"ddfMatches", "ddfMissing"}
            /\ queue' = q
  BY <1>4, <1>6, <1>9, HandleEventKeeps
<1>11. queue' \in Seq(Event)
  BY <1>4, <1>8, HandleEventQueue, QueueStepKeeps
<1>12. DescriptionPending'
  <2>1. ASSUME sm'.state[0] = "GetDeviceDescription", ~sm'.lock[0]
        PROVE  \E x \in {"ddfRequest", "ddfMatches", "ddfMissing"} : Queued(queue', x)
    <3>1. PICK x \in {"ddfRequest", "ddfMatches", "ddfMissing"} : Queued(queue, x)
      BY <1>10, <2>1 DEF DeviceInv, DescriptionPending
    <3>2. queue' = q /\ e \notin {"ddfMatches", "ddfMissing"}
      BY <1>10, <2>1
    <3>3. CASE e = "ddfRequest"
      BY <1>8, <3>2, <3>3
    <3>4. CASE e # "ddfRequest"
      BY <1>5, <1>8, <3>1, <3>2, <3>4
    <3> QED
      BY <3>3, <3>4
  <2> QED
    BY <2>1 DEF DescriptionPending
<1>13. (~WidgetReloads => EnterArrivesFirst)'
  BY <1>10 DEF DeviceInv, EnterArrivesFirst
<1> QED
  BY <1>10, <1>11, <1>12, <1>13 DEF DeviceInv

\* A reload by the device widget may be dropped, but breaks nothing else.
LEMMA ReloadKeeps ==
  ASSUME DeviceInv, reloadTimerFired
  PROVE  DeviceInv'
<1>1. handleEvent("ddfReload", sm, dev, queue) /\ Good(sm) /\ WidgetReloads
  BY DEF reloadTimerFired, DeviceInv
<1>2. \A e, s, d, q :
        Good(s) /\ e = "ddfReload" /\ handleEvent(e, s, d, q)
        => /\ Good(sm')
           /\ sm'.state[0] = "GetDeviceDescription" /\ ~sm'.lock[0] =>
                s.state[0] = "GetDeviceDescription" /\ ~s.lock[0] /\ queue' = q
  BY HandleEventKeeps
<1>3. /\ Good(sm')
      /\ sm'.state[0] = "GetDeviceDescription" /\ ~sm'.lock[0] =>
           sm.state[0] = "GetDeviceDescription" /\ ~sm.lock[0] /\ queue' = queue
  BY <1>1, <1>2
<1>4. queue' \in Seq(Event)
  BY <1>1, HandleEventQueue, QueueStepKeeps DEF DeviceInv
<1> QED
  BY <1>1, <1>3, <1>4 DEF DeviceInv, DescriptionPending

\* A queue that has only got longer.
Grows(q, r) == r \in Seq(Event) /\ \A x : Queued(q, x) => Queued(r, x)

\* Enqueueing once more.
LEMMA GrowsByOne ==
  ASSUME NEW q, NEW r \in Seq(Event), Grows(q, r), NEW e \in Event
  PROVE  Grows(q, enqueue(r, e))
BY EnqueueKeeps DEF Grows

\* An indication enqueues what it says, and up to three events more.
LEMMA IndicationGrows ==
  ASSUME queue \in Seq(Event), NEW e \in Event, Indication(e)
  PROVE  Grows(queue, queue')
<1>1. "reachable" \in Event /\ "zclResponse" \in Event /\ "awake" \in Event
  BY DEF Event
<1>2. PICK q0 : q0 \in {queue, enqueue(queue, "reachable")} /\
        \E q1 \in {q0, enqueue(q0, "zclResponse")} :
          \/ queue' = enqueue(q1, e)
          \/ queue' = enqueue(enqueue(q1, e), "awake")
  BY DEF Indication
<1>3. Grows(queue, queue)
  BY DEF Grows
<1>4. Grows(queue, q0) /\ q0 \in Seq(Event)
  BY <1>1, <1>2, <1>3, GrowsByOne DEF Grows
<1>5. PICK q1 \in {q0, enqueue(q0, "zclResponse")} :
        \/ queue' = enqueue(q1, e)
        \/ queue' = enqueue(enqueue(q1, e), "awake")
  BY <1>2
<1>6. Grows(queue, q1) /\ q1 \in Seq(Event)
  BY <1>1, <1>4, <1>5, GrowsByOne DEF Grows
<1>7. PICK q2 : q2 = enqueue(q1, e)
  OBVIOUS
<1>8. Grows(queue, q2) /\ q2 \in Seq(Event)
  BY <1>6, <1>7, GrowsByOne DEF Grows
<1>9. Grows(queue, enqueue(q2, "awake"))
  BY <1>1, <1>8, GrowsByOne
<1> QED
  BY <1>5, <1>7, <1>8, <1>9

\* What arrives is queued behind the other events.
LEMMA ArrivingKeeps ==
  ASSUME DeviceInv,
         \/ \E e \in Event : ReceiveEvent(e) \/ apsdeDataIndication(e)
         \/ nodeAdded \/ nodeZombieStateChanged \/ AwakeExpires
         \/ \E slot \in {"zdp", "read"} : apsdeDataConfirm(slot)
  PROVE  DeviceInv'
<1>1. sm' = sm
  BY DEF ReceiveEvent, apsdeDataIndication, Indication, nodeAdded, nodeZombieStateChanged,
         AwakeExpires, apsdeDataConfirm
<1>2. "poll" \in Event /\ "reachable" \in Event /\
      \A slot \in {"zdp", "read"} : Ok(slot) \in Event /\ Fail(slot) \in Event
  BY DEF Event, Confirms, Ok, Fail
<1>3. queue \in Seq(Event) /\ Grows(queue, queue)
  BY DEF DeviceInv, Grows
<1>4. \A e \in Event : Grows(queue, enqueue(queue, e))
  BY <1>3, GrowsByOne
<1>5. Grows(queue, queue')
  <2>1. CASE \E e \in Event : ReceiveEvent(e)
    BY <1>4, <2>1 DEF ReceiveEvent, Arrives
  <2>2. CASE \E e \in Event : apsdeDataIndication(e)
    BY <1>3, <2>2, IndicationGrows DEF apsdeDataIndication
  <2>3. CASE nodeAdded \/ nodeZombieStateChanged
    BY <1>2, <1>4, <2>3 DEF nodeAdded, nodeZombieStateChanged, Arrives
  <2>4. CASE AwakeExpires
    BY <1>3, <2>4 DEF AwakeExpires
  <2>5. CASE \E slot \in {"zdp", "read"} : apsdeDataConfirm(slot)
    BY <1>2, <1>4, <2>5 DEF apsdeDataConfirm, Arrives
  <2> QED
    BY <2>1, <2>2, <2>3, <2>4, <2>5
<1> QED
  BY <1>1, <1>5, ArrivalKeeps DEF Grows

-----------------------------------------------------------------------------
\* DeviceInv is an invariant.
LEMMA DeviceInductive == Spec => []DeviceInv
<1>1. Init => DeviceInv
  BY DeviceInit
<1>2. DeviceInv /\ [Next]_vars => DeviceInv'
  <2> SUFFICES ASSUME DeviceInv, [Next]_vars PROVE DeviceInv'
    OBVIOUS
  <2>1. CASE Start
    BY <2>1, StartKeeps
  <2>2. CASE \E l \in Level : StateEnter(l)
    BY <2>2, StateEnterKeeps
  <2>3. CASE \E l \in Level : timerEvent(l)
    BY <2>3, TimerKeeps
  <2>4. CASE Notify
    BY <2>4, NotifyKeeps
  <2>5. CASE reloadTimerFired
    BY <2>5, ReloadKeeps
  <2>6. CASE \/ \E e \in Event : ReceiveEvent(e) \/ apsdeDataIndication(e)
             \/ nodeAdded \/ nodeZombieStateChanged \/ AwakeExpires
             \/ \E slot \in {"zdp", "read"} : apsdeDataConfirm(slot)
    BY <2>6, ArrivingKeeps
  <2>7. CASE UNCHANGED vars
    <3>1. sm' = sm /\ queue' = queue
      BY <2>7 DEF vars
    <3> QED
      BY <3>1, ArrivalKeeps DEF DeviceInv
  <2> QED
    BY <2>1, <2>2, <2>3, <2>4, <2>5, <2>6, <2>7 DEF Next
<1> QED
  BY <1>1, <1>2, PTL DEF Spec

\* A lock is always released by a StateEnter on its way, waiting states have
\* their timeout, no timer outlives its state, and sub states live exactly as
\* long as Idle (setState(), startStateTimer(), stopStateTimer() and the handlers
\* of device.cpp), whatever arrives in whichever order, and with the widget's
\* reloads that bypass the queue.
THEOREM DeviceMachineSafe ==
  Spec => [](EnterPending /\ LevelsConsistent)
<1>1. DeviceInv => EnterPending /\ LevelsConsistent
  BY DEF DeviceInv, Good, Weak, Good0, Good2, EnterPending, LevelsConsistent,
         WaitingHasTimer, NoStrayTimer, SubStatesOfIdle
<1> QED
  BY <1>1, DeviceInductive, PTL

\* GetDeviceDescription, which has no timeout, never waits for an answer that
\* does not come (DEV_GetDeviceDescriptionHandler(), handleDDFInitRequest()).
THEOREM DescriptionAlwaysPending == Spec => []DescriptionPending
<1>1. DeviceInv => DescriptionPending
  BY DEF DeviceInv
<1> QED
  BY <1>1, DeviceInductive, PTL

\* As long as all events come through the event emitter, no event meets a level
\* that waits for StateEnter (Device::handleEvent()).
THEOREM NothingDropped == ~WidgetReloads /\ Spec => []EnterArrivesFirst
<1>1. ~WidgetReloads /\ DeviceInv => EnterArrivesFirst
  BY DEF DeviceInv
<1>2. CASE WidgetReloads
  BY <1>2, PTL
<1>3. CASE ~WidgetReloads
  <2>1. DeviceInv => EnterArrivesFirst
    BY <1>1, <1>3
  <2> QED
    BY <2>1, DeviceInductive, PTL
<1> QED
  BY <1>2, <1>3

-----------------------------------------------------------------------------
(***************************************************************************)
(* The members of the device and the poll queue.  Fits(s, d) relates the   *)
(* polling state to the queue: a request only runs for an item that is     *)
(* there.  It holds between any two steps, and handlers that are called    *)
(* with it leave it behind.                                                *)
(***************************************************************************)
Devs == [initialRun : BOOLEAN, node : BOOLEAN, managed : BOOLEAN,
         needZDPMaintenanceOnce : BOOLEAN, needReadActiveEndpoints : BOOLEAN,
         needReadSimpleDescriptors : BOOLEAN, fetchIndex : 0 .. NumEndpoints,
         stateReachable : BOOLEAN, sleeper : BOOLEAN, awake : BOOLEAN,
         zdp : BOOLEAN, read : BOOLEAN, items : 0 .. MaxItems,
         retry : 0 .. (MaxPollItemRetries - 1), errors : 0 .. (MaxIdleApsConfirmErrors + 1)]

Fits(s, d) == d \in Devs /\ (s.state[2] = "PollBusy" => d.items > 0)

\* Another value of the members, with the same poll queue.
SameItems(d, d1) == d1 \in Devs /\ d1.items = d.items

\* Assigning a flag leaves the poll queue alone.
LEMMA AssignFlag ==
  ASSUME NEW d \in Devs, NEW b \in BOOLEAN
  PROVE  /\ SameItems(d, [d EXCEPT !.initialRun = b])
         /\ SameItems(d, [d EXCEPT !.node = b])
         /\ SameItems(d, [d EXCEPT !.managed = b])
         /\ SameItems(d, [d EXCEPT !.needZDPMaintenanceOnce = b])
         /\ SameItems(d, [d EXCEPT !.needReadActiveEndpoints = b])
         /\ SameItems(d, [d EXCEPT !.needReadSimpleDescriptors = b])
         /\ SameItems(d, [d EXCEPT !.stateReachable = b])
         /\ SameItems(d, [d EXCEPT !.sleeper = b])
         /\ SameItems(d, [d EXCEPT !.awake = b])
         /\ SameItems(d, [d EXCEPT !.zdp = b])
         /\ SameItems(d, [d EXCEPT !.read = b])
BY DEF SameItems, Devs

\* So does assigning the index of the next endpoint or the counter of failures.
LEMMA AssignNumber ==
  ASSUME NEW d \in Devs
  PROVE  /\ \A i \in 0 .. NumEndpoints : SameItems(d, [d EXCEPT !.fetchIndex = i])
         /\ \A n \in 0 .. (MaxIdleApsConfirmErrors + 1) : SameItems(d, [d EXCEPT !.errors = n])
BY DEF SameItems, Devs

\* Dropping the last item of the poll queue, or counting a retry of it, keeps
\* the retries below the limit (checkPollItemRetry()).
LEMMA RetryBounded ==
  ASSUME NEW d \in Devs
  PROVE  /\ d.items > 0 => withoutLast(d) \in Devs
         /\ checkPollItemRetry(d) \in Devs
<1>1. ASSUME d.items > 0
      PROVE  withoutLast(d) \in Devs
  <2>1. d.items - 1 \in 0 .. MaxItems /\ 0 \in 0 .. (MaxPollItemRetries - 1)
    BY <1>1, DeviceAssumption DEF Devs
  <2> QED
    BY <2>1 DEF Devs, withoutLast
<1>2. CASE d.items = 0
  BY <1>2 DEF checkPollItemRetry
<1>3. CASE d.items # 0 /\ d.retry + 1 >= MaxPollItemRetries
  <2>1. d.items > 0
    BY <1>3 DEF Devs
  <2> QED
    BY <1>1, <1>3, <2>1 DEF checkPollItemRetry
<1>4. CASE d.items # 0 /\ ~(d.retry + 1 >= MaxPollItemRetries)
  <2>1. PICK m : m = d.retry + 1
    OBVIOUS
  <2>4. m \in 0 .. (MaxPollItemRetries - 1)
    BY <1>4, <2>1, DeviceAssumption DEF Devs
  <2>2. checkPollItemRetry(d) = [d EXCEPT !.retry = m]
    BY <1>4, <2>1 DEF checkPollItemRetry
  <2>3. \A n \in 0 .. (MaxPollItemRetries - 1) : [d EXCEPT !.retry = n] \in Devs
    BY DEF Devs
  <2> QED
    BY <1>1, <2>2, <2>3, <2>4
<1> QED
  BY <1>1, <1>2, <1>3, <1>4

\* Failing confirms are counted up to the limit (DEV_IdleStateHandler()).
LEMMA CountConfirmBounded ==
  ASSUME NEW d \in Devs, NEW e
  PROVE  SameItems(d, countConfirm(d, e))
<1> DEFINE n == IF d.errors > MaxIdleApsConfirmErrors THEN d.errors ELSE d.errors + 1
<1>1. n \in 0 .. (MaxIdleApsConfirmErrors + 1) /\ 0 \in 0 .. (MaxIdleApsConfirmErrors + 1)
  BY DeviceAssumption DEF Devs
<1>2. \/ countConfirm(d, e) = d
      \/ countConfirm(d, e) = [d EXCEPT !.errors = 0]
      \/ countConfirm(d, e) = [d EXCEPT !.errors = 0, !.stateReachable = FALSE]
      \/ countConfirm(d, e) = [d EXCEPT !.errors = n]
  BY DEF countConfirm
<1> HIDE DEF n
<1>3. SameItems(d, [d EXCEPT !.errors = 0, !.stateReachable = FALSE])
  BY <1>1 DEF SameItems, Devs
<1>4. SameItems(d, d)
  BY DEF SameItems
<1> QED
  BY <1>1, <1>2, <1>3, <1>4, AssignNumber

\* setState() and the timers, as far as the polling state is concerned.
LEMMA PollingState ==
  ASSUME NEW s, Weak(s)
  PROVE  /\ \A l \in Level : startStateTimer(s, l).state = s.state
         /\ \A l \in Level : stopStateTimer(s, l).state = s.state
         /\ \A new \in Polling : setState(s, 2, new).state[2] = new
         /\ \A new \in States0 : setState(s, 0, new).state[2] \in {None, s.state[2]}
<1>1. s \in Machines
  BY DEF Weak
<1>2. \A l \in Level : startStateTimer(s, l).state = s.state /\ stopStateTimer(s, l).state = s.state
  BY <1>1 DEF startStateTimer, stopStateTimer, Machines
<1>3. ASSUME NEW new \in Polling
      PROVE  setState(s, 2, new).state[2] = new
  <2>1. CASE s.state[2] = new
    BY <2>1 DEF setState
  <2>2. CASE s.state[2] # new
    <3>1. leave(s, 2) = s \/ leave(s, 2) = stopStateTimer(s, 2)
      BY DEF leave, Weak, Polling, None
    <3>2. leave(s, 2).state = s.state
      BY <1>2, <3>1 DEF Level
    <3>3. leave(s, 2) \in Machines
      BY <1>1, <3>1 DEF stopStateTimer, Machines, Bool3, Level
    <3> DEFINE left == leave(s, 2)
    <3>4. setState(s, 2, new) = [left EXCEPT !.state[2] = new, !.lock[2] = TRUE, !.urgent = Append(@, 2)]
      BY <2>2 DEF setState
    <3>5. left \in Machines
      BY <3>3
    <3> HIDE DEF left
    <3>6. setState(s, 2, new).state = [left.state EXCEPT ![2] = new] /\ left.state \in State
      BY <3>4, <3>5 DEF Machines
    <3> QED
      BY <3>6 DEF State
  <2> QED
    BY <2>1, <2>2
<1>4. ASSUME NEW new \in States0
      PROVE  setState(s, 0, new).state[2] \in {None, s.state[2]}
  <2>1. CASE s.state[0] = new
    BY <2>1 DEF setState
  <2>2. CASE s.state[0] # new
    <3> DEFINE left == leave(s, 0)
    <3>1. left \in Machines /\ left.state[2] = None
      BY LeaveLevel0
    <3>2. setState(s, 0, new) = [left EXCEPT !.state[0] = new, !.lock[0] = TRUE, !.urgent = Append(@, 0)]
      BY <2>2 DEF setState
    <3> HIDE DEF left
    <3>3. setState(s, 0, new).state = [left.state EXCEPT ![0] = new] /\ left.state \in State
      BY <3>1, <3>2 DEF Machines
    <3>4. setState(s, 0, new).state[2] = left.state[2]
      BY <3>3 DEF State
    <3> QED
      BY <3>1, <3>4
  <2> QED
    BY <2>1, <2>2
<1> QED
  BY <1>2, <1>3, <1>4

\* A handler that takes the members d and the machine s, and keeps the poll queue
\* and the polling state or ends it, leaves them fitting.
LEMMA StaysFitting ==
  ASSUME NEW s, NEW d, Fits(s, d), SameItems(d, dev'), sm'.state[2] \in {None, s.state[2]}
  PROVE  Fits(sm', dev')
BY DEF Fits, SameItems, None

\* The polling handlers (DEV_PollIdleStateHandler() and the following): a request
\* runs only for an item, and no item is removed while it does.
LEMMA PollHandlerFits ==
  ASSUME NEW e, NEW s, NEW d, NEW q, Weak(s), Fits(s, d), PollHandler(e, s, d, q)
  PROVE  Fits(sm', dev')
<1> USE DEF Fits
<1>1. d \in Devs /\ SameItems(d, d) /\ 0 \in 0 .. MaxItems /\ 0 \in 0 .. (MaxPollItemRetries - 1)
  BY DeviceAssumption DEF SameItems
<1>2. CASE s.state[2] = None
  <2>1. sm' = s /\ dev' = d
    BY <1>2 DEF PollHandler, Becomes, None
  <2> QED
    BY <2>1
<1>3. CASE s.state[2] = "PollIdle"
  <2>1. DEV_PollIdleStateHandler(e, s, d, q)
    BY <1>3 DEF PollHandler, None
  <2>2. sm' = s \/ sm' = setState(s, 2, "PollNext")
    BY <2>1 DEF DEV_PollIdleStateHandler, Becomes
  <2>3. sm'.state[2] # "PollBusy"
    BY <1>3, <2>2, PollingState DEF Polling
  <2> DEFINE once == [d EXCEPT !.needZDPMaintenanceOnce = FALSE]
  <2>4. once \in Devs
    BY <1>1, AssignFlag DEF SameItems
  <2>5. \/ dev' = d
        \/ dev' = [once EXCEPT !.needReadActiveEndpoints = TRUE,
                               !.needReadSimpleDescriptors = TRUE,
                               !.fetchIndex = 0]
        \/ \E d1 \in {d, once}, n \in 0 .. MaxItems : dev' = [d1 EXCEPT !.items = n, !.retry = 0]
    BY <2>1 DEF DEV_PollIdleStateHandler, Becomes
  <2> HIDE DEF once
  <2>6. 0 \in 0 .. NumEndpoints
    BY DeviceAssumption
  <2>7. dev' \in Devs
    <3>1. CASE dev' = d
      BY <1>1, <3>1
    <3>2. CASE dev' = [once EXCEPT !.needReadActiveEndpoints = TRUE,
                                   !.needReadSimpleDescriptors = TRUE,
                                   !.fetchIndex = 0]
      BY <2>4, <2>6, <3>2 DEF Devs
    <3>3. CASE \E d1 \in {d, once}, n \in 0 .. MaxItems : dev' = [d1 EXCEPT !.items = n, !.retry = 0]
      <4>1. PICK d1 \in {d, once}, n \in 0 .. MaxItems : dev' = [d1 EXCEPT !.items = n, !.retry = 0]
        BY <3>3
      <4>2. d1 \in Devs
        BY <1>1, <2>4
      <4> QED
        BY <1>1, <4>1, <4>2 DEF Devs
    <3> QED
      BY <2>5, <3>1, <3>2, <3>3
  <2> QED
    BY <2>3, <2>7
<1>4. CASE s.state[2] = "PollNext"
  <2>1. DEV_PollNextStateHandler(e, s, d, q)
    BY <1>4 DEF PollHandler, None
  <2> DEFINE d1 == [d EXCEPT !.read = FALSE]
  <2>2. SameItems(d, d1) /\ SameItems(d, [d EXCEPT !.read = TRUE])
    BY <1>1, AssignFlag
  <2>3. \/ sm' = setState(s, 2, "PollIdle") /\ dev' = [d EXCEPT !.items = 0, !.retry = 0]
        \/ /\ ~pollEnds(d)
           /\ \/ sm' = setState(s, 2, "PollBusy") /\ dev' = [d EXCEPT !.read = TRUE]
              \/ sm' = startStateTimer(s, 2) /\ dev' = withoutLast(d1)
              \/ sm' = startStateTimer(s, 2) /\ dev' = checkPollItemRetry(d1)
        \/ sm' = s /\ dev' = d
    BY <2>1 DEF DEV_PollNextStateHandler, Becomes
  <2> HIDE DEF d1
  <2>4. ~pollEnds(d) => d.items > 0
    BY <1>1 DEF pollEnds, Devs
  <2>5. CASE sm' = setState(s, 2, "PollIdle") /\ dev' = [d EXCEPT !.items = 0, !.retry = 0]
    <3>1. dev' \in Devs
      BY <1>1, <2>5 DEF Devs
    <3>2. sm'.state[2] = "PollIdle"
      BY <2>5, PollingState DEF Polling
    <3> QED
      BY <3>1, <3>2
  <2>6. CASE ~pollEnds(d) /\ sm' = setState(s, 2, "PollBusy") /\ dev' = [d EXCEPT !.read = TRUE]
    BY <2>2, <2>4, <2>6 DEF SameItems
  <2>7. CASE /\ ~pollEnds(d) /\ sm' = startStateTimer(s, 2)
             /\ dev' = withoutLast(d1) \/ dev' = checkPollItemRetry(d1)
    <3>1. d1 \in Devs /\ d1.items > 0
      BY <2>2, <2>4, <2>7 DEF SameItems
    <3>2. dev' \in Devs
      BY <2>7, <3>1, RetryBounded
    <3>3. sm'.state = s.state
      BY <2>7, PollingState DEF Level
    <3> QED
      BY <1>4, <3>2, <3>3
  <2>8. CASE sm' = s /\ dev' = d
    BY <2>8
  <2> QED
    BY <2>3, <2>5, <2>6, <2>7, <2>8
<1>5. CASE s.state[2] = "PollBusy"
  <2>1. DEV_PollBusyStateHandler(e, s, d, q) /\ d.items > 0
    BY <1>5 DEF PollHandler, None
  <2>2. \/ sm' = startStateTimer(s, 2) /\ dev' = d
        \/ sm' = startStateTimer(stopStateTimer(s, 0), 2) /\ dev' = [d EXCEPT !.errors = 0]
        \/ sm' = setState(s, 2, "PollNext") /\ (dev' = checkPollItemRetry(d) \/ dev' = withoutLast(d))
        \/ sm' = s /\ dev' = d
    BY <2>1 DEF DEV_PollBusyStateHandler, Becomes
  <2>3. CASE sm' = startStateTimer(stopStateTimer(s, 0), 2) /\ dev' = [d EXCEPT !.errors = 0]
    <3>1. 0 \in 0 .. (MaxIdleApsConfirmErrors + 1)
      BY DeviceAssumption
    <3>2. SameItems(d, dev')
      BY <1>1, <2>3, <3>1, AssignNumber
    <3> QED
      BY <2>1, <3>2 DEF SameItems
  <2>4. CASE sm' = setState(s, 2, "PollNext") /\ (dev' = checkPollItemRetry(d) \/ dev' = withoutLast(d))
    <3>1. dev' \in Devs
      BY <1>1, <2>1, <2>4, RetryBounded
    <3>2. sm'.state[2] = "PollNext"
      BY <2>4, PollingState DEF Polling
    <3> QED
      BY <3>1, <3>2
  <2>5. CASE (sm' = startStateTimer(s, 2) \/ sm' = s) /\ dev' = d
    BY <2>1, <2>5
  <2> QED
    BY <2>2, <2>3, <2>4, <2>5
<1> QED
  BY <1>2, <1>3, <1>4, <1>5 DEF Weak, Polling

\* The parts of the interview that every state of it shares.
LEMMA InterviewFits ==
  ASSUME NEW s, Weak(s), s.state[0] \in Interview, NEW d, Fits(s, d), NEW e, NEW q,
         NEW d1, SameItems(d, d1), NEW slot \in {"zdp", "read"}, NEW answer,
         Ask(slot, s, d, q) \/ Await(slot, answer, e, s, d, q, d1)
  PROVE  Fits(sm', dev')
<1>1. d \in Devs /\ SameItems(d, d)
  BY DEF Fits, SameItems
<1>2. \A b \in BOOLEAN : SameItems(d, [d EXCEPT ![slot] = b])
  <2>1. CASE slot = "zdp"
    BY <1>1, <2>1, AssignFlag
  <2>2. CASE slot = "read"
    BY <1>1, <2>2, AssignFlag
  <2> QED
    BY <2>1, <2>2
<1>3. SameItems(d, dev')
  BY <1>1, <1>2 DEF Ask, Await, Becomes
<1>4. sm' = setState(s, 0, "Init") \/ sm' = startStateTimer(s, 0) \/ sm' = s
  BY DEF Ask, Await, Becomes
<1>5. sm'.state[2] \in {None, s.state[2]}
  BY <1>4, PollingState DEF States0, Level
<1> QED
  BY <1>3, <1>5, StaysFitting

\* All handlers of level 0: Init to Dead leave the poll queue alone, Idle passes
\* events to the polling handlers.
LEMMA HandlerFits ==
  ASSUME NEW e, NEW s, NEW d, NEW q, Weak(s), Fits(s, d), core \in Core,
         e = "enter" => Good2(s), Handler(e, s, d, q)
  PROVE  Fits(sm', dev')
<1>1. d \in Devs /\ SameItems(d, d)
  BY DEF Fits, SameItems
<1>2. \A new \in States0 : setState(s, 0, new).state[2] \in {None, s.state[2]}
  BY PollingState
<1>3. CASE s.state[0] \in {"Zgp", None}
  BY <1>3 DEF Handler, Becomes, None
<1>4. CASE s.state[0] = "Dead"
  <2>1. (sm' = s \/ sm' = setState(s, 0, "Init")) /\ dev' = d
    BY <1>4 DEF Handler, DEV_DeadStateHandler, Becomes, None
  <2>2. sm'.state[2] \in {None, s.state[2]}
    BY <1>2, <2>1 DEF States0
  <2> QED
    BY <1>1, <2>1, <2>2, StaysFitting
<1>5. CASE s.state[0] = "Init"
  <2>1. DEV_InitStateHandler(e, s, d, q)
    BY <1>5 DEF Handler, None
  <2>2. sm' = s \/ \E new \in {"Dead", "NodeDescriptor", "Zgp"} : sm' = setState(s, 0, new)
    BY <2>1 DEF DEV_InitStateHandler, Becomes
  <2>3. sm'.state[2] \in {None, s.state[2]}
    BY <1>2, <2>2 DEF States0, Interview
  <2> DEFINE fresh == [d EXCEPT !.node = core.node, !.zdp = FALSE]
             d1 == IF e = "enter" THEN fresh ELSE d
             d2 == [d1 EXCEPT !.initialRun = FALSE, !.node = d1.node \/ core.node]
  <2>4. core.node \in BOOLEAN
    BY DEF Core
  <2>5. SameItems(d, fresh)
    BY <1>1, <2>4 DEF SameItems, Devs
  <2>6. SameItems(d, d1)
    BY <1>1, <2>5
  <2>7. dev' = d1 \/ dev' = d2
    BY <2>1 DEF DEV_InitStateHandler, Becomes
  <2> HIDE DEF d1
  <2>8. SameItems(d1, d2)
    <3>1. d1 \in Devs
      BY <2>6 DEF SameItems
    <3>2. PICK b \in BOOLEAN : b = (d1.node \/ core.node)
      OBVIOUS
    <3>3. d2 = [d1 EXCEPT !.initialRun = FALSE, !.node = b]
      BY <3>2
    <3> HIDE DEF d2
    <3> QED
      BY <3>1, <3>3 DEF SameItems, Devs
  <2>9. SameItems(d, dev')
    BY <2>6, <2>7, <2>8 DEF SameItems
  <2> QED
    BY <2>3, <2>9, StaysFitting
<1>6. CASE s.state[0] = "GetDeviceDescription"
  <2>1. DEV_GetDeviceDescriptionHandler(e, s, d, q)
    BY <1>6 DEF Handler, None
  <2>2. sm' = s \/ \E new \in {"Idle", "Dead"} : sm' = setState(s, 0, new)
    BY <2>1 DEF DEV_GetDeviceDescriptionHandler, Becomes
  <2>3. dev' = d \/ \E b \in BOOLEAN : dev' = [d EXCEPT !.managed = b]
    BY <2>1 DEF DEV_GetDeviceDescriptionHandler, Becomes
  <2>4. SameItems(d, dev')
    BY <1>1, <2>3, AssignFlag
  <2>5. sm'.state[2] \in {None, s.state[2]}
    BY <1>2, <2>2 DEF States0
  <2> QED
    BY <2>4, <2>5, StaysFitting
<1>7. CASE s.state[0] \in Interview
  <2>1. ASSUME NEW new \in States0, sm' = setState(s, 0, new), SameItems(d, dev')
        PROVE  Fits(sm', dev')
    BY <1>2, <2>1, StaysFitting
  <2>2. CASE s.state[0] = "NodeDescriptor"
    <3>1. DEV_NodeDescriptorStateHandler(e, s, d, q)
      BY <2>2 DEF Handler, None
    <3>2. (~RxOnWhenIdle) \in BOOLEAN
      OBVIOUS
    <3>3. SameItems(d, [d EXCEPT !.sleeper = ~RxOnWhenIdle])
      BY <1>1, <3>2, AssignFlag
    <3>4. CASE sm' = setState(s, 0, "ActiveEndpoints") /\ dev' = [d EXCEPT !.sleeper = ~RxOnWhenIdle]
      BY <2>1, <3>3, <3>4 DEF States0, Interview
    <3>5. CASE Ask("zdp", s, d, q) \/ Await("zdp", "nodeDescriptor", e, s, d, q, d)
      BY <1>1, <1>7, <3>5, InterviewFits
    <3> QED
      BY <3>1, <3>4, <3>5 DEF DEV_NodeDescriptorStateHandler, Becomes
  <2>3. CASE s.state[0] = "ActiveEndpoints"
    <3>1. DEV_ActiveEndpointsStateHandler(e, s, d, q)
      BY <2>3 DEF Handler, None
    <3> DEFINE d1 == [d EXCEPT !.needReadActiveEndpoints = FALSE]
    <3>2. SameItems(d, d1)
      BY <1>1, AssignFlag
    <3>3. CASE sm' = setState(s, 0, "SimpleDescriptor") /\ dev' = d
      BY <1>1, <2>1, <3>3 DEF States0, Interview
    <3>4. CASE Ask("zdp", s, d, q) \/ Await("zdp", "activeEndpoints", e, s, d, q, d1)
      <4> HIDE DEF d1
      <4> QED
        BY <1>7, <3>2, <3>4, InterviewFits
    <3> QED
      BY <3>1, <3>3, <3>4 DEF DEV_ActiveEndpointsStateHandler, Becomes
  <2>4. CASE s.state[0] = "SimpleDescriptor"
    <3>1. DEV_SimpleDescriptorStateHandler(e, s, d, q)
      BY <2>4 DEF Handler, None
    <3>2. d.fetchIndex \in 0 .. NumEndpoints /\ NumEndpoints \in 0 .. NumEndpoints
      BY <1>1, DeviceAssumption DEF Devs
    <3>3. PICK next :
            /\ next = IF d.needReadSimpleDescriptors /\ d.fetchIndex < NumEndpoints
                      THEN d.fetchIndex + 1 ELSE d.fetchIndex
      OBVIOUS
    <3>4. next \in 0 .. NumEndpoints
      BY <3>2, <3>3, DeviceAssumption
    <3> DEFINE d1 == [d EXCEPT !.fetchIndex = next]
               d2 == [d EXCEPT !.needReadSimpleDescriptors = FALSE, !.fetchIndex = NumEndpoints]
    <3>5. SameItems(d, d1)
      BY <1>1, <3>4, AssignNumber
    <3>6. SameItems(d, d2)
      BY <1>1, <3>2 DEF SameItems, Devs
    <3>7. \/ sm' = setState(s, 0, "BasicCluster") /\ dev' = d2
          \/ Ask("zdp", s, d, q) \/ Await("zdp", "simpleDescriptor", e, s, d, q, d1)
      BY <3>1, <3>3 DEF DEV_SimpleDescriptorStateHandler, Becomes
    <3> HIDE DEF d1, d2
    <3>8. CASE sm' = setState(s, 0, "BasicCluster") /\ dev' = d2
      BY <2>1, <3>6, <3>8 DEF States0, Interview
    <3>9. CASE Ask("zdp", s, d, q) \/ Await("zdp", "simpleDescriptor", e, s, d, q, d1)
      BY <1>7, <3>5, <3>9, InterviewFits
    <3> QED
      BY <3>7, <3>8, <3>9
  <2>5. CASE s.state[0] = "BasicCluster"
    <3>1. DEV_BasicClusterStateHandler(e, s, d, q)
      BY <2>5 DEF Handler, None
    <3>2. CASE sm' = setState(s, 0, "GetDeviceDescription") /\ dev' = d
      BY <1>1, <2>1, <3>2 DEF States0
    <3>3. CASE Ask("read", s, d, q) \/ Await("read", "basicAttribute", e, s, d, q, d)
      BY <1>1, <1>7, <3>3, InterviewFits
    <3> QED
      BY <3>1, <3>2, <3>3 DEF DEV_BasicClusterStateHandler, Becomes
  <2> QED
    BY <1>7, <2>2, <2>3, <2>4, <2>5 DEF Interview
<1>8. CASE s.state[0] = "Idle"
  <2>1. DEV_IdleStateHandler(e, s, d, q)
    BY <1>8 DEF Handler, Interview, None
  <2>2. CASE e = "enter"
    <3> DEFINE t == setState(s, 1, "Binding")
    <3>1. sm' = setState(t, 2, "PollIdle") /\ dev' = d
      BY <2>1, <2>2 DEF DEV_IdleStateHandler, Becomes
    <3>2. Weak(t)
      BY <1>8, <2>2, SetStateLevel1
    <3> HIDE DEF t
    <3>3. sm'.state[2] = "PollIdle"
      BY <3>1, <3>2, PollingState DEF Polling
    <3> QED
      BY <1>1, <3>1, <3>3 DEF Fits
  <2>3. CASE e # "enter"
    <3> DEFINE t == noteSkipped(s, {1, 2})
               d1 == countConfirm(d, e)
    <3>1. {1, 2} \in SUBSET Level
      BY DEF Level
    <3>2. Weak(t) /\ t.state = s.state
      BY <3>1, NoteSkipped
    <3>3. SameItems(d, d1)
      BY <1>1, CountConfirmBounded
    <3>4. (sm' = t /\ dev' = d1) \/ PollHandler(e, t, d1, q)
      BY <2>1, <2>3 DEF DEV_IdleStateHandler, Becomes
    <3> HIDE DEF t, d1
    <3>5. Fits(t, d1)
      BY <3>2, <3>3 DEF Fits, SameItems
    <3> QED
      BY <3>2, <3>4, <3>5, PollHandlerFits
  <2> QED
    BY <2>2, <2>3
<1> QED
  BY <1>3, <1>4, <1>5, <1>6, <1>7, <1>8 DEF Weak, States0

\* Device::handleEvent() for an event of the queue or of the widget.
LEMMA HandleEventFits ==
  ASSUME NEW e, NEW s, NEW d, NEW q, Weak(s), Good2(s), Fits(s, d), core \in Core,
         handleEvent(e, s, d, q)
  PROVE  Fits(sm', dev')
<1>1. d \in Devs /\ SameItems(d, d)
  BY DEF Fits, SameItems
<1>2. CASE s.lock[0]
  <2>1. sm' = noteSkipped(s, {0}) /\ dev' = d /\ {0} \in SUBSET Level
    BY <1>2 DEF handleEvent, Becomes, Level
  <2>2. sm'.state = s.state
    BY <2>1, NoteSkipped
  <2> QED
    BY <2>1, <2>2 DEF Fits
<1>3. CASE ~s.lock[0] /\ e \in {"ddfReload", "zdpReload"}
  <2>1. PICK new \in {"Init", "ActiveEndpoints"} :
          sm' = startStateTimer(setState(s, 0, new), 0) /\ dev' = d
    BY <1>3 DEF handleEvent, Becomes
  <2> DEFINE t == setState(s, 0, new)
  <2>2. new \in States0
    BY DEF States0, Interview
  <2>3. t.state[2] \in {None, s.state[2]}
    BY <2>2, PollingState
  <2>4. Weak(t)
    <3>1. CASE s.state[0] = new
      BY <3>1 DEF setState
    <3>2. CASE s.state[0] # new
      BY <2>2, <3>2, SetStateLevel0 DEF Good
    <3> QED
      BY <3>1, <3>2
  <2> HIDE DEF t
  <2>5. startStateTimer(t, 0).state = t.state
    BY <2>4, PollingState DEF Level
  <2>6. sm'.state[2] \in {None, s.state[2]}
    BY <2>1, <2>3, <2>5 DEF t
  <2> QED
    BY <1>1, <2>1, <2>6, StaysFitting
<1>4. CASE ~s.lock[0] /\ e \notin {"ddfReload", "zdpReload"}
  <2>1. PICK d1 : d1 \in {d, [d EXCEPT !.awake = TRUE]} /\ Handler(e, s, d1, q)
    BY <1>4 DEF handleEvent
  <2>2. SameItems(d, [d EXCEPT !.awake = TRUE])
    BY <1>1, AssignFlag
  <2>3. SameItems(d, d1)
    BY <1>1, <2>1, <2>2
  <2>4. Fits(s, d1)
    BY <2>3 DEF Fits, SameItems
  <2> QED
    BY <2>1, <2>4, HandlerFits
<1> QED
  BY <1>2, <1>3, <1>4

\* The inductive invariant of the members.
MembersInv ==
  /\ kind \in {"zigbee", "zgp", "coordinator"}
  /\ Fits(sm, dev)
  /\ core \in Core
  /\ started \in BOOLEAN

\* What the core learns keeps its type, and the members only change their flags.
LEMMA ArrivingFits ==
  ASSUME MembersInv,
         \/ \E e \in Event : ReceiveEvent(e) \/ apsdeDataIndication(e)
         \/ nodeAdded \/ nodeZombieStateChanged \/ AwakeExpires
         \/ \E slot \in {"zdp", "read"} : apsdeDataConfirm(slot)
  PROVE  MembersInv'
<1>1. sm' = sm /\ kind' = kind /\ started' = started
  BY DEF ReceiveEvent, apsdeDataIndication, Indication, nodeAdded, nodeZombieStateChanged,
         AwakeExpires, apsdeDataConfirm
<1>2. dev \in Devs /\ SameItems(dev, dev) /\ core \in Core
  BY DEF MembersInv, Fits, SameItems
<1>3. \A b \in BOOLEAN : /\ SameItems(dev, [dev EXCEPT !.stateReachable = b])
                         /\ SameItems(dev, [dev EXCEPT !.awake = b])
                         /\ SameItems(dev, [dev EXCEPT !.zdp = b])
                         /\ SameItems(dev, [dev EXCEPT !.read = b])
  BY <1>2, AssignFlag
<1>4. SameItems(dev, dev') /\ core' \in Core
  <2>1. CASE \E e \in Event : ReceiveEvent(e)
    BY <1>2, <2>1 DEF ReceiveEvent
  <2>2. CASE \E e \in Event : apsdeDataIndication(e)
    <3>1. PICK e : apsdeDataIndication(e)
      BY <2>2
    <3>2. PICK b \in BOOLEAN : dev' = [dev EXCEPT !.stateReachable = b]
      <4>1. dev' = [dev EXCEPT !.stateReachable =
                      dev.stateReachable \/ (~dev.sleeper /\ ~dev.stateReachable)]
        BY <3>1 DEF apsdeDataIndication, Indication
      <4> QED
        BY <4>1
    <3>3. \/ core' = core
          \/ core' = [core EXCEPT !.descriptor = TRUE]
          \/ core' = [core EXCEPT !.endpoints = TRUE]
          \/ \E n \in 0 .. NumEndpoints : core' = [core EXCEPT !.simple = n]
          \/ \E n \in 0 .. 2 : core' = [core EXCEPT !.attributes = n]
      <4>1. (IF core.simple < NumEndpoints THEN core.simple + 1 ELSE core.simple) \in 0 .. NumEndpoints
        BY <1>2, DeviceAssumption DEF Core
      <4>2. (IF core.attributes < 2 THEN core.attributes + 1 ELSE core.attributes) \in 0 .. 2
        BY <1>2 DEF Core
      <4> QED
        BY <3>1, <4>1, <4>2 DEF apsdeDataIndication
    <3>4. core' \in Core
      BY <1>2, <3>3 DEF Core
    <3> QED
      BY <1>3, <3>2, <3>4
  <2>3. CASE nodeAdded
    BY <1>2, <2>3 DEF nodeAdded, Core
  <2>4. CASE nodeZombieStateChanged
    <3>1. dev' = [dev EXCEPT !.stateReachable = ~dev.stateReachable] /\ core' = core
      BY <2>4 DEF nodeZombieStateChanged
    <3>2. PICK b \in BOOLEAN : b = ~dev.stateReachable
      OBVIOUS
    <3>3. dev' = [dev EXCEPT !.stateReachable = b]
      BY <3>1, <3>2
    <3> QED
      BY <1>2, <1>3, <3>1, <3>3
  <2>5. CASE AwakeExpires
    BY <1>2, <1>3, <2>5 DEF AwakeExpires
  <2>6. CASE \E slot \in {"zdp", "read"} : apsdeDataConfirm(slot)
    <3>1. core' = core /\ (dev' = [dev EXCEPT !.zdp = FALSE] \/ dev' = [dev EXCEPT !.read = FALSE])
      BY <2>6 DEF apsdeDataConfirm
    <3> QED
      BY <1>2, <1>3, <3>1
  <2> QED
    BY <2>1, <2>2, <2>3, <2>4, <2>5, <2>6
<1> QED
  BY <1>1, <1>4 DEF MembersInv, Fits, SameItems

\* The members fit when the device is created.
LEMMA MembersInit == Init => MembersInv
<1> SUFFICES ASSUME Init PROVE MembersInv
  OBVIOUS
<1>1. dev \in Devs
  <2>1. /\ NumEndpoints \in 0 .. NumEndpoints /\ 0 \in 0 .. MaxItems
        /\ 0 \in 0 .. (MaxPollItemRetries - 1) /\ 0 \in 0 .. (MaxIdleApsConfirmErrors + 1)
    BY DeviceAssumption
  <2> QED
    BY <2>1 DEF Init, Devs
<1>2. sm.state[2] = None
  <2>1. sm.state = [l \in Level |-> None] /\ 2 \in Level
    BY DEF Init, Level
  <2> QED
    BY <2>1
<1> QED
  BY <1>1, <1>2, DeviceAssumption DEF Init, MembersInv, Fits, None

\* Every step keeps them so, whichever handler it calls.
LEMMA MembersStep ==
  ASSUME DeviceInv, MembersInv, [Next]_vars
  PROVE  MembersInv'
<1>1. Weak(sm) /\ Good2(sm) /\ Good(sm) /\ Fits(sm, dev) /\ core \in Core
  BY DEF DeviceInv, Good, MembersInv
<1>2. ASSUME Fits(sm', dev'), UNCHANGED <<kind, core>>, started' \in BOOLEAN
      PROVE  MembersInv'
  BY <1>2 DEF MembersInv
<1>3. CASE Start
  <2>1. sm' = setState(sm, 0, "Init") /\ dev' = dev /\ UNCHANGED <<kind, core>> /\ started' = TRUE
    BY <1>3 DEF Start
  <2>2. sm'.state[2] \in {None, sm.state[2]}
    BY <1>1, <2>1, PollingState DEF States0
  <2>3. SameItems(dev, dev')
    BY <1>1, <2>1 DEF Fits, SameItems
  <2> QED
    BY <1>1, <1>2, <2>1, <2>2, <2>3, StaysFitting
<1>4. CASE \E l \in Level : StateEnter(l)
  <2>1. PICK l \in Level : StateEnter(l)
    BY <1>4
  <2>2. PICK s : s = unlocked(sm, l)
    OBVIOUS
  <2>3. sm.urgent # <<>> /\ Head(sm.urgent) = l /\ UNCHANGED <<kind, core, started>>
    BY <2>1 DEF StateEnter
  <2>4. Weak(s) /\ s.state = sm.state /\ (l # 2 => Good2(s))
    <3>1. \A s1, t1 : \A l1 \in Level :
            /\ Good(s1) /\ s1.urgent # <<>> /\ Head(s1.urgent) = l1
            /\ t1 = unlocked(s1, l1)
            => Weak(t1) /\ t1.state = s1.state /\ (l1 # 2 => Good2(t1))
      BY Unlocked, Zenon
    <3> QED
      BY <1>1, <2>2, <2>3, <3>1
  <2>5. Fits(s, dev)
    BY <1>1, <2>4 DEF Fits
  <2>6. \/ l = 0 /\ Handler("enter", s, dev, queue)
        \/ l = 1 /\ sm' = s /\ dev' = dev
        \/ l = 2 /\ PollHandler("enter", s, dev, queue)
    BY <2>1, <2>2 DEF StateEnter, Becomes, unlocked
  <2>7. Fits(sm', dev')
    <3>1. CASE l = 0
      <4>1. l # 2
        BY <3>1
      <4> QED
        BY <1>1, <2>4, <2>5, <2>6, <3>1, <4>1, HandlerFits
    <3>2. CASE l = 1
      BY <2>5, <2>6, <3>2
    <3>3. CASE l = 2
      BY <2>4, <2>5, <2>6, <3>3, PollHandlerFits
    <3> QED
      BY <2>6, <3>1, <3>2, <3>3
  <2> QED
    BY <1>2, <2>3, <2>7 DEF MembersInv
<1>5. CASE \E l \in Level : timerEvent(l)
  <2>1. PICK l \in Level : timerEvent(l)
    BY <1>5
  <2>2. PICK s : s = stopStateTimer(sm, l)
    OBVIOUS
  <2>3. Weak(s) /\ s.state = sm.state
    BY <1>1, <2>2, StopTimer
  <2>4. Fits(s, dev)
    BY <1>1, <2>3 DEF Fits
  <2>5. Handler("timeout", s, dev, queue) \/ PollHandler("timeout", s, dev, queue)
    BY <2>1, <2>2 DEF timerEvent
  <2>6. Fits(sm', dev')
    <3>1. CASE Handler("timeout", s, dev, queue)
      <4>1. "timeout" # "enter"
        OBVIOUS
      <4> QED
        BY <1>1, <2>3, <2>4, <3>1, <4>1, HandlerFits
    <3>2. CASE PollHandler("timeout", s, dev, queue)
      BY <2>3, <2>4, <3>2, PollHandlerFits
    <3> QED
      BY <2>5, <3>1, <3>2
  <2>7. UNCHANGED <<kind, core, started>>
    BY <2>1 DEF timerEvent
  <2> QED
    BY <1>2, <2>6, <2>7 DEF MembersInv
<1>6. CASE Notify \/ reloadTimerFired
  <2>1. UNCHANGED <<kind, core, started>> /\ \E e, q : handleEvent(e, sm, dev, q)
    BY <1>6 DEF Notify, reloadTimerFired
  <2>2. Fits(sm', dev')
    BY <1>1, <2>1, HandleEventFits
  <2> QED
    BY <1>2, <2>1, <2>2 DEF MembersInv
<1>7. CASE \/ \E e \in Event : ReceiveEvent(e) \/ apsdeDataIndication(e)
           \/ nodeAdded \/ nodeZombieStateChanged \/ AwakeExpires
           \/ \E slot \in {"zdp", "read"} : apsdeDataConfirm(slot)
  BY <1>7, ArrivingFits
<1>8. CASE UNCHANGED vars
  BY <1>8 DEF vars, MembersInv
<1> QED
  BY <1>3, <1>4, <1>5, <1>6, <1>7, <1>8 DEF Next

\* MembersInv is an invariant, next to that of the state machine.
LEMMA MembersInductive == Spec => []MembersInv
<1>1. DeviceInv /\ MembersInv /\ [Next]_vars => MembersInv'
  BY MembersStep
<1> QED
  BY <1>1, MembersInit, DeviceInductive, PTL DEF Spec

\* A poll request that runs belongs to an item of the poll queue, whenever the
\* round is ended, restarted or left by a reload: the assertion of
\* DEV_PollBusyStateHandler() never fails.
THEOREM PollHasItem == Spec => []PollBusyHasItem
<1>1. MembersInv => PollBusyHasItem
  BY DEF MembersInv, Fits, PollBusyHasItem
<1> QED
  BY <1>1, MembersInductive, PTL

\* All members keep their range: retries of an item and failing confirms stay
\* bounded (checkPollItemRetry(), DEV_IdleStateHandler()), and a forced read of
\* the simple descriptors never runs past the last endpoint.
THEOREM DeviceTypes == Spec => []TypeOK
<1>1. DeviceInv /\ MembersInv => TypeOK
  BY DEF DeviceInv, MembersInv, Good, Weak, Machines, Fits, Devs, TypeOK
<1> QED
  BY <1>1, DeviceInductive, MembersInductive, PTL
=============================================================================
