------------------------- MODULE AlarmSystemProofs --------------------------
(***************************************************************************)
(* Proofs about AlarmSystem for every set of devices, keypads, codes,      *)
(* delays and masks and for every bound.                                   *)
(***************************************************************************)
EXTENDS AlarmSystem, SequenceTheorems, TLAPS

USE AlarmAssumption

-----------------------------------------------------------------------------
(* No event is in the queue twice: isDuplicate() merges equal events.      *)
NoDuplicates(q) == \A j, k \in 1..Len(q) : q[j] = q[k] => j = k

(* What enqueueEvent() does to a queue: it keeps what is there, adds the   *)
(* event, adds nothing else and makes no duplicates.                       *)
LEMMA EnqueueKeeps ==
    ASSUME NEW S, NEW q \in Seq(S), NEW e \in S
    PROVE  /\ enqueueEvent(q, e) \in Seq(S)
           /\ Queued(enqueueEvent(q, e), e)
           /\ \A x : Queued(q, x) => Queued(enqueueEvent(q, e), x)
           /\ \A x : Queued(enqueueEvent(q, e), x) => Queued(q, x) \/ x = e
           /\ NoDuplicates(q) => NoDuplicates(enqueueEvent(q, e))
<1>1. CASE Queued(q, e)
  BY <1>1 DEF enqueueEvent
<1>2. CASE ~Queued(q, e)
  <2>1. enqueueEvent(q, e) = Append(q, e)
    BY <1>2 DEF enqueueEvent
  <2>2. /\ Append(q, e) \in Seq(S)
        /\ Len(Append(q, e)) = Len(q) + 1
        /\ Len(q) \in Nat
    OBVIOUS
  <2>3. \A k \in 1..Len(q) : Append(q, e)[k] = q[k]
    OBVIOUS
  <2>4. Append(q, e)[Len(q) + 1] = e
    OBVIOUS
  <2>5. \A x : Queued(q, x) => Queued(Append(q, e), x)
    BY <2>2, <2>3 DEF Queued
  <2>6. Queued(Append(q, e), e)
    BY <2>2, <2>4 DEF Queued
  <2>7. \A x : Queued(Append(q, e), x) => Queued(q, x) \/ x = e
    BY <2>2, <2>3, <2>4 DEF Queued
  <2>8. NoDuplicates(q) => NoDuplicates(Append(q, e))
    BY <1>2, <2>2, <2>3, <2>4 DEF Queued, NoDuplicates
  <2> QED
    BY <2>1, <2>2, <2>5, <2>6, <2>7, <2>8
<1> QED
  BY <1>1, <1>2

(* Notifying the head of the queue removes that event and no other.        *)
LEMMA TailKeeps ==
    ASSUME NEW S, NEW q \in Seq(S), q # <<>>
    PROVE  /\ Tail(q) \in Seq(S)
           /\ Head(q) \in S
           /\ Queued(q, Head(q))
           /\ \A x : Queued(q, x) /\ Head(q) # x => Queued(Tail(q), x)
           /\ \A x : Queued(Tail(q), x) => Queued(q, x)
           /\ NoDuplicates(q) => NoDuplicates(Tail(q)) /\ ~Queued(Tail(q), Head(q))
<1>1. /\ Tail(q) \in Seq(S)
      /\ Head(q) \in S
      /\ Len(q) \in Nat \ {0}
      /\ Len(Tail(q)) = Len(q) - 1
  OBVIOUS
<1>2. Head(q) = q[1]
  OBVIOUS
<1>3. \A k \in 1..Len(Tail(q)) : k + 1 \in 2..Len(q) /\ Tail(q)[k] = q[k + 1]
  OBVIOUS
<1>4. ASSUME NEW x, Queued(q, x), Head(q) # x
      PROVE  Queued(Tail(q), x)
  <2>1. PICK k \in 1..Len(q) : q[k] = x
    BY <1>4 DEF Queued
  <2>2. k - 1 \in 1..Len(Tail(q))
    BY <1>1, <1>2, <1>4, <2>1
  <2>3. Tail(q)[k - 1] = x
    BY <1>3, <2>1, <2>2
  <2> QED
    BY <2>2, <2>3 DEF Queued
<1>5. \A x : Queued(Tail(q), x) => Queued(q, x)
  BY <1>1, <1>3 DEF Queued
<1>6. ASSUME NoDuplicates(q)
      PROVE  NoDuplicates(Tail(q)) /\ ~Queued(Tail(q), Head(q))
  <2>1. NoDuplicates(Tail(q))
    BY <1>1, <1>3, <1>6 DEF NoDuplicates
  <2>2. ~Queued(Tail(q), Head(q))
    BY <1>1, <1>2, <1>3, <1>6 DEF NoDuplicates, Queued
  <2> QED
    BY <2>1, <2>2
<1>7. Queued(q, Head(q))
  BY <1>1, <1>2 DEF Queued
<1> QED
  BY <1>1, <1>4, <1>5, <1>6, <1>7

(* The same, with the queue and the event quantified, for citing.          *)
LEMMA EnqueueType ==
    \A q \in Seq(Events), e \in Events :
        /\ enqueueEvent(q, e) \in Seq(Events)
        /\ e # ArmModeEvent
               => (Queued(enqueueEvent(q, e), ArmModeEvent) <=> Queued(q, ArmModeEvent))
        /\ NoDuplicates(q) => NoDuplicates(enqueueEvent(q, e))
  BY EnqueueKeeps

(* The events each operation enqueues are events of the queue.             *)
LEMMA EventTypes ==
    /\ ArmModeEvent \in Events
    /\ \A p \in Parameter, m \in ArmMode, n \in Nat : ConfigEvent(p, m, n) \in Events
    /\ \A st \in PanelStatus : ArmStateEvent(st) \in Events
    /\ \A n \in Nat : SecondsEvent(n) \in Events
    /\ \A d \in Device : SensorEvent(d) \in Events
    /\ \A k \in Keypad, n \in Nat : ActionEvent(k, n) \in Events
    /\ \A mask \in SUBSET ArmedMode : DeviceAlarm(mask) \in Events
  BY DEF Events, ArmModeEvent, ConfigEvent, ArmStateEvent, SecondsEvent, SensorEvent,
         ActionEvent, DeviceAlarm

(* No other event is taken for a change of the arm mode.                   *)
LEMMA ArmModeEventDiffers ==
    /\ \A p, m, n : ConfigEvent(p, m, n) # ArmModeEvent
    /\ \A st : ArmStateEvent(st) # ArmModeEvent
    /\ \A n : SecondsEvent(n) # ArmModeEvent
    /\ \A d : SensorEvent(d) # ArmModeEvent
    /\ \A k, n : ActionEvent(k, n) # ArmModeEvent
    /\ \A mask : DeviceAlarm(mask) # ArmModeEvent
  BY DEF ArmModeEvent, ConfigEvent, ArmStateEvent, SecondsEvent, SensorEvent,
         ActionEvent, DeviceAlarm

(* Sensor and keypad events name a device.                                 *)
LEMMA DeviceOfEvent ==
    ASSUME NEW e \in Events, e[1] \in {"sensor", "action"}
    PROVE  e[2] \in Device
  BY DEF Events, ArmModeEvent

(* A panel status is computed from a state and a target.                   *)
LEMMA PanelStatusType ==
    ASSUME armState \in PanelStatus, NEW st, NEW target
    PROVE  panelStatus(st, target) \in PanelStatus
  BY DEF panelStatus, PanelStatus, Arming, ArmedMode, ArmMode

(* setSecondsRemaining() and setState() set both items and lose no event.  *)
LEMMA SetSecondsAndStateKeeps ==
    ASSUME armState \in PanelStatus,
           NEW q \in Seq(Events), NEW push \in SUBSET (StateItem \cup ConfigItem),
           NEW secs \in Nat, NEW st, NEW target,
           SetSecondsAndState(q, push, secs, st, target)
    PROVE  /\ curState' = st
           /\ seconds' = secs
           /\ armState' = panelStatus(st, target)
           /\ armState' \in PanelStatus
           /\ queue' \in Seq(Events)
           /\ needPush' \subseteq StateItem \cup ConfigItem
           /\ Queued(queue', ArmModeEvent) <=> Queued(q, ArmModeEvent)
           /\ NoDuplicates(q) => NoDuplicates(queue')
<1> DEFINE status == panelStatus(st, target)
           q1 == IF secs # seconds THEN enqueueEvent(q, SecondsEvent(secs)) ELSE q
<1>1. status \in PanelStatus
  BY PanelStatusType
<1>2. /\ q1 \in Seq(Events)
      /\ Queued(q1, ArmModeEvent) <=> Queued(q, ArmModeEvent)
      /\ NoDuplicates(q) => NoDuplicates(q1)
  <2>1. SecondsEvent(secs) \in Events /\ SecondsEvent(secs) # ArmModeEvent
    BY EventTypes, ArmModeEventDiffers
  <2> QED
    BY <2>1, EnqueueKeeps
<1>3. /\ curState' = st
      /\ seconds' = secs
      /\ armState' = status
      /\ queue' = IF status # armState THEN enqueueEvent(q1, ArmStateEvent(status)) ELSE q1
      /\ needPush' \subseteq StateItem \cup ConfigItem
  BY DEF SetSecondsAndState
<1>4. ArmStateEvent(status) \in Events /\ ArmStateEvent(status) # ArmModeEvent
  BY <1>1, EventTypes, ArmModeEventDiffers
<1> HIDE DEF status, q1
<1>5. /\ queue' \in Seq(Events)
      /\ Queued(queue', ArmModeEvent) <=> Queued(q1, ArmModeEvent)
      /\ NoDuplicates(q1) => NoDuplicates(queue')
  BY <1>2, <1>3, <1>4, EnqueueKeeps
<1> QED
  BY <1>1, <1>2, <1>3, <1>5 DEF status

-----------------------------------------------------------------------------
(* The two outcomes of elapsed(): the delay is over, or seconds remain.    *)
LEMMA RemainingType ==
    ASSUME NEW delay \in Nat, NEW sec \in Nat, NEW late \in BOOLEAN,
           ~elapsed(delay, sec, late)
    PROVE  remaining(delay, sec, late) \in 0..delay
<1>1. CASE late
  BY <1>1 DEF elapsed, remaining
<1>2. CASE ~late
  BY <1>2 DEF elapsed, remaining
<1> QED
  BY <1>1, <1>2

(* The durations read from a configuration are natural numbers.            *)
LEMMA DelayType ==
    ASSUME NEW cfg \in Delays, NEW m \in ArmMode
    PROVE  /\ cfg["exit_delay"][m] \in Nat
           /\ cfg["entry_delay"][m] \in Nat
           /\ cfg["trigger_duration"][m] \in Nat
           /\ cfg[triggerParameter(m)][m] \in Nat
           /\ targetArmMask(m) \in SUBSET ArmedMode
<1>1. \A p \in Parameter : cfg[p][m] \in Nat
  BY DEF Delays
<1>2. triggerParameter(m) \in Parameter
  BY DEF triggerParameter, Parameter
<1>3. "exit_delay" \in Parameter /\ "entry_delay" \in Parameter
      /\ "trigger_duration" \in Parameter
  BY DEF Parameter
<1>4. targetArmMask(m) \in SUBSET ArmedMode
  BY DEF targetArmMask, ArmedMode
<1> QED
  BY <1>1, <1>2, <1>3, <1>4

(* The part of the type invariant that timerFired() and handleEvent() can  *)
(* disturb, and the rest, of which the store.                                                  *)
MachineType ==
    /\ curState \in State
    /\ targetState \in ArmMode
    /\ exitDelay \in Nat
    /\ entryDelay \in Nat
    /\ triggerDuration \in Nat
    /\ armMask \in SUBSET ArmedMode
    /\ timer \in BOOLEAN
    /\ dt \in Nat
    /\ armState \in PanelStatus
    /\ seconds \in Nat
    /\ needPush \subseteq StateItem \cup ConfigItem
    /\ queue \in Seq(Events)

OtherType ==
    /\ armMode \in ArmMode
    /\ config \in Delays
    /\ table \in [Device -> Entry]
    /\ keypad \in [Keypad -> PanelStatus \X Nat]
    /\ DOMAIN pushed = {"state", "config"}
    /\ dbOpen \in BOOLEAN
    /\ autocommit \in BOOLEAN
    /\ db \in Database
    /\ disk \in Database
    /\ lost \in [Row -> Fate]
    /\ acked \in ArmMode
    /\ mirrored \subseteq Keypad

StoreType ==
    /\ dbOpen \in BOOLEAN
    /\ autocommit \in BOOLEAN
    /\ db \in Database
    /\ disk \in Database
    /\ lost \in [Row -> Fate]

(* Splitting the types keeps the obligations of each part small.           *)
LEMMA TypeParts == TypeOK <=> MachineType /\ OtherType
  BY DEF TypeOK, MachineType, OtherType

(* The initial state is well typed.                                        *)
LEMMA InitType == Init => TypeOK
<1> SUFFICES ASSUME Init PROVE TypeOK
  OBVIOUS
<1>1. "disarmed" \in ArmMode
  BY DEF ArmMode
<1>2. DefaultDelay["exit_delay"]["disarmed"] \in Nat
      /\ DefaultDelay["entry_delay"]["disarmed"] \in Nat
  BY <1>1, DelayType
<1>3. queue \in Seq(Events)
  BY EmptySeq DEF Init
<1>4. MachineType
  BY <1>1, <1>2, <1>3 DEF Init, MachineType, State, PanelStatus
<1>5. keypad \in [Keypad -> PanelStatus \X Nat]
  BY DEF Init, PanelStatus
<1>6. table \in [Device -> Entry] /\ DOMAIN pushed = {"state", "config"}
  BY DEF Init, Entry
<1>7. StoreType
  BY <1>1 DEF Init, Entry, StoreType, Database, Fate
<1>8. OtherType
  BY <1>1, <1>5, <1>6, <1>7 DEF Init, OtherType, StoreType
<1> QED
  BY <1>4, <1>8, TypeParts

(* timerFired() keeps the machine's types; nothing else changes.           *)
LEMMA TimerType ==
    ASSUME TypeOK, NEW step \in 1..MaxStep, NEW late \in BOOLEAN,
           timerFired(step, late)
    PROVE  TypeOK'
<1> DEFINE sec == dt + step
<1>1. sec \in Nat
  BY DEF TypeOK
<1>2. MachineType /\ OtherType
  BY TypeParts
<1>3. OtherType'
  BY <1>2 DEF timerFired, OtherType, clients, store
<1>4. UNCHANGED <<targetState, exitDelay, entryDelay, triggerDuration, armMask>>
  BY DEF timerFired
<1> HIDE DEF sec
<1>5. ASSUME NEW st \in State, NEW secs \in Nat,
             SetSecondsAndState(queue, needPush, secs, st, targetState)
      PROVE  /\ curState' \in State
             /\ seconds' \in Nat
             /\ armState' \in PanelStatus
             /\ queue' \in Seq(Events)
             /\ needPush' \subseteq StateItem \cup ConfigItem
  BY <1>2, <1>5, SetSecondsAndStateKeeps DEF MachineType
<1>6. ASSUME stateExitDelay(sec, late) PROVE MachineType'
  <2>1. CASE elapsed(exitDelay, sec, late)
    <3>1. stateAfterExit \in State
      BY DEF stateAfterExit, State
    <3>2. SetSecondsAndState(queue, needPush, 0, stateAfterExit, targetState)
      BY <1>6, <2>1 DEF stateExitDelay
    <3>3. timer' \in BOOLEAN /\ dt' \in Nat
      <4>1. startStateTimer \/ stopTimer
        BY <1>6, <2>1 DEF stateExitDelay
      <4>2. timer' \in BOOLEAN
        BY <4>1 DEF startStateTimer, stopTimer
      <4>3. dt' = 0
        BY <4>1 DEF startStateTimer, stopTimer
      <4> QED
        BY <4>2, <4>3
    <3> QED
      BY <1>2, <1>4, <1>5, <3>1, <3>2, <3>3 DEF MachineType
  <2>2. CASE ~elapsed(exitDelay, sec, late)
    <3>1. remaining(exitDelay, sec, late) \in Nat
      BY <1>1, <1>2, <2>2, RemainingType DEF MachineType
    <3>2. SetSecondsAndState(queue, needPush, remaining(exitDelay, sec, late),
                             curState, targetState)
      BY <1>6, <2>2 DEF stateExitDelay
    <3>3. timer' \in BOOLEAN /\ dt' \in Nat
      BY <1>1, <1>2, <1>6, <2>2 DEF stateExitDelay, MachineType
    <3> QED
      BY <1>2, <1>4, <1>5, <3>1, <3>2, <3>3 DEF MachineType
  <2> QED
    BY <2>1, <2>2
<1>7. ASSUME stateEntryDelay(sec, late) PROVE MachineType'
  <2>1. CASE elapsed(entryDelay, sec, late)
    <3>1. "InAlarm" \in State
      BY DEF State
    <3>2. SetSecondsAndState(queue, needPush, 0, "InAlarm", targetState)
      BY <1>7, <2>1 DEF stateEntryDelay
    <3>3. timer' \in BOOLEAN /\ dt' \in Nat
      BY <1>7, <2>1 DEF stateEntryDelay, startStateTimer
    <3> QED
      BY <1>2, <1>4, <1>5, <3>1, <3>2, <3>3 DEF MachineType
  <2>2. CASE ~elapsed(entryDelay, sec, late)
    <3>1. remaining(entryDelay, sec, late) \in Nat
      BY <1>1, <1>2, <2>2, RemainingType DEF MachineType
    <3>2. SetSecondsAndState(queue, needPush, remaining(entryDelay, sec, late),
                             curState, targetState)
      BY <1>7, <2>2 DEF stateEntryDelay
    <3>3. timer' \in BOOLEAN /\ dt' \in Nat
      BY <1>1, <1>2, <1>7, <2>2 DEF stateEntryDelay, MachineType
    <3> QED
      BY <1>2, <1>4, <1>5, <3>1, <3>2, <3>3 DEF MachineType
  <2> QED
    BY <2>1, <2>2
<1>8. ASSUME SetSecondsAndState(queue, needPush, seconds, "Armed", targetState), stopTimer
      PROVE  MachineType'
  <2>1. "Armed" \in State
    BY DEF State
  <2>2. timer' \in BOOLEAN /\ dt' \in Nat
    BY <1>8 DEF stopTimer
  <2> QED
    BY <1>2, <1>4, <1>5, <1>8, <2>1, <2>2 DEF MachineType
<1>9. ASSUME stateInAlarm(sec, late) PROVE MachineType'
  <2>1. CASE elapsed(triggerDuration, sec, late)
    BY <1>8, <1>9, <2>1 DEF stateInAlarm
  <2>2. CASE ~elapsed(triggerDuration, sec, late)
    BY <1>1, <1>2, <1>4, <1>9, <2>2 DEF stateInAlarm, MachineType
  <2> QED
    BY <2>1, <2>2
<1>10. ASSUME stateArming PROVE MachineType'
  BY <1>8, <1>10 DEF stateArming
<1>11. ASSUME UNCHANGED <<curState, timer, dt, seconds, armState, needPush, queue>>
       PROVE  MachineType'
  BY <1>2, <1>4, <1>11 DEF MachineType
<1>12. MachineType'
  BY <1>6, <1>7, <1>9, <1>10, <1>11 DEF timerFired, sec
<1> QED
  BY <1>3, <1>12 DEF TypeOK, MachineType, OtherType

-----------------------------------------------------------------------------
(* The notification of an event keeps the types.                           *)
LEMMA HandleEventType ==
    ASSUME TypeOK, handleEvent
    PROVE  TypeOK'
<1>1. MachineType /\ OtherType
  BY TypeParts
<1>2. Tail(queue) \in Seq(Events) /\ Head(queue) \in Events
  BY <1>1, TailKeeps DEF handleEvent, MachineType
<1>3. \A item : flagsAfterPush(item) \in SUBSET (StateItem \cup ConfigItem)
  BY <1>1 DEF flagsAfterPush, MachineType
<1>4. ASSUME NEW item, pushEventToWebsocket(item)
      PROVE  DOMAIN pushed' = {"state", "config"}
  BY <1>4 DEF pushEventToWebsocket
<1>5. secondsRemaining \in Nat
  BY <1>1 DEF secondsRemaining, MachineType
<1>6. ASSUME handleArmModeEvent PROVE TypeOK'
  <2>1. OtherType'
    BY <1>1, <1>4, <1>6 DEF handleArmModeEvent, OtherType, store
  <2>2. /\ targetState' \in ArmMode
        /\ exitDelay' \in Nat
        /\ entryDelay' \in Nat
        /\ triggerDuration' \in Nat
        /\ armMask' \in SUBSET ArmedMode
    BY <1>1, <1>6, DelayType DEF handleArmModeEvent, updateTargetStateValues, OtherType
  <2>3. CASE armMode = targetState
    <3>1. queue' = Tail(queue) /\ needPush' = flagsAfterPush(<<"armmode">>)
          /\ UNCHANGED <<curState, timer, dt, seconds, armState>>
      BY <1>6, <2>3 DEF handleArmModeEvent
    <3> QED
      BY <1>1, <1>2, <1>3, <2>1, <2>2, <3>1 DEF TypeOK, MachineType, OtherType
  <2>4. CASE armMode # targetState
    <3>1. /\ SetSecondsAndState(Tail(queue), flagsAfterPush(<<"armmode">>),
                                config["exit_delay"][armMode], "ExitDelay", armMode)
          /\ startStateTimer
      BY <1>6, <2>4 DEF handleArmModeEvent
    <3>2. config["exit_delay"][armMode] \in Nat
      BY <1>1, DelayType DEF OtherType
    <3>3. /\ curState' = "ExitDelay"
          /\ seconds' \in Nat
          /\ armState' \in PanelStatus
          /\ queue' \in Seq(Events)
          /\ needPush' \subseteq StateItem \cup ConfigItem
      BY <1>1, <1>2, <1>3, <3>1, <3>2, SetSecondsAndStateKeeps DEF MachineType
    <3>4. timer' \in BOOLEAN /\ dt' \in Nat
      BY <3>1 DEF startStateTimer
    <3> QED
      BY <2>1, <2>2, <3>3, <3>4 DEF TypeOK, OtherType, State
  <2> QED
    BY <2>3, <2>4
<1>7. ASSUME handleDeviceAlarm PROVE TypeOK'
  <2>1. OtherType'
    BY <1>1, <1>7 DEF handleDeviceAlarm, OtherType, store, clients
  <2>2. UNCHANGED <<targetState, exitDelay, entryDelay, triggerDuration, armMask>>
    BY <1>7 DEF handleDeviceAlarm
  <2>3. CASE curState = "Armed" /\ Head(queue)[2] \cap armMask # {}
    <3>1. /\ SetSecondsAndState(Tail(queue), needPush, entryDelay, "EntryDelay", targetState)
          /\ startStateTimer
      BY <1>7, <2>3 DEF handleDeviceAlarm
    <3>2. /\ curState' = "EntryDelay"
          /\ seconds' \in Nat
          /\ armState' \in PanelStatus
          /\ queue' \in Seq(Events)
          /\ needPush' \subseteq StateItem \cup ConfigItem
      BY <1>1, <1>2, <3>1, SetSecondsAndStateKeeps DEF MachineType
    <3>3. timer' \in BOOLEAN /\ dt' \in Nat
      BY <3>1 DEF startStateTimer
    <3> QED
      BY <1>1, <2>1, <2>2, <3>2, <3>3 DEF TypeOK, MachineType, OtherType, State
  <2>4. CASE ~(curState = "Armed" /\ Head(queue)[2] \cap armMask # {})
    <3>1. /\ queue' = Tail(queue)
          /\ UNCHANGED <<curState, timer, dt, seconds, armState, needPush>>
      BY <1>7, <2>4 DEF handleDeviceAlarm
    <3> QED
      BY <1>1, <1>2, <2>1, <2>2, <3>1 DEF TypeOK, MachineType, OtherType
  <2> QED
    BY <2>3, <2>4
<1>8. ASSUME handleStateEvent PROVE TypeOK'
  <2>1. MachineType'
    BY <1>1, <1>2, <1>3, <1>8 DEF handleStateEvent, MachineType, machine
  <2>2. keypad' \in [Keypad -> PanelStatus \X Nat] /\ mirrored' \subseteq Keypad
    BY <1>1, <1>5, <1>8
    DEF handleStateEvent, mirrorKeypadAlarmSystemState, MachineType, OtherType
  <2>3. DOMAIN pushed' = {"state", "config"}
    BY <1>4, <1>8 DEF handleStateEvent
  <2>4. UNCHANGED <<armMode, config, store, table, acked>>
    BY <1>8 DEF handleStateEvent, store
  <2> QED
    BY <1>1, <2>1, <2>2, <2>3, <2>4 DEF TypeOK, MachineType, OtherType, store
<1>9. ASSUME handleConfigEvent PROVE TypeOK'
  <2>1. MachineType'
    BY <1>1, <1>2, <1>3, <1>9 DEF handleConfigEvent, MachineType, machine
  <2>2. DOMAIN pushed' = {"state", "config"}
    BY <1>4, <1>9 DEF handleConfigEvent
  <2>3. UNCHANGED <<armMode, config, keypad, mirrored, store, table, acked>>
    BY <1>9 DEF handleConfigEvent, store
  <2> QED
    BY <1>1, <2>1, <2>2, <2>3 DEF TypeOK, MachineType, OtherType, store
<1>10. ASSUME AS_HandleAlarmSystemDeviceEvent PROVE TypeOK'
  <2>1. queue' \in Seq(Events)
    <3>1. CASE isAlarmSystemDeviceEvent(Head(queue)) /\ table[Head(queue)[2]] # NoEntry
      <4>1. queue' = enqueueEvent(Tail(queue), DeviceAlarm(table[Head(queue)[2]]))
        BY <1>10, <3>1 DEF AS_HandleAlarmSystemDeviceEvent
      <4>2. Head(queue)[2] \in Device
        BY <1>2, <1>10, DeviceOfEvent DEF AS_HandleAlarmSystemDeviceEvent
      <4>3. table[Head(queue)[2]] \in SUBSET ArmedMode
        BY <1>1, <3>1, <4>2 DEF OtherType, Entry
      <4>4. DeviceAlarm(table[Head(queue)[2]]) \in Events
        BY <4>3, EventTypes
      <4> QED
        BY <1>2, <4>1, <4>4, EnqueueType
    <3>2. CASE ~(isAlarmSystemDeviceEvent(Head(queue)) /\ table[Head(queue)[2]] # NoEntry)
      BY <1>2, <1>10, <3>2 DEF AS_HandleAlarmSystemDeviceEvent
    <3> QED
      BY <3>1, <3>2
  <2>2. UNCHANGED <<machine, items, clients, store, table, acked>>
    BY <1>10 DEF AS_HandleAlarmSystemDeviceEvent
  <2> QED
    BY <1>1, <2>1, <2>2
    DEF TypeOK, MachineType, OtherType, machine, items, clients, store
<1> QED
  BY <1>6, <1>7, <1>8, <1>9, <1>10 DEF handleEvent

-----------------------------------------------------------------------------
(* Rows, and what a statement does to the database.                        *)
LEMMA RowsAre ==
    /\ ModeRow \in Row
    /\ \A p \in Parameter, m \in ArmMode : ConfigRow(p, m) \in Row
    /\ \A d \in Device : DeviceRow(d) \in Row
BY DEF Row, ModeRow, ConfigRow, DeviceRow

LEMMA StoresType ==
    ASSUME StoreType, NEW row \in Row, NEW new \in Database, stores(row, new)
    PROVE  StoreType'
<1>1. PICK fate \in Fate : executes(new, fate) /\ lost' = [lost EXCEPT ![row] = fate]
  BY DEF stores
<1>2. db' \in Database /\ disk' \in Database /\ UNCHANGED <<dbOpen, autocommit>>
  BY <1>1 DEF executes, StoreType
<1> QED
  BY <1>1, <1>2 DEF StoreType

-----------------------------------------------------------------------------
(* Requests, commands, reports and restarts keep the types.                *)
LEMMA InputType ==
    ASSUME TypeOK, Input
    PROVE  TypeOK'
<1>1. MachineType /\ OtherType
  BY TypeParts
<1>2. ASSUME NEW call \in BOOLEAN, NEW mode \in ArmMode, setTargetArmMode(call, mode)
      PROVE  /\ armMode' \in ArmMode
             /\ needPush' \subseteq StateItem \cup ConfigItem
             /\ StoreType'
             /\ acked' \in ArmMode
             /\ armModeQueue(call, mode) \in Seq(Events)
  <2>1. armMode' \in ArmMode /\ acked' \in ArmMode
    BY <1>1, <1>2 DEF setTargetArmMode, OtherType
  <2>2. needPush' \subseteq StateItem \cup ConfigItem
    BY <1>1, <1>2 DEF setTargetArmMode, MachineType, ConfigItem
  <2>3. StoreType'
    <3>1. StoreType /\ [db EXCEPT !.mode = mode] \in Database /\ ModeRow \in Row
      BY <1>1, RowsAre DEF OtherType, StoreType, Database
    <3>2. stores(ModeRow, [db EXCEPT !.mode = mode]) \/ UNCHANGED store
      BY <1>2 DEF setTargetArmMode
    <3>3. CASE UNCHANGED store
      BY <3>1, <3>3 DEF store, StoreType
    <3> QED
      BY <3>1, <3>2, <3>3, StoresType
  <2>4. armModeQueue(call, mode) \in Seq(Events)
    BY <1>1, EventTypes, EnqueueKeeps DEF armModeQueue, MachineType
  <2> QED
    BY <2>1, <2>2, <2>3, <2>4
<1>3. ASSUME NEW mode \in RequestMode, NEW code \in Code, putAlarmSystemArmMode(mode, code)
      PROVE  TypeOK'
  <2>1. /\ setTargetArmMode(TRUE, mode)
        /\ queue' = armModeQueue(TRUE, mode)
        /\ UNCHANGED <<machine, armState, seconds, config, clients, table>>
    BY <1>3 DEF putAlarmSystemArmMode
  <2> QED
    BY <1>1, <1>2, <2>1 DEF TypeOK, MachineType, OtherType, StoreType, machine, clients
<1>4. ASSUME NEW k \in Keypad, NEW mode \in RequestMode, NEW code \in Code,
             handleArmCommand(k, mode, code)
      PROVE  TypeOK'
  <2>1. PICK accepted \in BOOLEAN :
            /\ setTargetArmMode(accepted, mode)
            /\ queue' = enqueueEvent(armModeQueue(accepted, mode),
                                     ActionEvent(k, ModeNumber[mode]))
            /\ UNCHANGED <<machine, armState, seconds, config, clients, table>>
    BY <1>4 DEF handleArmCommand
  <2>2. ModeNumber[mode] \in Nat
    BY DEF ModeNumber, ArmMode
  <2>3. ActionEvent(k, ModeNumber[mode]) \in Events
    BY <2>2, EventTypes
  <2>4. armModeQueue(accepted, mode) \in Seq(Events)
    BY <1>2, <2>1
  <2>5. queue' \in Seq(Events)
    BY <2>1, <2>3, <2>4, EnqueueKeeps
  <2> QED
    BY <1>1, <1>2, <2>1, <2>5
    DEF TypeOK, MachineType, OtherType, StoreType, machine, clients
<1>5. ASSUME NEW k \in Keypad, NEW n \in Command, emergencyCommand(k, n)
      PROVE  TypeOK'
  <2>1. n \in Nat
    BY DEF Emergency, Panic
  <2>2. queue' \in Seq(Events)
    BY <1>1, <1>5, <2>1, EventTypes, EnqueueKeeps DEF emergencyCommand, MachineType
  <2> QED
    BY <1>1, <1>5, <2>2
    DEF emergencyCommand, TypeOK, MachineType, OtherType, machine, items, clients, store
<1>6. ASSUME NEW d \in Device \ Keypad, sensorReports(d)
      PROVE  TypeOK'
  <2>1. queue' \in Seq(Events)
    BY <1>1, <1>6, EventTypes, EnqueueKeeps DEF sensorReports, MachineType
  <2> QED
    BY <1>1, <1>6, <2>1
    DEF sensorReports, TypeOK, MachineType, OtherType, machine, items, clients, store
<1>7. ASSUME NEW c \in ConfigChange, putAlarmSystemConfig(c[1], c[2], c[3])
      PROVE  TypeOK'
  <2>1. c[1] \in Parameter /\ c[2] \in ArmMode /\ c[3] \in Nat
    OBVIOUS
  <2>2. queue' \in Seq(Events)
    BY <1>1, <1>7, <2>1, EventTypes, EnqueueKeeps DEF putAlarmSystemConfig, MachineType
  <2>3. needPush' \subseteq StateItem \cup ConfigItem
    BY <1>1, <1>7, <2>1 DEF putAlarmSystemConfig, MachineType, ConfigItem
  <2>4. config' \in Delays
    BY <1>1, <1>7, <2>1 DEF putAlarmSystemConfig, OtherType, Delays
  <2>5. StoreType'
    <3>1. /\ StoreType
          /\ [db EXCEPT !.config[c[1]][c[2]] = c[3]] \in Database
          /\ ConfigRow(c[1], c[2]) \in Row
      BY <1>1, <2>1, RowsAre DEF OtherType, StoreType, Database, Delays
    <3>2. stores(ConfigRow(c[1], c[2]), [db EXCEPT !.config[c[1]][c[2]] = c[3]])
      BY <1>7 DEF putAlarmSystemConfig
    <3> QED
      BY <3>1, <3>2, StoresType
  <2> QED
    BY <1>1, <1>7, <2>2, <2>3, <2>4, <2>5
    DEF putAlarmSystemConfig, TypeOK, MachineType, OtherType, StoreType, machine, clients
<1>8. ASSUME NEW code \in Code, setCode(code)
      PROVE  TypeOK'
  <2>1. db \in Database /\ disk \in Database /\ [db EXCEPT !.code = code] \in Database
    BY <1>1 DEF OtherType, Database
  <2>2. db' \in Database /\ disk' \in Database /\ UNCHANGED <<lost, dbOpen, autocommit>>
    BY <1>8, <2>1 DEF setCode, executes
  <2>3. OtherType'
    BY <1>1, <1>8, <2>2 DEF setCode, OtherType, items, clients
  <2> QED
    BY <1>1, <1>8, <2>3 DEF setCode, TypeOK, MachineType, OtherType, machine, items
<1>9. ASSUME NEW d \in Device, NEW mask \in Mask, put(d, mask)
      PROVE  TypeOK'
  <2>1. mask \in Entry
    BY DEF Entry
  <2>2. StoreType'
    <3>1. StoreType /\ [db EXCEPT !.table[d] = mask] \in Database /\ DeviceRow(d) \in Row
      BY <1>1, <2>1, RowsAre DEF OtherType, StoreType, Database
    <3>2. stores(DeviceRow(d), [db EXCEPT !.table[d] = mask]) \/ UNCHANGED store
      BY <1>9 DEF put
    <3>3. CASE UNCHANGED store
      BY <3>1, <3>3 DEF store, StoreType
    <3> QED
      BY <3>1, <3>2, <3>3, StoresType
  <2>3. OtherType'
    BY <1>1, <1>9, <2>1, <2>2 DEF put, OtherType, StoreType, items
  <2> QED
    BY <1>1, <1>9, <2>3 DEF put, TypeOK, MachineType, OtherType, machine, items
<1>10. ASSUME NEW d \in Device, erase(d)
       PROVE  TypeOK'
  <2>1. NoEntry \in Entry
    BY DEF Entry
  <2>2. StoreType'
    <3>1. StoreType /\ [db EXCEPT !.table[d] = NoEntry] \in Database
      BY <1>1, <2>1 DEF OtherType, StoreType, Database
    <3>2. db' \in Database /\ disk' \in Database /\ UNCHANGED <<dbOpen, autocommit>>
      BY <1>10, <3>1 DEF erase, executes, StoreType
    <3>3. lost' \in [Row -> Fate]
      BY <1>10, <3>1 DEF erase, StoreType, Fate
    <3> QED
      BY <3>1, <3>2, <3>3 DEF StoreType
  <2>3. OtherType'
    BY <1>1, <1>10, <2>1, <2>2 DEF erase, OtherType, StoreType, items, clients
  <2> QED
    BY <1>1, <1>10, <2>3 DEF erase, TypeOK, MachineType, OtherType, machine, items
<1>11. ASSUME commitRefused \/ committed \/ closeDb \/ openDb
       PROVE  TypeOK'
  <2>1. StoreType'
    <3>1. StoreType
      BY <1>1 DEF OtherType, StoreType
    <3>2. CASE commitRefused
      BY <3>1, <3>2 DEF commitRefused, StoreType
    <3>3. CASE committed
      BY <3>1, <3>3 DEF committed, StoreType
    <3>4. CASE closeDb
      BY <3>1, <3>4 DEF closeDb, StoreType, Fate
    <3>5. CASE openDb
      BY <3>1, <3>5 DEF openDb, StoreType
    <3> QED
      BY <1>11, <3>2, <3>3, <3>4, <3>5
  <2>2. UNCHANGED <<machine, items, clients, queue, table, acked>>
    BY <1>11 DEF commitRefused, committed, closeDb, openDb
  <2> QED
    BY <1>1, <2>1, <2>2
    DEF TypeOK, MachineType, OtherType, StoreType, machine, items, clients
<1>12. ASSUME Restart
       PROVE  TypeOK'
  <2>1. disk.mode \in ArmMode /\ disk.config \in Delays /\ disk.table \in [Device -> Entry]
    BY <1>1 DEF OtherType, Database
  <2>2. /\ targetState' \in ArmMode
        /\ exitDelay' \in Nat
        /\ entryDelay' \in Nat
        /\ triggerDuration' \in Nat
        /\ armMask' \in SUBSET ArmedMode
    BY <1>12, <2>1, DelayType DEF Restart
  <2>3. curState' \in State /\ needPush' \subseteq StateItem \cup ConfigItem
    BY <1>12 DEF Restart, State
  <2>4. timer' \in BOOLEAN /\ dt' \in Nat /\ seconds' \in Nat
    BY <1>12 DEF Restart, stopTimer
  <2>5. armState' \in PanelStatus
    BY <1>1, <1>12, PanelStatusType DEF Restart, MachineType
  <2>6. queue' \in Seq(Events)
    <3>1. queue' = <<ArmStateEvent(armState')>>
      BY <1>12 DEF Restart
    <3>2. ArmStateEvent(armState') \in Events
      BY <2>5, EventTypes
    <3> QED
      BY <3>1, <3>2
  <2>7. OtherType'
    BY <1>1, <1>12, <2>1 DEF Restart, OtherType, Fate
  <2> QED
    BY <2>2, <2>3, <2>4, <2>5, <2>6, <2>7 DEF TypeOK, OtherType
<1> QED
  BY <1>3, <1>4, <1>5, <1>6, <1>7, <1>8, <1>9, <1>10, <1>11, <1>12 DEF Input

(* The alarm system, its devices, its queue and its store stay well typed: *)
(* no countdown of timerFired() wraps below zero, and whatever is stored   *)
(* can be loaded by the next start.                                        *)
THEOREM AlarmTypeCorrect == Spec => []TypeOK
<1>1. Init => TypeOK
  BY InitType
<1>2. TypeOK /\ [Next]_vars => TypeOK'
  <2> SUFFICES ASSUME TypeOK, [Next]_vars PROVE TypeOK'
    OBVIOUS
  <2>1. CASE TimerStep
    BY <2>1, TimerType DEF TimerStep
  <2>2. CASE UNCHANGED vars
    BY <2>2 DEF vars, machine, items, clients, store, TypeOK
  <2> QED
    BY <2>1, <2>2, HandleEventType, InputType DEF Next
<1> QED
  BY <1>1, <1>2, PTL DEF Spec

-----------------------------------------------------------------------------
(* The panel status of each state, once there is a mode to arm.            *)
LEMMA PanelStatusOf ==
    /\ \A target : panelStatus("Disarmed", target) = "disarmed"
    /\ \A target : panelStatus("ExitDelay", target) = "exit_delay"
    /\ \A target : panelStatus("EntryDelay", target) = "entry_delay"
    /\ \A target : panelStatus("InAlarm", target) = "in_alarm"
    /\ \A target \in ArmedMode : panelStatus("Armed", target) = target
    /\ \A target \in ArmedMode : panelStatus("Arming", target) = Arming[target]
  BY DEF panelStatus

(* The state, its target, its timer and what it shows agree.               *)
MachineInv ==
    StateMatchesTarget /\ TimerMatchesState /\ PanelShowsState /\ CountdownBounded

(* The conjuncts of MachineInv that setSecondsRemaining() and setState()   *)
(* establish for the state they enter.                                     *)
LEMMA StateEntered ==
    ASSUME NEW st \in State, NEW target \in ArmMode, NEW secs \in Nat,
           curState' = st,
           seconds' = secs,
           armState' = panelStatus(st, target),
           targetState' = target,
           armMask' = targetArmMask(target),
           timer' \in BOOLEAN,
           timer' <=> st \in {"ExitDelay", "EntryDelay", "InAlarm", "Arming"},
           st = "Disarmed" => target = "disarmed",
           st \notin {"Disarmed", "ExitDelay"} => target # "disarmed",
           st = "ExitDelay" => secs <= exitDelay',
           st = "EntryDelay" => secs <= entryDelay',
           st \notin {"ExitDelay", "EntryDelay"} => secs = 0
    PROVE  MachineInv'
<1>1. StateMatchesTarget'
  BY DEF StateMatchesTarget, State
<1>2. TimerMatchesState'
  BY DEF TimerMatchesState
<1>3. CountdownBounded'
  BY DEF CountdownBounded
<1>4. PanelShowsState'
  <2>1. CASE st \in {"Disarmed", "ExitDelay", "EntryDelay", "InAlarm"}
    BY <2>1, PanelStatusOf DEF PanelShowsState, ArmedMode, ArmMode
  <2>2. CASE st \in {"Armed", "Arming"}
    <3>1. target \in ArmedMode
      BY <2>2 DEF ArmedMode
    <3>2. armState' = IF st = "Armed" THEN target ELSE Arming[target]
      BY <2>2, <3>1, PanelStatusOf
    <3> QED
      BY <2>2, <3>1, <3>2 DEF PanelShowsState, ArmedMode, ArmMode, Arming
  <2> QED
    BY <2>1, <2>2 DEF State
<1> QED
  BY <1>1, <1>2, <1>3, <1>4 DEF MachineInv

(* What a step leaves alone when it does not concern the state machine.    *)
LEMMA MachineUnchanged ==
    ASSUME MachineInv, UNCHANGED <<machine, armState, seconds>>
    PROVE  MachineInv'
  BY DEF MachineInv, StateMatchesTarget, TimerMatchesState, PanelShowsState,
         CountdownBounded, machine

(* timerFired() keeps MachineInv.                                          *)
LEMMA TimerMachine ==
    ASSUME TypeOK, MachineInv, NEW step \in 1..MaxStep, NEW late \in BOOLEAN,
           timerFired(step, late)
    PROVE  MachineInv'
<1> DEFINE sec == dt + step
<1>1. sec \in Nat /\ MachineType
  BY TypeParts DEF TypeOK
<1>2. UNCHANGED <<targetState, exitDelay, entryDelay, triggerDuration, armMask>>
  BY DEF timerFired
<1>3. armMask = targetArmMask(targetState)
  BY DEF MachineInv, StateMatchesTarget
<1>4. timer /\ timer \in BOOLEAN
  BY <1>1 DEF timerFired, MachineType
<1> HIDE DEF sec
<1>5. ASSUME NEW st, NEW secs \in Nat,
             SetSecondsAndState(queue, needPush, secs, st, targetState)
      PROVE  curState' = st /\ seconds' = secs /\ armState' = panelStatus(st, targetState)
  BY <1>5 DEF SetSecondsAndState
<1>6. ASSUME stateExitDelay(sec, late)
      PROVE  MachineInv'
  <2>1. CASE elapsed(exitDelay, sec, late) /\ targetState = "disarmed"
    <3>1. SetSecondsAndState(queue, needPush, 0, "Disarmed", targetState) /\ stopTimer
      BY <1>6, <2>1 DEF stateExitDelay, stateAfterExit
    <3>2. "Disarmed" \in State /\ targetState \in ArmMode
      BY <1>1 DEF MachineType, State
    <3>3. timer' = FALSE
      BY <3>1 DEF stopTimer
    <3> QED
      BY <1>2, <1>3, <1>5, <2>1, <3>1, <3>2, <3>3, StateEntered
  <2>2. CASE elapsed(exitDelay, sec, late) /\ targetState # "disarmed"
    <3>1. SetSecondsAndState(queue, needPush, 0, "Arming", targetState) /\ startStateTimer
      BY <1>6, <2>2 DEF stateExitDelay, stateAfterExit
    <3>2. "Arming" \in State /\ targetState \in ArmMode
      BY <1>1 DEF MachineType, State
    <3>3. timer' = TRUE
      BY <3>1 DEF startStateTimer
    <3> QED
      BY <1>2, <1>3, <1>5, <2>2, <3>1, <3>2, <3>3, StateEntered
  <2>3. CASE ~elapsed(exitDelay, sec, late)
    <3>1. remaining(exitDelay, sec, late) \in 0..exitDelay
      BY <1>1, <2>3, RemainingType DEF MachineType
    <3>2. /\ SetSecondsAndState(queue, needPush, remaining(exitDelay, sec, late),
                                curState, targetState)
          /\ curState = "ExitDelay"
          /\ timer' = timer
      BY <1>6, <2>3 DEF stateExitDelay
    <3>3. "ExitDelay" \in State /\ targetState \in ArmMode /\ exitDelay \in Nat
      BY <1>1 DEF MachineType, State
    <3>4. remaining(exitDelay, sec, late) \in Nat
          /\ remaining(exitDelay, sec, late) <= exitDelay'
      BY <1>2, <3>1, <3>3
    <3> QED
      BY <1>2, <1>3, <1>4, <1>5, <3>2, <3>3, <3>4, StateEntered
  <2> QED
    BY <2>1, <2>2, <2>3
<1>7. ASSUME stateEntryDelay(sec, late)
      PROVE  MachineInv'
  <2>1. targetState # "disarmed"
    BY <1>7 DEF stateEntryDelay, MachineInv, StateMatchesTarget
  <2>2. CASE elapsed(entryDelay, sec, late)
    <3>1. SetSecondsAndState(queue, needPush, 0, "InAlarm", targetState) /\ startStateTimer
      BY <1>7, <2>2 DEF stateEntryDelay
    <3>2. "InAlarm" \in State /\ targetState \in ArmMode
      BY <1>1 DEF MachineType, State
    <3>3. timer' = TRUE
      BY <3>1 DEF startStateTimer
    <3> QED
      BY <1>2, <1>3, <1>5, <2>1, <3>1, <3>2, <3>3, StateEntered
  <2>3. CASE ~elapsed(entryDelay, sec, late)
    <3>1. remaining(entryDelay, sec, late) \in 0..entryDelay
      BY <1>1, <2>3, RemainingType DEF MachineType
    <3>2. /\ SetSecondsAndState(queue, needPush, remaining(entryDelay, sec, late),
                                curState, targetState)
          /\ curState = "EntryDelay"
          /\ timer' = timer
      BY <1>7, <2>3 DEF stateEntryDelay
    <3>3. "EntryDelay" \in State /\ targetState \in ArmMode /\ entryDelay \in Nat
      BY <1>1 DEF MachineType, State
    <3>4. remaining(entryDelay, sec, late) \in Nat
          /\ remaining(entryDelay, sec, late) <= entryDelay'
      BY <1>2, <3>1, <3>3
    <3> QED
      BY <1>2, <1>3, <1>4, <1>5, <2>1, <3>2, <3>3, <3>4, StateEntered
  <2> QED
    BY <2>2, <2>3
<1>8. ASSUME SetSecondsAndState(queue, needPush, seconds, "Armed", targetState), stopTimer,
             curState \in {"InAlarm", "Arming"}
      PROVE  MachineInv'
  <2>1. targetState # "disarmed" /\ seconds = 0
    BY <1>8 DEF MachineInv, StateMatchesTarget, CountdownBounded
  <2>2. "Armed" \in State /\ targetState \in ArmMode
    BY <1>1 DEF MachineType, State
  <2>3. timer' = FALSE
    BY <1>8 DEF stopTimer
  <2>4. seconds \in Nat
    BY <1>1 DEF MachineType
  <2>5. curState' = "Armed" /\ seconds' = 0 /\ armState' = panelStatus("Armed", targetState)
    BY <1>5, <1>8, <2>1, <2>4
  <2> QED
    BY <1>2, <1>3, <2>1, <2>2, <2>3, <2>5, StateEntered
<1>9. ASSUME UNCHANGED <<curState, timer, seconds, armState>>
      PROVE  MachineInv'
  BY <1>2, <1>9 DEF MachineInv, StateMatchesTarget, TimerMatchesState, PanelShowsState,
                    CountdownBounded
<1>10. ASSUME stateInAlarm(sec, late)
       PROVE  MachineInv'
  BY <1>8, <1>9, <1>10 DEF stateInAlarm
<1>11. ASSUME stateArming
       PROVE  MachineInv'
  BY <1>8, <1>11 DEF stateArming
<1> QED
  BY <1>6, <1>7, <1>9, <1>10, <1>11 DEF timerFired, sec

-----------------------------------------------------------------------------
(* A mode that is not the target has exactly one event in the queue.       *)
PickupInv == ModePickedUp /\ NoDuplicates(queue)

(* A step that keeps the two modes and the ArmModeEvent keeps PickupInv.   *)
LEMMA PickupKept ==
    ASSUME PickupInv, UNCHANGED <<armMode, targetState>>,
           Queued(queue', ArmModeEvent) <=> Queued(queue, ArmModeEvent),
           NoDuplicates(queue')
    PROVE  PickupInv'
  BY DEF PickupInv, ModePickedUp

(* An input that only enqueues another event keeps PickupInv.              *)
LEMMA PickupEnqueue ==
    ASSUME PickupInv, queue \in Seq(Events), NEW e \in Events, e # ArmModeEvent,
           queue' = enqueueEvent(queue, e), UNCHANGED <<armMode, targetState>>
    PROVE  PickupInv'
<1>1. /\ Queued(queue', ArmModeEvent) <=> Queued(queue, ArmModeEvent)
      /\ NoDuplicates(queue')
  BY EnqueueKeeps DEF PickupInv
<1> QED
  BY <1>1, PickupKept

(* setTargetArmMode() enqueues the event when it sets a mode, and a mode   *)
(* that it sets is never the target.                                       *)
LEMMA PickupRequest ==
    ASSUME PickupInv, queue \in Seq(Events), NEW call \in BOOLEAN, NEW mode,
           setTargetArmMode(call, mode), UNCHANGED targetState
    PROVE  /\ armMode' # targetState' <=> Queued(armModeQueue(call, mode), ArmModeEvent)
           /\ NoDuplicates(armModeQueue(call, mode))
           /\ armModeQueue(call, mode) \in Seq(Events)
<1>1. ArmModeEvent \in Events
  BY EventTypes
<1>2. CASE call /\ setsArmMode(mode)
  <2>1. armMode' = mode /\ mode # targetState
    BY <1>2 DEF setTargetArmMode, setsArmMode
  <2>2. armModeQueue(call, mode) = enqueueEvent(queue, ArmModeEvent)
    BY <1>2 DEF armModeQueue
  <2>3. /\ Queued(enqueueEvent(queue, ArmModeEvent), ArmModeEvent)
        /\ NoDuplicates(enqueueEvent(queue, ArmModeEvent))
        /\ enqueueEvent(queue, ArmModeEvent) \in Seq(Events)
    BY <1>1, EnqueueKeeps DEF PickupInv
  <2> QED
    BY <2>1, <2>2, <2>3
<1>3. CASE ~(call /\ setsArmMode(mode))
  <2>1. armMode' = armMode /\ armModeQueue(call, mode) = queue
    BY <1>3 DEF setTargetArmMode, armModeQueue
  <2> QED
    BY <2>1 DEF PickupInv, ModePickedUp
<1> QED
  BY <1>2, <1>3

(* Every step of the alarm system keeps PickupInv.                         *)
LEMMA PickupStep ==
    ASSUME TypeOK, PickupInv, [Next]_vars
    PROVE  PickupInv'
<1>1. queue \in Seq(Events)
  BY DEF TypeOK
<1>2. ASSUME handleEvent
      PROVE  PickupInv'
  <2>1. /\ Tail(queue) \in Seq(Events)
        /\ Head(queue) # ArmModeEvent
               => (Queued(Tail(queue), ArmModeEvent) <=> Queued(queue, ArmModeEvent))
        /\ NoDuplicates(Tail(queue))
        /\ ~Queued(Tail(queue), Head(queue))
        /\ Head(queue) \in Events
    BY <1>1, <1>2, TailKeeps DEF handleEvent, PickupInv
  <2>2. \A item : flagsAfterPush(item) \in SUBSET (StateItem \cup ConfigItem)
    BY DEF flagsAfterPush, TypeOK
  <2>3. CASE handleArmModeEvent
    <3>1. targetState' = armMode' /\ Head(queue) = ArmModeEvent
      BY <2>3 DEF handleArmModeEvent
    <3>2. ~Queued(queue', ArmModeEvent) /\ NoDuplicates(queue')
      <4>1. CASE armMode = targetState
        BY <2>1, <2>3, <3>1, <4>1 DEF handleArmModeEvent
      <4>2. CASE armMode # targetState
        <5>1. SetSecondsAndState(Tail(queue), flagsAfterPush(<<"armmode">>),
                                 config["exit_delay"][armMode], "ExitDelay", armMode)
          BY <2>3, <4>2 DEF handleArmModeEvent
        <5>2. config["exit_delay"][armMode] \in Nat /\ armState \in PanelStatus
          BY DelayType DEF TypeOK
        <5>3. /\ Queued(queue', ArmModeEvent) <=> Queued(Tail(queue), ArmModeEvent)
              /\ NoDuplicates(Tail(queue)) => NoDuplicates(queue')
          BY <2>1, <2>2, <5>1, <5>2, SetSecondsAndStateKeeps
        <5> QED
          BY <2>1, <3>1, <5>3
      <4> QED
        BY <4>1, <4>2
    <3> QED
      BY <3>1, <3>2 DEF PickupInv, ModePickedUp
  <2>4. ASSUME Head(queue) # ArmModeEvent, UNCHANGED <<armMode, targetState>>,
               queue' = Tail(queue)
        PROVE  PickupInv'
    BY <2>1, <2>4, PickupKept
  <2>5. CASE handleDeviceAlarm
    <3>1. Head(queue) # ArmModeEvent /\ UNCHANGED <<armMode, targetState>>
      BY <2>5 DEF handleDeviceAlarm, ArmModeEvent
    <3>2. CASE queue' = Tail(queue)
      BY <2>4, <3>1, <3>2
    <3>3. CASE SetSecondsAndState(Tail(queue), needPush, entryDelay, "EntryDelay", targetState)
      <4>1. entryDelay \in Nat /\ armState \in PanelStatus
            /\ needPush \in SUBSET (StateItem \cup ConfigItem)
        BY DEF TypeOK
      <4>2. /\ Queued(queue', ArmModeEvent) <=> Queued(Tail(queue), ArmModeEvent)
            /\ NoDuplicates(Tail(queue)) => NoDuplicates(queue')
        BY <2>1, <3>3, <4>1, SetSecondsAndStateKeeps
      <4> QED
        BY <2>1, <3>1, <4>2, PickupKept
    <3> QED
      BY <2>5, <3>2, <3>3 DEF handleDeviceAlarm
  <2>6. CASE handleStateEvent
    BY <2>4, <2>6 DEF handleStateEvent, StateItem, ArmModeEvent, machine
  <2>7. CASE handleConfigEvent
    BY <2>4, <2>7 DEF handleConfigEvent, ArmModeEvent, machine
  <2>8. CASE AS_HandleAlarmSystemDeviceEvent
    <3>1. Head(queue) # ArmModeEvent /\ UNCHANGED <<armMode, targetState>>
      BY <2>8 DEF AS_HandleAlarmSystemDeviceEvent, ArmModeEvent, machine, items
    <3>2. CASE queue' = Tail(queue)
      BY <2>4, <3>1, <3>2
    <3>3. CASE /\ table[Head(queue)[2]] # NoEntry
               /\ queue' = enqueueEvent(Tail(queue), DeviceAlarm(table[Head(queue)[2]]))
      <4>1. Head(queue)[2] \in Device
        BY <2>1, <2>8, DeviceOfEvent DEF AS_HandleAlarmSystemDeviceEvent
      <4>2. table[Head(queue)[2]] \in SUBSET ArmedMode
        BY <3>3, <4>1 DEF TypeOK, Entry
      <4>3. DeviceAlarm(table[Head(queue)[2]]) \in Events
            /\ DeviceAlarm(table[Head(queue)[2]]) # ArmModeEvent
        BY <4>2, EventTypes, ArmModeEventDiffers
      <4>4. /\ Queued(queue', ArmModeEvent) <=> Queued(Tail(queue), ArmModeEvent)
            /\ NoDuplicates(queue')
        BY <2>1, <3>3, <4>3, EnqueueType
      <4> QED
        BY <2>1, <3>1, <4>4, PickupKept
    <3> QED
      BY <2>8, <3>2, <3>3 DEF AS_HandleAlarmSystemDeviceEvent
  <2> QED
    BY <1>2, <2>3, <2>5, <2>6, <2>7, <2>8 DEF handleEvent
<1>3. ASSUME NEW step \in 1..MaxStep, NEW late \in BOOLEAN, timerFired(step, late)
      PROVE  PickupInv'
  <2> DEFINE sec == dt + step
  <2>1. sec \in Nat
    BY DEF TypeOK
  <2>2. UNCHANGED <<armMode, targetState>>
    BY <1>3 DEF timerFired
  <2> HIDE DEF sec
  <2>3. ASSUME NEW st, NEW secs \in Nat,
               SetSecondsAndState(queue, needPush, secs, st, targetState)
        PROVE  PickupInv'
    <3>1. armState \in PanelStatus /\ needPush \in SUBSET (StateItem \cup ConfigItem)
      BY DEF TypeOK
    <3>2. /\ Queued(queue', ArmModeEvent) <=> Queued(queue, ArmModeEvent)
          /\ NoDuplicates(queue) => NoDuplicates(queue')
      BY <1>1, <2>3, <3>1, SetSecondsAndStateKeeps
    <3> QED
      BY <2>2, <3>2, PickupKept DEF PickupInv
  <2>4. ASSUME UNCHANGED queue
        PROVE  PickupInv'
    BY <2>2, <2>4 DEF PickupInv, ModePickedUp
  <2>5. CASE stateExitDelay(sec, late)
    <3>1. ~elapsed(exitDelay, sec, late) => remaining(exitDelay, sec, late) \in Nat
      BY <2>1, RemainingType DEF TypeOK
    <3> QED
      BY <2>3, <2>5, <3>1 DEF stateExitDelay
  <2>6. CASE stateEntryDelay(sec, late)
    <3>1. ~elapsed(entryDelay, sec, late) => remaining(entryDelay, sec, late) \in Nat
      BY <2>1, RemainingType DEF TypeOK
    <3> QED
      BY <2>3, <2>6, <3>1 DEF stateEntryDelay
  <2>7. seconds \in Nat
    BY DEF TypeOK
  <2>8. CASE stateInAlarm(sec, late)
    BY <2>3, <2>4, <2>7, <2>8 DEF stateInAlarm
  <2>9. CASE stateArming
    BY <2>3, <2>7, <2>9 DEF stateArming
  <2> QED
    BY <1>3, <2>4, <2>5, <2>6, <2>8, <2>9 DEF timerFired, sec
<1>4. ASSUME Input
      PROVE  PickupInv'
  <2>1. ASSUME NEW mode \in RequestMode, NEW code \in Code,
               putAlarmSystemArmMode(mode, code)
        PROVE  PickupInv'
    <3>1. /\ setTargetArmMode(TRUE, mode)
          /\ queue' = armModeQueue(TRUE, mode)
          /\ UNCHANGED targetState
      BY <2>1 DEF putAlarmSystemArmMode, machine
    <3> QED
      BY <1>1, <3>1, PickupRequest DEF PickupInv, ModePickedUp
  <2>2. ASSUME NEW k \in Keypad, NEW mode \in RequestMode, NEW code \in Code,
               handleArmCommand(k, mode, code)
        PROVE  PickupInv'
    <3>1. PICK accepted \in BOOLEAN :
              /\ setTargetArmMode(accepted, mode)
              /\ queue' = enqueueEvent(armModeQueue(accepted, mode),
                                       ActionEvent(k, ModeNumber[mode]))
              /\ UNCHANGED targetState
      BY <2>2 DEF handleArmCommand, machine
    <3>2. /\ armMode' # targetState' <=> Queued(armModeQueue(accepted, mode), ArmModeEvent)
          /\ NoDuplicates(armModeQueue(accepted, mode))
          /\ armModeQueue(accepted, mode) \in Seq(Events)
      BY <1>1, <3>1, PickupRequest
    <3>3. ModeNumber[mode] \in Nat
      BY DEF ModeNumber, ArmMode
    <3>4. ActionEvent(k, ModeNumber[mode]) \in Events
          /\ ActionEvent(k, ModeNumber[mode]) # ArmModeEvent
      BY <3>3, EventTypes, ArmModeEventDiffers
    <3>5. /\ Queued(queue', ArmModeEvent)
                 <=> Queued(armModeQueue(accepted, mode), ArmModeEvent)
          /\ NoDuplicates(queue')
      BY <3>1, <3>2, <3>4, EnqueueKeeps
    <3> QED
      BY <3>2, <3>5 DEF PickupInv, ModePickedUp
  <2>3. ASSUME NEW k \in Keypad, NEW n \in Command, emergencyCommand(k, n)
        PROVE  PickupInv'
    <3>1. n \in Nat
      BY DEF Emergency, Panic
    <3>2. ActionEvent(k, n) \in Events /\ ActionEvent(k, n) # ArmModeEvent
      BY <3>1, EventTypes, ArmModeEventDiffers
    <3> QED
      BY <1>1, <2>3, <3>2, PickupEnqueue DEF emergencyCommand, machine, items
  <2>4. ASSUME NEW d \in Device \ Keypad, sensorReports(d)
        PROVE  PickupInv'
    BY <1>1, <2>4, EventTypes, ArmModeEventDiffers, PickupEnqueue
    DEF sensorReports, machine, items
  <2>5. ASSUME NEW c \in ConfigChange, putAlarmSystemConfig(c[1], c[2], c[3])
        PROVE  PickupInv'
    <3>1. ConfigEvent(c[1], c[2], c[3]) \in Events
          /\ ConfigEvent(c[1], c[2], c[3]) # ArmModeEvent
      BY EventTypes, ArmModeEventDiffers
    <3> QED
      BY <1>1, <2>5, <3>1, PickupEnqueue DEF putAlarmSystemConfig, machine
  <2>6. ASSUME UNCHANGED <<queue, armMode, targetState>>
        PROVE  PickupInv'
    BY <2>6 DEF PickupInv, ModePickedUp
  <2>7. CASE Restart
    <3>1. queue' = <<ArmStateEvent(armState')>> /\ armMode' = targetState'
      BY <2>7 DEF Restart
    <3>2. ArmStateEvent(armState') # ArmModeEvent
      BY ArmModeEventDiffers
    <3>3. ~Queued(queue', ArmModeEvent) /\ NoDuplicates(queue')
      BY <3>1, <3>2 DEF Queued, NoDuplicates
    <3> QED
      BY <3>1, <3>3 DEF PickupInv, ModePickedUp
  <2>8. CASE \/ \E code \in Code : setCode(code)
             \/ \E d \in Device, mask \in Mask : put(d, mask)
             \/ \E d \in Device : erase(d)
             \/ commitRefused
             \/ committed
             \/ closeDb
             \/ openDb
    BY <2>6, <2>8 DEF setCode, put, erase, commitRefused, committed, closeDb, openDb,
       machine, items
  <2> QED
    BY <1>4, <2>1, <2>2, <2>3, <2>4, <2>5, <2>7, <2>8 DEF Input
<1>5. CASE UNCHANGED vars
  BY <1>5 DEF PickupInv, ModePickedUp, vars, machine, items
<1> QED
  BY <1>2, <1>3, <1>4, <1>5 DEF Next, TimerStep

-----------------------------------------------------------------------------
(* The notification of an event keeps MachineInv: PickupInv rules out the  *)
(* event of a mode that is already the target, which would change the exit *)
(* delay while it is counted down.                                         *)
LEMMA HandleEventMachine ==
    ASSUME TypeOK, MachineInv, PickupInv, handleEvent
    PROVE  MachineInv'
<1>1. CASE handleArmModeEvent
  <2>1. armMode # targetState
    BY <1>1, TailKeeps DEF handleArmModeEvent, handleEvent, TypeOK, PickupInv, ModePickedUp
  <2>2. armMode \in ArmMode /\ config["exit_delay"][armMode] \in Nat
    BY DelayType DEF TypeOK
  <2>3. /\ SetSecondsAndState(Tail(queue), flagsAfterPush(<<"armmode">>),
                              config["exit_delay"][armMode], "ExitDelay", armMode)
        /\ startStateTimer
        /\ targetState' = armMode
        /\ armMask' = targetArmMask(armMode)
        /\ exitDelay' = config["exit_delay"][armMode]
    BY <1>1, <2>1 DEF handleArmModeEvent, updateTargetStateValues
  <2>4. /\ curState' = "ExitDelay"
        /\ seconds' = config["exit_delay"][armMode]
        /\ armState' = panelStatus("ExitDelay", armMode)
    BY <2>3 DEF SetSecondsAndState
  <2>5. timer' = TRUE
    BY <2>3 DEF startStateTimer
  <2>6. "ExitDelay" \in State /\ config["exit_delay"][armMode] <= exitDelay'
    BY <2>2, <2>3 DEF State
  <2> QED
    BY <2>2, <2>3, <2>4, <2>5, <2>6, StateEntered
<1>2. CASE handleDeviceAlarm
  <2>1. UNCHANGED <<targetState, exitDelay, entryDelay, triggerDuration, armMask>>
    BY <1>2 DEF handleDeviceAlarm
  <2>2. CASE curState = "Armed" /\ Head(queue)[2] \cap armMask # {}
    <3>1. /\ SetSecondsAndState(Tail(queue), needPush, entryDelay, "EntryDelay", targetState)
          /\ startStateTimer
      BY <1>2, <2>2 DEF handleDeviceAlarm
    <3>2. /\ curState' = "EntryDelay"
          /\ seconds' = entryDelay
          /\ armState' = panelStatus("EntryDelay", targetState)
      BY <3>1 DEF SetSecondsAndState
    <3>3. timer' = TRUE
      BY <3>1 DEF startStateTimer
    <3>4. targetState # "disarmed" /\ armMask = targetArmMask(targetState)
      BY <2>2 DEF MachineInv, StateMatchesTarget
    <3>5. /\ "EntryDelay" \in State
          /\ targetState \in ArmMode
          /\ entryDelay \in Nat
          /\ entryDelay <= entryDelay'
      BY <2>1 DEF State, TypeOK
    <3> QED
      BY <2>1, <3>2, <3>3, <3>4, <3>5, StateEntered
  <2>3. CASE ~(curState = "Armed" /\ Head(queue)[2] \cap armMask # {})
    BY <1>2, <2>1, <2>3, MachineUnchanged DEF handleDeviceAlarm, machine
  <2> QED
    BY <2>2, <2>3
<1>3. CASE handleStateEvent \/ handleConfigEvent \/ AS_HandleAlarmSystemDeviceEvent
  BY <1>3, MachineUnchanged
  DEF handleStateEvent, handleConfigEvent, AS_HandleAlarmSystemDeviceEvent, items
<1> QED
  BY <1>1, <1>2, <1>3 DEF handleEvent

(* Inputs leave the machine alone; a restart enters Disarmed or Armed.     *)
LEMMA InputMachine ==
    ASSUME TypeOK, MachineInv, Input
    PROVE  MachineInv'
<1>1. ASSUME UNCHANGED <<machine, armState, seconds>>
      PROVE  MachineInv'
  BY <1>1, MachineUnchanged
<1>2. CASE Restart
  <2>1. disk.mode \in ArmMode
    BY DEF TypeOK, Database
  <2> DEFINE st == IF disk.mode = "disarmed" THEN "Disarmed" ELSE "Armed"
  <2>2. /\ curState' = st
        /\ seconds' = 0
        /\ armState' = panelStatus(st, disk.mode)
        /\ targetState' = disk.mode
        /\ armMask' = targetArmMask(disk.mode)
    BY <1>2 DEF Restart
  <2>3. timer' = FALSE
    BY <1>2 DEF Restart, stopTimer
  <2>4. st \in State /\ st \in {"Disarmed", "Armed"}
    BY DEF State
  <2>5. (st = "Disarmed" => disk.mode = "disarmed")
        /\ (st # "Disarmed" => disk.mode # "disarmed")
    OBVIOUS
  <2> HIDE DEF st
  <2> QED
    BY <2>1, <2>2, <2>3, <2>4, <2>5, StateEntered
<1>3. CASE \E c \in ConfigChange : putAlarmSystemConfig(c[1], c[2], c[3])
  BY <1>1, <1>3 DEF putAlarmSystemConfig
<1>4. CASE \/ \E mode \in RequestMode, code \in Code : putAlarmSystemArmMode(mode, code)
           \/ \E k \in Keypad, mode \in RequestMode, code \in Code :
                  handleArmCommand(k, mode, code)
  BY <1>1, <1>4 DEF putAlarmSystemArmMode, handleArmCommand
<1>5. CASE \/ \E k \in Keypad, n \in Command : emergencyCommand(k, n)
           \/ \E d \in Device \ Keypad : sensorReports(d)
           \/ \E code \in Code : setCode(code)
           \/ \E d \in Device, mask \in Mask : put(d, mask)
           \/ \E d \in Device : erase(d)
           \/ commitRefused
           \/ committed
           \/ closeDb
           \/ openDb
  BY <1>1, <1>5 DEF emergencyCommand, sensorReports, setCode, put, erase, commitRefused,
                    committed, closeDb, openDb, items
<1> QED
  BY <1>2, <1>3, <1>4, <1>5 DEF Input

AlarmInv == TypeOK /\ MachineInv /\ PickupInv

(* AlarmInv holds initially and every step keeps it.                       *)
LEMMA AlarmInvInductive == Spec => []AlarmInv
<1>1. Init => AlarmInv
  <2> SUFFICES ASSUME Init PROVE AlarmInv
    OBVIOUS
  <2>1. MachineInv
    BY DEF Init, MachineInv, StateMatchesTarget, TimerMatchesState, PanelShowsState,
           CountdownBounded, targetArmMask, ArmedMode, ArmMode
  <2>2. PickupInv
    <3>1. Len(queue) = 0 /\ armMode = targetState
      BY DEF Init
    <3> QED
      BY <3>1 DEF PickupInv, ModePickedUp, Queued, NoDuplicates
  <2> QED
    BY <2>1, <2>2, InitType DEF AlarmInv
<1>2. AlarmInv /\ [Next]_vars => AlarmInv'
  <2> SUFFICES ASSUME AlarmInv, [Next]_vars PROVE AlarmInv'
    OBVIOUS
  <2>1. PickupInv'
    BY PickupStep DEF AlarmInv
  <2>2. CASE UNCHANGED vars
    <3>1. TypeOK'
      BY <2>2 DEF vars, machine, items, clients, store, TypeOK, AlarmInv
    <3>2. MachineInv'
      BY <2>2, MachineUnchanged DEF vars, items, AlarmInv
    <3> QED
      BY <2>1, <3>1, <3>2 DEF AlarmInv
  <2>3. CASE TimerStep
    BY <2>1, <2>3, TimerType, TimerMachine DEF TimerStep, AlarmInv
  <2>4. CASE handleEvent
    BY <2>1, <2>4, HandleEventType, HandleEventMachine DEF AlarmInv
  <2>5. CASE Input
    BY <2>1, <2>5, InputType, InputMachine DEF AlarmInv
  <2> QED
    BY <2>2, <2>3, <2>4, <2>5 DEF Next
<1> QED
  BY <1>1, <1>2, PTL DEF Spec

(* For every configuration, set of devices and interleaving: a disarmed    *)
(* system is never armed or in alarm; the 1 s timer runs exactly in the    *)
(* states that only it ends; state/armstate and state/seconds_remaining    *)
(* show the state the machine is in.                                       *)
THEOREM AlarmMachineSafe == Spec => []MachineConsistent
<1>1. AlarmInv => MachineConsistent
  BY DEF AlarmInv, MachineInv, MachineConsistent
<1> QED
  BY <1>1, AlarmInvInductive, PTL

(* setTargetArmMode(): a requested mode is picked up by the state machine, *)
(* however its event interleaves and merges with others.                   *)
THEOREM RequestedModePickedUp == Spec => []ModePickedUp
<1>1. AlarmInv => ModePickedUp
  BY DEF AlarmInv, PickupInv
<1> QED
  BY <1>1, AlarmInvInductive, PTL

(* What the connection reads of a row is what memory has, or the row's      *)
(* change is lost; without a transaction it is what is committed.           *)
ModeKept == db.mode = armMode \/ lost[ModeRow] \in {"failed", "undone"}

ConfigKept ==
    \A p \in Parameter, m \in ArmMode :
        \/ db.config[p][m] = config[p][m]
        \/ lost[ConfigRow(p, m)] \in {"failed", "closed", "undone"}

TableKept ==
    \A d \in Device :
        \/ db.table[d] = table[d]
        \/ lost[DeviceRow(d)] \in IF table[d] = NoEntry THEN {"undone"}
                                  ELSE {"failed", "closed", "undone"}

OneDatabase == (autocommit => db = disk) /\ (~dbOpen => autocommit)

StoreInv == ModeKept /\ ConfigKept /\ TableKept /\ OneDatabase

LEMMA RowsDiffer ==
    /\ \A p \in Parameter, m \in ArmMode : ModeRow # ConfigRow(p, m)
    /\ \A d \in Device : ModeRow # DeviceRow(d)
    /\ \A p \in Parameter, m \in ArmMode, d \in Device : ConfigRow(p, m) # DeviceRow(d)
    /\ \A p, q \in Parameter, m, n \in ArmMode :
          ConfigRow(p, m) = ConfigRow(q, n) => p = q /\ m = n
    /\ \A d, e \in Device : DeviceRow(d) = DeviceRow(e) => d = e
BY DEF ModeRow, ConfigRow, DeviceRow

LEMMA RowValues ==
    /\ \A x : InRow(x, ModeRow) = x.mode
    /\ \A x : \A p \in Parameter, m \in ArmMode : InRow(x, ConfigRow(p, m)) = x.config[p][m]
    /\ \A x : \A d \in Device : InRow(x, DeviceRow(d)) = x.table[d]
BY RowsDiffer DEF InRow, ModeRow, ConfigRow, DeviceRow

(* A statement changes the connection's data if it succeeds, in one of both *)
(* databases or in both, and says so.                                      *)
LEMMA StoresKeeps ==
    ASSUME TypeOK, StoreInv, NEW row \in Row, NEW new \in Database, stores(row, new)
    PROVE  /\ OneDatabase'
           /\ \A other \in Row : other # row => lost'[other] = lost[other]
           /\ \/ db' = new
              \/ db' = db /\ lost'[row] = "failed"
              \/ db' = db /\ lost'[row] = "closed" /\ ~dbOpen
<1>1. PICK fate \in Fate : executes(new, fate) /\ lost' = [lost EXCEPT ![row] = fate]
  BY DEF stores
<1>2. lost'[row] = fate /\ \A other \in Row : other # row => lost'[other] = lost[other]
  BY <1>1 DEF TypeOK
<1>3. OneDatabase'
  BY <1>1 DEF executes, StoreInv, OneDatabase
<1> QED
  BY <1>1, <1>2, <1>3 DEF executes

(* Every step of the system keeps StoreInv: requests, ...                   *)
LEMMA ModeKeeps ==
    ASSUME TypeOK, StoreInv, NEW call \in BOOLEAN, NEW mode \in ArmMode,
           setTargetArmMode(call, mode), call => dbOpen, UNCHANGED <<config, table>>
    PROVE  StoreInv'
<1> DEFINE new == [db EXCEPT !.mode = mode]
<1>1. new \in Database /\ new.mode = mode /\ new.config = db.config /\ new.table = db.table
      /\ ModeRow \in Row
  BY RowsAre DEF TypeOK, Database
<1>2. CASE UNCHANGED store /\ armMode' = armMode
  BY <1>2 DEF StoreInv, ModeKept, ConfigKept, TableKept, OneDatabase, store
<1>3. CASE stores(ModeRow, new) /\ armMode' = mode /\ dbOpen
  <2> HIDE DEF new
  <2>1. /\ OneDatabase'
        /\ \A other \in Row : other # ModeRow => lost'[other] = lost[other]
        /\ db' = new \/ (db' = db /\ lost'[ModeRow] = "failed")
    BY <1>1, <1>3, StoresKeeps
  <2>2. ModeKept'
    BY <1>1, <1>3, <2>1 DEF ModeKept
  <2>3. db'.config = db.config /\ db'.table = db.table
    BY <1>1, <2>1
  <2>4. ConfigKept'
    BY <2>1, <2>3, RowsAre, RowsDiffer DEF StoreInv, ConfigKept
  <2>5. TableKept'
    BY <2>1, <2>3, RowsAre, RowsDiffer DEF StoreInv, TableKept
  <2> QED
    BY <2>1, <2>2, <2>4, <2>5 DEF StoreInv
<1> QED
  BY <1>2, <1>3 DEF setTargetArmMode

LEMMA ConfigKeeps ==
    ASSUME TypeOK, StoreInv, NEW p \in Parameter, NEW m \in ArmMode, NEW n \in Nat,
           putAlarmSystemConfig(p, m, n)
    PROVE  StoreInv'
<1> DEFINE new == [db EXCEPT !.config[p][m] = n]
           row == ConfigRow(p, m)
<1>1. /\ new \in Database /\ new.mode = db.mode /\ new.table = db.table /\ row \in Row
      /\ new.config = [db.config EXCEPT ![p][m] = n]
  BY RowsAre DEF TypeOK, Database, Delays
<1>2. stores(row, new) /\ config' = [config EXCEPT ![p][m] = n] /\ UNCHANGED <<armMode, table>>
  BY DEF putAlarmSystemConfig
<1>3. config \in Delays /\ db.config \in Delays
  BY DEF TypeOK, Database
<1> HIDE DEF new
<1>4. /\ OneDatabase'
      /\ \A other \in Row : other # row => lost'[other] = lost[other]
      /\ db' = new \/ (db' = db /\ lost'[row] \in {"failed", "closed"})
  BY <1>1, <1>2, StoresKeeps
<1>5. ModeKept' /\ TableKept'
  BY <1>1, <1>2, <1>4, RowsAre, RowsDiffer DEF StoreInv, ModeKept, TableKept
<1>6. ConfigKept'
  <2>1. SUFFICES ASSUME NEW q \in Parameter, NEW k \in ArmMode
                 PROVE  \/ db'.config[q][k] = config'[q][k]
                        \/ lost'[ConfigRow(q, k)] \in {"failed", "closed", "undone"}
    BY DEF ConfigKept
  <2>2. CASE q = p /\ k = m
    BY <1>1, <1>2, <1>3, <1>4, <2>2 DEF Delays
  <2>3. CASE ~(q = p /\ k = m)
    <3>1. db'.config[q][k] = db.config[q][k] /\ config'[q][k] = config[q][k]
      BY <1>1, <1>2, <1>3, <1>4, <2>3 DEF Delays
    <3>2. lost'[ConfigRow(q, k)] = lost[ConfigRow(q, k)]
      BY <1>4, <2>3, RowsAre, RowsDiffer
    <3> QED
      BY <3>1, <3>2 DEF StoreInv, ConfigKept
  <2> QED
    BY <2>2, <2>3
<1> QED
  BY <1>4, <1>5, <1>6 DEF StoreInv

(* ... devices added and removed, ...                                      *)
LEMMA PutKeeps ==
    ASSUME TypeOK, StoreInv, NEW d \in Device, NEW mask \in Mask, put(d, mask)
    PROVE  StoreInv'
<1> DEFINE new == [db EXCEPT !.table[d] = mask]
<1>1. mask \in Entry /\ mask # NoEntry
  BY DEF Entry, NoEntry, ArmedMode, ArmMode
<1>2. /\ new \in Database /\ new.mode = db.mode /\ new.config = db.config
      /\ new.table = [db.table EXCEPT ![d] = mask] /\ DeviceRow(d) \in Row
  BY <1>1, RowsAre DEF TypeOK, Database
<1>3. table' = [table EXCEPT ![d] = mask] /\ UNCHANGED <<armMode, config>>
  BY DEF put, items
<1>4. table \in [Device -> Entry] /\ db.table \in [Device -> Entry]
  BY DEF TypeOK, Database
<1> HIDE DEF new
<1>5. CASE table[d] = mask
  <2>1. UNCHANGED store /\ table' = table
    BY <1>3, <1>4, <1>5 DEF put
  <2> QED
    BY <1>3, <2>1 DEF StoreInv, ModeKept, ConfigKept, TableKept, OneDatabase, store
<1>6. CASE table[d] # mask
  <2>1. stores(DeviceRow(d), new)
    BY <1>6 DEF put, new
  <2>2. /\ OneDatabase'
        /\ \A other \in Row : other # DeviceRow(d) => lost'[other] = lost[other]
        /\ db' = new \/ (db' = db /\ lost'[DeviceRow(d)] \in {"failed", "closed"})
    BY <1>2, <2>1, StoresKeeps
  <2>3. ModeKept' /\ ConfigKept'
    BY <1>2, <1>3, <2>2, RowsAre, RowsDiffer DEF StoreInv, ModeKept, ConfigKept
  <2>4. TableKept'
    <3>1. SUFFICES ASSUME NEW e \in Device
                   PROVE  \/ db'.table[e] = table'[e]
                          \/ lost'[DeviceRow(e)] \in IF table'[e] = NoEntry THEN {"undone"}
                                                    ELSE {"failed", "closed", "undone"}
      BY DEF TableKept
    <3>2. CASE e = d
      BY <1>1, <1>2, <1>3, <1>4, <2>2, <3>2
    <3>3. CASE e # d
      <4>1. db'.table[e] = db.table[e] /\ table'[e] = table[e]
        BY <1>2, <1>3, <1>4, <2>2, <3>3
      <4>2. lost'[DeviceRow(e)] = lost[DeviceRow(e)]
        BY <2>2, <3>3, RowsAre, RowsDiffer
      <4> QED
        BY <4>1, <4>2 DEF StoreInv, TableKept
    <3> QED
      BY <3>2, <3>3
  <2> QED
    BY <2>2, <2>3, <2>4 DEF StoreInv
<1> QED
  BY <1>5, <1>6

LEMMA EraseKeeps ==
    ASSUME TypeOK, StoreInv, NEW d \in Device, erase(d)
    PROVE  StoreInv'
<1>1. /\ db' = [db EXCEPT !.table[d] = NoEntry]
      /\ disk' = IF autocommit THEN db' ELSE disk
      /\ UNCHANGED <<dbOpen, autocommit>>
      /\ lost' = [lost EXCEPT ![DeviceRow(d)] = "stored"]
      /\ table' = [table EXCEPT ![d] = NoEntry]
      /\ UNCHANGED <<armMode, config>>
  BY DEF erase, executes, items
<1>2. /\ table \in [Device -> Entry] /\ db.table \in [Device -> Entry]
      /\ db \in Database /\ lost \in [Row -> Fate]
  BY DEF TypeOK, Database
<1>3. /\ db'.mode = db.mode /\ db'.config = db.config
      /\ db'.table = [db.table EXCEPT ![d] = NoEntry]
      /\ \A other \in Row : other # DeviceRow(d) => lost'[other] = lost[other]
  BY <1>1, <1>2 DEF Database
<1>4. OneDatabase'
  BY <1>1 DEF StoreInv, OneDatabase
<1>5. ModeKept' /\ ConfigKept'
  BY <1>1, <1>3, RowsAre, RowsDiffer DEF StoreInv, ModeKept, ConfigKept
<1>6. TableKept'
  <2>1. SUFFICES ASSUME NEW e \in Device
                 PROVE  \/ db'.table[e] = table'[e]
                        \/ lost'[DeviceRow(e)] \in IF table'[e] = NoEntry THEN {"undone"}
                                                  ELSE {"failed", "closed", "undone"}
    BY DEF TableKept
  <2>2. CASE e = d
    BY <1>1, <1>2, <1>3, <2>2
  <2>3. CASE e # d
    <3>1. db'.table[e] = db.table[e] /\ table'[e] = table[e]
      BY <1>1, <1>2, <1>3, <2>3
    <3>2. lost'[DeviceRow(e)] = lost[DeviceRow(e)]
      BY <1>3, <2>3, RowsAre, RowsDiffer
    <3> QED
      BY <3>1, <3>2 DEF StoreInv, TableKept
  <2> QED
    BY <2>2, <2>3
<1> QED
  BY <1>4, <1>5, <1>6 DEF StoreInv

(* ... and the connection itself.                                          *)
LEMMA CloseKeeps ==
    ASSUME TypeOK, StoreInv, closeDb
    PROVE  StoreInv'
<1>1. /\ ~dbOpen' /\ autocommit' /\ db' = disk /\ disk' = disk
      /\ \A row \in Row : \/ lost'[row] = "undone"
                          \/ lost'[row] = lost[row] /\ InRow(db, row) = InRow(disk, row)
      /\ UNCHANGED <<armMode, config, table>>
  BY DEF closeDb, items
<1>2. OneDatabase'
  BY <1>1 DEF OneDatabase
<1>3. ModeKept'
  BY <1>1, RowsAre, RowValues DEF StoreInv, ModeKept
<1>4. ConfigKept'
  BY <1>1, RowsAre, RowValues DEF StoreInv, ConfigKept
<1>5. TableKept'
  BY <1>1, RowsAre, RowValues DEF StoreInv, TableKept
<1> QED
  BY <1>2, <1>3, <1>4, <1>5 DEF StoreInv

(* A restart forgets no mode, delay or device but those whose statement     *)
(* failed, was not made without a connection (no mode, which is not accepted *)
(* then), or was rolled back with the transaction it got into; a device that *)
(* was removed only comes back by the last.  The results of the statements   *)
(* are ignored by didSetValue() and put(), looked at by erase().             *)
THEOREM OnlyLostForgotten == Spec => []OnlyLostIsForgotten
<1>1. Init => StoreInv
  BY DEF Init, StoreInv, ModeKept, ConfigKept, TableKept, OneDatabase
<1>2. TypeOK /\ StoreInv /\ [Next]_vars => StoreInv'
  <2> SUFFICES ASSUME TypeOK, StoreInv, [Next]_vars PROVE StoreInv'
    OBVIOUS
  <2>1. ASSUME UNCHANGED <<armMode, config, table, dbOpen, autocommit, db, disk, lost>>
        PROVE  StoreInv'
    BY <2>1 DEF StoreInv, ModeKept, ConfigKept, TableKept, OneDatabase
  <2>2. CASE handleEvent
    BY <2>1, <2>2 DEF handleEvent, handleArmModeEvent, handleDeviceAlarm, handleStateEvent,
        handleConfigEvent, AS_HandleAlarmSystemDeviceEvent, store, items
  <2>3. CASE TimerStep
    BY <2>1, <2>3 DEF TimerStep, timerFired, store
  <2>4. ASSUME NEW mode \in RequestMode, NEW code, putAlarmSystemArmMode(mode, code)
        PROVE  StoreInv'
    BY <2>4, ModeKeeps DEF putAlarmSystemArmMode, isValidCode
  <2>5. ASSUME NEW k \in Keypad, NEW mode \in RequestMode, NEW code,
               handleArmCommand(k, mode, code)
        PROVE  StoreInv'
    <3>1. PICK accepted \in BOOLEAN : /\ setTargetArmMode(accepted, mode)
                                      /\ accepted => dbOpen
                                      /\ UNCHANGED <<config, table>>
      BY <2>5 DEF handleArmCommand, isValidCode
    <3> QED
      BY <3>1, ModeKeeps
  <2>6. ASSUME NEW c \in ConfigChange, putAlarmSystemConfig(c[1], c[2], c[3])
        PROVE  StoreInv'
    BY <2>6, ConfigKeeps
  <2>7. ASSUME NEW code, setCode(code)
        PROVE  StoreInv'
    <3>1. /\ db'.mode = db.mode /\ db'.config = db.config /\ db'.table = db.table
          /\ disk' = IF autocommit THEN db' ELSE disk
          /\ UNCHANGED <<dbOpen, autocommit, lost, armMode, config, table>>
      BY <2>7 DEF setCode, executes, items, TypeOK, Database
    <3> QED
      BY <3>1 DEF StoreInv, ModeKept, ConfigKept, TableKept, OneDatabase
  <2>8. CASE commitRefused \/ committed \/ openDb
    BY <2>8 DEF commitRefused, committed, openDb, items,
        StoreInv, ModeKept, ConfigKept, TableKept, OneDatabase
  <2>9. CASE Restart
    BY <2>9 DEF Restart, StoreInv, ModeKept, ConfigKept, TableKept, OneDatabase
  <2>10. CASE \/ \E k \in Keypad, n \in Command : emergencyCommand(k, n)
              \/ \E d \in Device \ Keypad : sensorReports(d)
    BY <2>1, <2>10 DEF emergencyCommand, sensorReports, items, store
  <2>11. CASE UNCHANGED vars
    BY <2>1, <2>11 DEF vars, items, store
  <2> QED
    BY <2>2, <2>3, <2>4, <2>5, <2>6, <2>7, <2>8, <2>9, <2>10, <2>11,
       PutKeeps, EraseKeeps, CloseKeeps DEF Next, Input
<1>3. StoreInv => OnlyLostIsForgotten
  <2> SUFFICES ASSUME StoreInv PROVE OnlyLostIsForgotten
    OBVIOUS
  <2>1. RowStored(ModeRow, armMode, {"failed", "undone"})
    BY RowValues DEF StoreInv, ModeKept, OneDatabase, RowStored
  <2>2. ASSUME NEW p \in Parameter, NEW m \in ArmMode
        PROVE  RowStored(ConfigRow(p, m), config[p][m], {"failed", "closed", "undone"})
    BY RowValues DEF StoreInv, ConfigKept, OneDatabase, RowStored
  <2>3. ASSUME NEW d \in Device
        PROVE  RowStored(DeviceRow(d), table[d],
                         IF table[d] = NoEntry THEN {"undone"}
                         ELSE {"failed", "closed", "undone"})
    BY RowValues DEF StoreInv, TableKept, OneDatabase, RowStored
  <2> QED
    BY <2>1, <2>2, <2>3 DEF OnlyLostIsForgotten
<1> QED
  BY <1>1, <1>2, <1>3, AlarmTypeCorrect, PTL DEF Spec

-----------------------------------------------------------------------------
(* What keypads and websocket clients know.                                *)

(* The item an event is about.                                             *)
ItemOf(e) == IF e[1] = "config" THEN <<e[2], e[3]>> ELSE <<e[1]>>

(* An event about one of the items C is in the queue.                      *)
Pending(q, C) == \E x : Queued(q, x) /\ ItemOf(x) \in C

(* Queue new has what q has; at most e on top of it.                       *)
Contains(new, q) == \A x : Queued(q, x) => Queued(new, x)
OnlyAdds(new, q, e) == \A x : Queued(new, x) => Queued(q, x) \/ x = e

(* A client knows no value yet or the right one p = v, or an event is in   *)
(* the queue whose item still has its flag, so that it will be pushed.     *)
Known(p, v, q, C) == p = <<>> \/ p = v \/ Pending(q, C)

ClientInv ==
    /\ \A k \in mirrored : table[k] # NoEntry =>
           Pending(queue, StateItem) \/ keypad[k] = <<armState, secondsRemaining>>
    /\ Known(pushed.state, <<armState, seconds>>, queue, needPush \cap StateItem)
    /\ Known(pushed.config, <<armMode, config>>, queue, needPush \cap ConfigItem)

(* Whether an item is a state or a config item can be told.                *)
LEMMA ItemsDiffer ==
    /\ StateItem \cap ConfigItem = {}
    /\ \A st : ItemOf(ArmStateEvent(st)) = <<"armstate">>
    /\ \A n : ItemOf(SecondsEvent(n)) = <<"seconds">>
    /\ \A p, m, n : ItemOf(ConfigEvent(p, m, n)) = <<p, m>>
    /\ ItemOf(ArmModeEvent) = <<"armmode">>
<1>1. StateItem \cap ConfigItem = {}
  BY DEF StateItem, ConfigItem
<1>2. (\A st : ItemOf(ArmStateEvent(st)) = <<"armstate">>)
      /\ (\A n : ItemOf(SecondsEvent(n)) = <<"seconds">>)
  BY DEF ItemOf, ArmStateEvent, SecondsEvent
<1>3. \A p, m, n : ItemOf(ConfigEvent(p, m, n)) = <<p, m>>
  BY DEF ItemOf, ConfigEvent
<1>4. ItemOf(ArmModeEvent) = <<"armmode">>
  BY DEF ItemOf, ArmModeEvent
<1> QED
  BY <1>1, <1>2, <1>3, <1>4

(* enqueueEvent() for events of the alarm system.                          *)
LEMMA EnqueueTells ==
    ASSUME NEW q \in Seq(Events), NEW e \in Events, NEW new, new = enqueueEvent(q, e)
    PROVE  /\ new \in Seq(Events)
           /\ Contains(new, q) /\ OnlyAdds(new, q, e) /\ Queued(new, e)
  BY EnqueueKeeps DEF Contains, OnlyAdds

(* setSecondsRemaining() and setState() flag and announce what they change, *)
(* and lose no event and no flag.                                          *)
LEMMA SetSecondsAndStateTells ==
    ASSUME armState \in PanelStatus,
           NEW q \in Seq(Events), NEW push, NEW secs \in Nat, NEW st, NEW target,
           SetSecondsAndState(q, push, secs, st, target)
    PROVE  /\ Contains(queue', q)
           /\ \A x : Queued(queue', x) => Queued(q, x) \/ ItemOf(x) \in StateItem
           /\ push \subseteq needPush' /\ needPush' \subseteq push \cup StateItem
           /\ \/ armState' = armState /\ seconds' = seconds
              \/ Pending(queue', needPush' \cap StateItem)
<1> DEFINE status == panelStatus(st, target)
           e1 == SecondsEvent(secs)
           e2 == ArmStateEvent(status)
           q1 == IF secs # seconds THEN enqueueEvent(q, e1) ELSE q
<1>1. e1 \in Events /\ e2 \in Events
  BY PanelStatusType, EventTypes
<1>2. ItemOf(e1) = <<"seconds">> /\ ItemOf(e2) = <<"armstate">>
  BY ItemsDiffer
<1>3. /\ seconds' = secs /\ armState' = status
      /\ queue' = IF status # armState THEN enqueueEvent(q1, e2) ELSE q1
      /\ push \subseteq needPush' /\ needPush' \subseteq push \cup StateItem
      /\ secs # seconds => <<"seconds">> \in needPush' \cap StateItem
      /\ status # armState => <<"armstate">> \in needPush' \cap StateItem
  BY DEF SetSecondsAndState, StateItem
<1>4. q1 = IF secs # seconds THEN enqueueEvent(q, e1) ELSE q
  OBVIOUS
<1>a. <<"seconds">> \in StateItem /\ <<"armstate">> \in StateItem
  BY DEF StateItem
<1> HIDE DEF q1, e1, e2, status
<1>5. /\ q1 \in Seq(Events)
      /\ Contains(q1, q) /\ OnlyAdds(q1, q, e1)
      /\ secs # seconds => Queued(q1, e1)
  <2>1. CASE secs # seconds
    <3>1. q1 = enqueueEvent(q, e1)
      BY <1>4, <2>1
    <3> QED
      BY <1>1, <3>1, EnqueueTells
  <2>2. CASE secs = seconds
    <3>1. q1 = q
      BY <1>4, <2>2
    <3> QED
      BY <2>2, <3>1 DEF Contains, OnlyAdds
  <2> QED
    BY <2>1, <2>2
<1>6. /\ Contains(queue', q1) /\ OnlyAdds(queue', q1, e2)
      /\ status # armState => Queued(queue', e2)
  <2>1. CASE status # armState
    <3>1. queue' = enqueueEvent(q1, e2)
      BY <1>3, <2>1
    <3> QED
      BY <1>1, <1>5, <3>1, EnqueueTells
  <2>2. CASE status = armState
    <3>1. queue' = q1
      BY <1>3, <2>2
    <3> QED
      BY <2>2, <3>1 DEF Contains, OnlyAdds
  <2> QED
    BY <2>1, <2>2
<1>7. Contains(queue', q)
  BY <1>5, <1>6 DEF Contains
<1>8. \A x : Queued(queue', x) => Queued(q, x) \/ ItemOf(x) \in StateItem
  BY <1>2, <1>5, <1>6, <1>a DEF OnlyAdds
<1>9. secs # seconds => Pending(queue', needPush' \cap StateItem)
  BY <1>2, <1>3, <1>5, <1>6 DEF Pending, Contains
<1>10. status # armState => Pending(queue', needPush' \cap StateItem)
  BY <1>2, <1>3, <1>6 DEF Pending
<1> QED
  BY <1>3, <1>7, <1>8, <1>9, <1>10

(* The seconds a keypad shows follow from the two items, since state/armstate *)
(* tells whether a delay is running.                                       *)
LEMMA SameSeconds ==
    ASSUME MachineInv, MachineInv', armState' = armState, seconds' = seconds
    PROVE  secondsRemaining' = secondsRemaining
  BY DEF MachineInv, PanelShowsState, secondsRemaining

(* A step that pushes nothing and notifies no event about an item.         *)
LEMMA ClientKept ==
    ASSUME ClientInv, MachineInv, MachineInv',
           \A x : Queued(queue, x) /\ ItemOf(x) \in StateItem \cup ConfigItem
                      => Queued(queue', x),
           needPush \subseteq needPush',
           \/ armState' = armState /\ seconds' = seconds
           \/ Pending(queue', needPush' \cap StateItem),
           \/ armMode' = armMode /\ config' = config
           \/ Pending(queue', needPush' \cap ConfigItem),
           UNCHANGED <<keypad, pushed>>,
           \A k \in mirrored' : k \in mirrored /\ (table'[k] # NoEntry => table[k] # NoEntry)
    PROVE  ClientInv'
<1>1. \A C : C \subseteq StateItem \cup ConfigItem /\ Pending(queue, C) => Pending(queue', C)
  BY DEF Pending
<1>2. \A C, D : C \subseteq D /\ Pending(queue', C) => Pending(queue', D)
  BY DEF Pending
<1>3. Known(pushed.state, <<armState, seconds>>, queue, needPush \cap StateItem)'
  <2>1. Pending(queue, needPush \cap StateItem) => Pending(queue', needPush' \cap StateItem)
    <3>1. needPush \cap StateItem \subseteq StateItem \cup ConfigItem
          /\ needPush \cap StateItem \subseteq needPush' \cap StateItem
      OBVIOUS
    <3> QED
      BY <1>1, <1>2, <3>1, Zenon
  <2> QED
    BY <2>1 DEF ClientInv, Known
<1>4. Known(pushed.config, <<armMode, config>>, queue, needPush \cap ConfigItem)'
  <2>1. Pending(queue, needPush \cap ConfigItem) => Pending(queue', needPush' \cap ConfigItem)
    <3>1. needPush \cap ConfigItem \subseteq StateItem \cup ConfigItem
          /\ needPush \cap ConfigItem \subseteq needPush' \cap ConfigItem
      OBVIOUS
    <3> QED
      BY <1>1, <1>2, <3>1, Zenon
  <2> QED
    BY <2>1 DEF ClientInv, Known
<1>5. ASSUME NEW k \in mirrored', table'[k] # NoEntry
      PROVE  Pending(queue', StateItem) \/ keypad'[k] = <<armState, secondsRemaining>>'
  <2>1. Pending(queue, StateItem) \/ keypad[k] = <<armState, secondsRemaining>>
    BY <1>5 DEF ClientInv
  <2>2. StateItem \subseteq StateItem \cup ConfigItem /\ needPush' \cap StateItem \subseteq StateItem
    OBVIOUS
  <2>3. Pending(queue, StateItem) => Pending(queue', StateItem)
    BY <1>1, <2>2, Zenon
  <2>4. Pending(queue', needPush' \cap StateItem) => Pending(queue', StateItem)
    BY <1>2, <2>2, Zenon
  <2>5. CASE armState' = armState /\ seconds' = seconds
    BY <2>1, <2>3, <2>5, SameSeconds
  <2> QED
    BY <2>4, <2>5
<1> QED
  BY <1>3, <1>4, <1>5 DEF ClientInv


(* Notifying an event about an item that is not in D: the other events     *)
(* about items of D stay in the queue.                                     *)
LEMMA PendingKept ==
    ASSUME queue \in Seq(Events), queue # <<>>, NEW D, ItemOf(Head(queue)) \notin D,
           NEW q2, Contains(q2, Tail(queue)), Pending(queue, D)
    PROVE  Pending(q2, D)
<1>1. PICK x : Queued(queue, x) /\ ItemOf(x) \in D
  BY DEF Pending
<1>2. Queued(Tail(queue), x)
  BY <1>1, TailKeeps
<1> QED
  BY <1>1, <1>2 DEF Pending, Contains

(* What is known of the other class stays known.                           *)
LEMMA OtherKnown ==
    ASSUME NEW C, NEW it, it \notin C, NEW p, NEW v, NEW push,
           queue \in Seq(Events), queue # <<>>, ItemOf(Head(queue)) = it,
           Known(p, v, queue, push \cap C),
           NEW push2, push \cap C \subseteq push2,
           NEW v2, NEW q2, Contains(q2, Tail(queue)),
           v2 = v \/ Pending(q2, push2 \cap C)
    PROVE  Known(p, v2, q2, push2 \cap C)
<1>1. ASSUME Pending(queue, push \cap C) PROVE Pending(q2, push2 \cap C)
  <2>1. Pending(q2, push \cap C)
    BY <1>1, PendingKept
  <2> QED
    BY <2>1 DEF Pending
<1> QED
  BY <1>1 DEF Known

LEMMA FlagsAfterPush ==
    ASSUME NEW it
    PROVE  /\ it \notin needPush => flagsAfterPush(it) = needPush
           /\ it \in ConfigItem => needPush \cap StateItem \subseteq flagsAfterPush(it)
           /\ it \in StateItem => needPush \cap ConfigItem \subseteq flagsAfterPush(it)
<1>1. StateItem \cap ConfigItem = {}
  BY ItemsDiffer
<1> QED
  BY <1>1 DEF flagsAfterPush

(* handleStateEvent: every keypad of the table is brought up to date.      *)
LEMMA StateEventClients ==
    ASSUME TypeOK, ClientInv, handleStateEvent, queue # <<>>
    PROVE  ClientInv'
<1> DEFINE it == <<Head(queue)[1]>>
<1>1. /\ it \in StateItem /\ mirrorKeypadAlarmSystemState /\ pushEventToWebsocket(it)
      /\ needPush' = flagsAfterPush(it) /\ queue' = Tail(queue)
      /\ UNCHANGED <<machine, armState, seconds, armMode, config, table>>
  BY DEF handleStateEvent
<1>2. ItemOf(Head(queue)) = it
  <2>1. Head(queue)[1] # "config"
    BY <1>1 DEF StateItem
  <2> QED
    BY <2>1 DEF ItemOf
<1>3. it \notin ConfigItem
  BY <1>1, ItemsDiffer
<1> HIDE DEF it
<1>4. /\ pushed'.state = IF it \in needPush \cap StateItem THEN <<armState, seconds>> ELSE pushed.state
      /\ pushed'.config = pushed.config
  BY <1>1, <1>3 DEF pushEventToWebsocket
<1>5. queue \in Seq(Events) /\ Contains(queue', Tail(queue))
  BY <1>1 DEF TypeOK, Contains
<1>6. /\ it \notin needPush => needPush' = needPush
      /\ needPush \cap ConfigItem \subseteq needPush'
  BY <1>1, FlagsAfterPush
<1>7. Known(pushed'.state, <<armState, seconds>>, queue', needPush' \cap StateItem)
  <2>1. Known(pushed.state, <<armState, seconds>>, queue, needPush \cap StateItem)
    BY DEF ClientInv
  <2> QED
    <3>1. CASE it \in needPush
      <4>1. pushed'.state = <<armState, seconds>>
        BY <1>1, <1>4, <3>1
      <4> QED
        BY <4>1 DEF Known
    <3>2. CASE it \notin needPush
      <4>1. pushed'.state = pushed.state /\ needPush' = needPush
        BY <1>4, <1>6, <3>2
      <4>2. ItemOf(Head(queue)) \notin needPush \cap StateItem
        BY <1>2, <3>2
      <4>3. Pending(queue, needPush \cap StateItem) => Pending(queue', needPush \cap StateItem)
        BY <1>5, <4>2, PendingKept
      <4> QED
        BY <2>1, <4>1, <4>3 DEF Known
    <3> QED
      BY <3>1, <3>2
<1>8. Known(pushed'.config, <<armMode, config>>, queue', needPush' \cap ConfigItem)
  <2>1. Known(pushed.config, <<armMode, config>>, queue, needPush \cap ConfigItem)
    BY DEF ClientInv
  <2> QED
    BY <1>2, <1>3, <1>4, <1>5, <1>6, <2>1, OtherKnown
<1>9. secondsRemaining' = secondsRemaining
  BY <1>1 DEF secondsRemaining, machine
<1>10. ASSUME NEW k \in mirrored', table'[k] # NoEntry
       PROVE  keypad'[k] = <<armState, secondsRemaining>>'
  <2>1. k \in Keypad /\ table[k] # NoEntry
    BY <1>1, <1>10 DEF mirrorKeypadAlarmSystemState, TypeOK
  <2> QED
    BY <1>1, <1>9, <2>1 DEF mirrorKeypadAlarmSystemState
<1> QED
  BY <1>1, <1>7, <1>8, <1>10 DEF ClientInv

(* An event about a config item it is notified; config/armmode may also    *)
(* start the exit delay.                                                   *)
LEMMA ConfigPushClients ==
    ASSUME TypeOK, ClientInv, MachineInv, MachineInv', queue # <<>>,
           NEW it \in ConfigItem, ItemOf(Head(queue)) = it, pushEventToWebsocket(it),
           it \notin needPush => needPush' \cap ConfigItem = needPush \cap ConfigItem,
           needPush \cap StateItem \subseteq needPush',
           Contains(queue', Tail(queue)),
           \/ armState' = armState /\ seconds' = seconds
           \/ Pending(queue', needPush' \cap StateItem),
           UNCHANGED <<armMode, config, keypad, mirrored, table>>
    PROVE  ClientInv'
<1>1. it \notin StateItem
  BY ItemsDiffer
<1>2. /\ pushed'.config = IF it \in needPush \cap ConfigItem THEN <<armMode, config>> ELSE pushed.config
      /\ pushed'.state = pushed.state
  BY <1>1 DEF pushEventToWebsocket
<1>3. queue \in Seq(Events)
  BY DEF TypeOK
<1>4. Known(pushed'.config, <<armMode, config>>, queue', needPush' \cap ConfigItem)
  <2>1. Known(pushed.config, <<armMode, config>>, queue, needPush \cap ConfigItem)
    BY DEF ClientInv
  <2>2. CASE it \in needPush
    <3>1. pushed'.config = <<armMode, config>>
      BY <1>2, <2>2
    <3> QED
      BY <3>1 DEF Known
  <2>3. CASE it \notin needPush
    <3>1. pushed'.config = pushed.config /\ needPush' \cap ConfigItem = needPush \cap ConfigItem
      BY <1>2, <2>3
    <3>2. ItemOf(Head(queue)) \notin needPush \cap ConfigItem
      BY <2>3
    <3>3. Pending(queue, needPush \cap ConfigItem) => Pending(queue', needPush \cap ConfigItem)
      BY <1>3, <3>2, PendingKept
    <3>4. Known(pushed.config, <<armMode, config>>, queue', needPush \cap ConfigItem)
      BY <2>1, <3>3 DEF Known
    <3> QED
      BY <3>1, <3>4, Zenon
  <2> QED
    BY <2>2, <2>3
<1>5. Known(pushed'.state, <<armState', seconds'>>, queue', needPush' \cap StateItem)
  <2>1. Known(pushed.state, <<armState, seconds>>, queue, needPush \cap StateItem)
    BY DEF ClientInv
  <2>2. <<armState', seconds'>> = <<armState, seconds>> \/ Pending(queue', needPush' \cap StateItem)
    OBVIOUS
  <2> QED
    BY <1>1, <1>2, <1>3, <2>1, <2>2, OtherKnown
<1>6. ASSUME NEW k \in mirrored', table'[k] # NoEntry
      PROVE  Pending(queue', StateItem) \/ keypad'[k] = <<armState, secondsRemaining>>'
  <2>1. Pending(queue, StateItem) \/ keypad[k] = <<armState, secondsRemaining>>
    BY <1>6 DEF ClientInv
  <2>2. ASSUME Pending(queue, StateItem) PROVE Pending(queue', StateItem)
    <3>1. PICK x : Queued(queue, x) /\ ItemOf(x) \in StateItem
      BY <2>2 DEF Pending
    <3>2. Queued(Tail(queue), x)
      BY <1>1, <1>3, <3>1, TailKeeps
    <3> QED
      BY <3>1, <3>2 DEF Pending, Contains
  <2>3. Pending(queue', needPush' \cap StateItem) => Pending(queue', StateItem)
    BY DEF Pending
  <2>4. CASE armState' = armState /\ seconds' = seconds
    BY <2>1, <2>2, <2>4, SameSeconds
  <2> QED
    BY <2>3, <2>4
<1> QED
  BY <1>4, <1>5, <1>6 DEF ClientInv


(* Alarms, sensors and actions are about no item of the alarm system.      *)
LEMMA OtherEvents ==
    ASSUME NEW e, e[1] \in {"devicealarm", "sensor", "action"}
    PROVE  ItemOf(e) \notin StateItem \cup ConfigItem
  BY DEF ItemOf, StateItem, ConfigItem

(* setTargetArmMode() flags and announces the mode when it sets it.        *)
LEMMA ArmModeTold ==
    ASSUME queue \in Seq(Events), NEW call \in BOOLEAN, NEW mode,
           setTargetArmMode(call, mode)
    PROVE  /\ armModeQueue(call, mode) \in Seq(Events)
           /\ Contains(armModeQueue(call, mode), queue)
           /\ OnlyAdds(armModeQueue(call, mode), queue, ArmModeEvent)
           /\ needPush \subseteq needPush'
           /\ \/ armMode' = armMode
              \/ <<"armmode">> \in needPush' /\ Queued(armModeQueue(call, mode), ArmModeEvent)
<1>1. ArmModeEvent \in Events
  BY EventTypes
<1>2. CASE call /\ setsArmMode(mode)
  <2>1. armModeQueue(call, mode) = enqueueEvent(queue, ArmModeEvent)
    BY <1>2 DEF armModeQueue
  <2>2. needPush' = needPush \cup {<<"armmode">>}
    BY <1>2 DEF setTargetArmMode
  <2> QED
    BY <1>1, <2>1, <2>2, EnqueueTells
<1>3. CASE ~(call /\ setsArmMode(mode))
  <2>1. armMode' = armMode /\ armModeQueue(call, mode) = queue /\ needPush' = needPush
    BY <1>3 DEF setTargetArmMode, armModeQueue
  <2> QED
    BY <2>1 DEF Contains, OnlyAdds
<1> QED
  BY <1>2, <1>3

(* Ticks of the timer, which only set the state items.                     *)
LEMMA TimerClients ==
    ASSUME TypeOK, ClientInv, MachineInv, MachineInv',
           NEW step \in 1..MaxStep, NEW late \in BOOLEAN, timerFired(step, late)
    PROVE  ClientInv'
<1> DEFINE sec == dt + step
<1>1. sec \in Nat /\ queue \in Seq(Events) /\ armState \in PanelStatus /\ seconds \in Nat
  BY DEF TypeOK
<1>2. UNCHANGED <<armMode, config, keypad, pushed, mirrored, table>>
  BY DEF timerFired, clients
<1> HIDE DEF sec
<1>3. ASSUME Contains(queue', queue), needPush \subseteq needPush',
             \/ armState' = armState /\ seconds' = seconds
             \/ Pending(queue', needPush' \cap StateItem)
      PROVE  ClientInv'
  <2>1. \A x : Queued(queue, x) /\ ItemOf(x) \in StateItem \cup ConfigItem => Queued(queue', x)
    BY <1>3 DEF Contains
  <2> QED
    BY <1>2, <1>3, <2>1, ClientKept
<1>4. ASSUME NEW st, NEW secs \in Nat, SetSecondsAndState(queue, needPush, secs, st, targetState)
      PROVE  ClientInv'
  BY <1>1, <1>3, <1>4, SetSecondsAndStateTells
<1>5. ASSUME UNCHANGED <<queue, needPush, armState, seconds>>
      PROVE  ClientInv'
  <2>1. Contains(queue', queue)
    BY <1>5 DEF Contains
  <2> QED
    BY <1>3, <1>5, <2>1
<1>6. CASE stateExitDelay(sec, late)
  <2>1. ~elapsed(exitDelay, sec, late) => remaining(exitDelay, sec, late) \in Nat
    BY <1>1, RemainingType DEF TypeOK
  <2> QED
    BY <1>4, <1>6, <2>1 DEF stateExitDelay
<1>7. CASE stateEntryDelay(sec, late)
  <2>1. ~elapsed(entryDelay, sec, late) => remaining(entryDelay, sec, late) \in Nat
    BY <1>1, RemainingType DEF TypeOK
  <2> QED
    BY <1>4, <1>7, <2>1 DEF stateEntryDelay
<1>8. CASE stateInAlarm(sec, late)
  BY <1>1, <1>4, <1>5, <1>8 DEF stateInAlarm
<1>9. CASE stateArming
  BY <1>1, <1>4, <1>9 DEF stateArming
<1> QED
  BY <1>5, <1>6, <1>7, <1>8, <1>9 DEF timerFired, sec

(* Notifications: what is removed from the queue is what was just told.    *)
LEMMA EventClients ==
    ASSUME TypeOK, ClientInv, MachineInv, MachineInv', handleEvent
    PROVE  ClientInv'
<1>1. queue # <<>> /\ queue \in Seq(Events) /\ armState \in PanelStatus
  BY DEF handleEvent, TypeOK
<1>2. Tail(queue) \in Seq(Events) /\ Head(queue) \in Events
  BY <1>1, TailKeeps
<1>3. ASSUME ItemOf(Head(queue)) \notin StateItem \cup ConfigItem,
             Contains(queue', Tail(queue)), needPush \subseteq needPush',
             \/ armState' = armState /\ seconds' = seconds
             \/ Pending(queue', needPush' \cap StateItem),
             UNCHANGED <<armMode, config, keypad, pushed, mirrored, table>>
      PROVE  ClientInv'
  <2>1. \A x : Queued(queue, x) /\ ItemOf(x) \in StateItem \cup ConfigItem => Queued(queue', x)
    BY <1>1, <1>3, TailKeeps DEF Contains
  <2> QED
    BY <1>3, <2>1, ClientKept
<1>4. CASE handleArmModeEvent
  <2> DEFINE it == <<"armmode">>
  <2>1. it \in ConfigItem /\ ItemOf(Head(queue)) = it
    BY <1>4, ItemsDiffer DEF handleArmModeEvent, ConfigItem
  <2>2. pushEventToWebsocket(it) /\ UNCHANGED <<armMode, config, keypad, mirrored, table>>
    BY <1>4 DEF handleArmModeEvent
  <2> DEFINE flags == flagsAfterPush(it)
  <2>3. /\ it \notin needPush => flags = needPush
        /\ needPush \cap StateItem \subseteq flags
    BY <2>1, FlagsAfterPush
  <2>4. CASE armMode = targetState
    <3>1. queue' = Tail(queue) /\ needPush' = flags /\ UNCHANGED <<seconds, armState>>
      BY <1>4, <2>4 DEF handleArmModeEvent
    <3>2. Contains(queue', Tail(queue))
      BY <3>1 DEF Contains
    <3> HIDE DEF it, flags
    <3> QED
      BY <1>1, <2>1, <2>2, <2>3, <3>1, <3>2, ConfigPushClients
  <2>5. CASE armMode # targetState
    <3>1. SetSecondsAndState(Tail(queue), flags, config["exit_delay"][armMode], "ExitDelay", armMode)
      BY <1>4, <2>5 DEF handleArmModeEvent
    <3>2. config["exit_delay"][armMode] \in Nat
      BY DelayType DEF TypeOK
    <3> HIDE DEF it, flags
    <3>3. /\ Contains(queue', Tail(queue))
          /\ flags \subseteq needPush' /\ needPush' \subseteq flags \cup StateItem
          /\ \/ armState' = armState /\ seconds' = seconds
             \/ Pending(queue', needPush' \cap StateItem)
      BY <1>1, <1>2, <3>1, <3>2, SetSecondsAndStateTells
    <3>4. it \notin needPush => needPush' \cap ConfigItem = needPush \cap ConfigItem
      BY <2>3, <3>3, ItemsDiffer
    <3>5. needPush \cap StateItem \subseteq needPush'
      BY <2>3, <3>3
    <3> QED
      BY <1>1, <2>1, <2>2, <3>3, <3>4, <3>5, ConfigPushClients
  <2> QED
    BY <2>4, <2>5
<1>5. CASE handleDeviceAlarm
  <2>1. ItemOf(Head(queue)) \notin StateItem \cup ConfigItem
    BY <1>5, OtherEvents DEF handleDeviceAlarm
  <2>2. UNCHANGED <<armMode, config, keypad, pushed, mirrored, table>>
    BY <1>5 DEF handleDeviceAlarm, clients
  <2>3. CASE SetSecondsAndState(Tail(queue), needPush, entryDelay, "EntryDelay", targetState)
    <3>1. /\ Contains(queue', Tail(queue)) /\ needPush \subseteq needPush'
          /\ \/ armState' = armState /\ seconds' = seconds
             \/ Pending(queue', needPush' \cap StateItem)
      <4>1. entryDelay \in Nat
        BY DEF TypeOK
      <4> QED
        BY <1>1, <1>2, <2>3, <4>1, SetSecondsAndStateTells
    <3> QED
      BY <1>3, <2>1, <2>2, <3>1
  <2>4. CASE queue' = Tail(queue) /\ UNCHANGED <<seconds, armState, needPush>>
    BY <1>3, <2>1, <2>2, <2>4 DEF Contains
  <2> QED
    BY <1>5, <2>3, <2>4 DEF handleDeviceAlarm
<1>6. CASE handleStateEvent
  BY <1>1, <1>6, StateEventClients
<1>7. CASE handleConfigEvent
  <2> DEFINE it == <<Head(queue)[2], Head(queue)[3]>>
  <2>1. /\ Head(queue)[1] = "config" /\ pushEventToWebsocket(it)
        /\ needPush' = flagsAfterPush(it) /\ queue' = Tail(queue)
        /\ UNCHANGED <<armState, seconds, armMode, config, keypad, mirrored, table>>
    BY <1>7 DEF handleConfigEvent
  <2>2. it \in ConfigItem
    BY <1>2, <2>1 DEF Events, ArmModeEvent, ConfigItem
  <2>3. ItemOf(Head(queue)) = it
    BY <2>1 DEF ItemOf
  <2> HIDE DEF it
  <2>4. /\ it \notin needPush => needPush' = needPush
        /\ needPush \cap StateItem \subseteq needPush'
    BY <2>1, <2>2, FlagsAfterPush
  <2>5. Contains(queue', Tail(queue))
    BY <2>1 DEF Contains
  <2> QED
    BY <1>1, <2>1, <2>2, <2>3, <2>4, <2>5, ConfigPushClients
<1>8. CASE AS_HandleAlarmSystemDeviceEvent
  <2>1. ItemOf(Head(queue)) \notin StateItem \cup ConfigItem
    BY <1>8, OtherEvents DEF AS_HandleAlarmSystemDeviceEvent
  <2>2. UNCHANGED <<armState, seconds, needPush, armMode, config, keypad, pushed, mirrored, table>>
    BY <1>8 DEF AS_HandleAlarmSystemDeviceEvent, items, clients
  <2>3. CASE queue' = Tail(queue)
    BY <1>3, <2>1, <2>2, <2>3 DEF Contains
  <2>4. CASE /\ table[Head(queue)[2]] # NoEntry
             /\ queue' = enqueueEvent(Tail(queue), DeviceAlarm(table[Head(queue)[2]]))
    <3>1. Head(queue)[2] \in Device
      BY <1>2, <1>8, DeviceOfEvent DEF AS_HandleAlarmSystemDeviceEvent
    <3>2. table[Head(queue)[2]] \in SUBSET ArmedMode
      BY <2>4, <3>1 DEF TypeOK, Entry
    <3>3. DeviceAlarm(table[Head(queue)[2]]) \in Events
      BY <3>2, EventTypes
    <3>4. Contains(queue', Tail(queue))
      BY <1>2, <2>4, <3>3, EnqueueTells
    <3> QED
      BY <1>3, <2>1, <2>2, <3>4
  <2> QED
    BY <1>8, <2>3, <2>4 DEF AS_HandleAlarmSystemDeviceEvent
<1> QED
  BY <1>4, <1>5, <1>6, <1>7, <1>8 DEF handleEvent


(* Requests, commands and reports announce what they change; after a       *)
(* restart nothing has been told to anyone.                                *)
LEMMA InputClients ==
    ASSUME TypeOK, ClientInv, MachineInv, MachineInv', Input
    PROVE  ClientInv'
<1>1. queue \in Seq(Events) /\ mirrored \subseteq Keypad /\ table \in [Device -> Entry]
  BY DEF TypeOK
<1>2. ASSUME Contains(queue', queue), needPush \subseteq needPush',
             \/ armMode' = armMode /\ config' = config
             \/ Pending(queue', needPush' \cap ConfigItem),
             UNCHANGED <<armState, seconds, keypad, pushed>>,
             \A k \in mirrored' : k \in mirrored /\ (table'[k] # NoEntry => table[k] # NoEntry)
      PROVE  ClientInv'
  <2>1. \A x : Queued(queue, x) /\ ItemOf(x) \in StateItem \cup ConfigItem => Queued(queue', x)
    BY <1>2 DEF Contains
  <2> QED
    BY <1>2, <2>1, ClientKept
<1>3. ASSUME Contains(queue', queue), UNCHANGED items, UNCHANGED clients, UNCHANGED table
      PROVE  ClientInv'
  BY <1>2, <1>3 DEF items, clients
<1>4. ASSUME UNCHANGED <<queue, items, clients, table>>
      PROVE  ClientInv'
  <2>1. Contains(queue', queue)
    BY <1>4 DEF Contains
  <2> QED
    BY <1>3, <1>4, <2>1
<1>5. ASSUME NEW call \in BOOLEAN, NEW mode, setTargetArmMode(call, mode),
             Contains(queue', armModeQueue(call, mode)),
             UNCHANGED <<armState, seconds, config>>, UNCHANGED clients, UNCHANGED table
      PROVE  ClientInv'
  <2>1. /\ Contains(armModeQueue(call, mode), queue) /\ needPush \subseteq needPush'
        /\ \/ armMode' = armMode
           \/ <<"armmode">> \in needPush' /\ Queued(armModeQueue(call, mode), ArmModeEvent)
    BY <1>1, <1>5, ArmModeTold
  <2>2. Contains(queue', queue)
    BY <1>5, <2>1 DEF Contains
  <2>3. ASSUME <<"armmode">> \in needPush', Queued(armModeQueue(call, mode), ArmModeEvent)
        PROVE  Pending(queue', needPush' \cap ConfigItem)
    <3>1. <<"armmode">> \in ConfigItem /\ ItemOf(ArmModeEvent) = <<"armmode">>
      BY ItemsDiffer DEF ConfigItem
    <3>2. Queued(queue', ArmModeEvent)
      BY <1>5, <2>3 DEF Contains
    <3> QED
      BY <2>3, <3>1, <3>2 DEF Pending
  <2> QED
    BY <1>2, <1>5, <2>1, <2>2, <2>3 DEF clients
<1>6. ASSUME NEW mode, NEW code, putAlarmSystemArmMode(mode, code)
      PROVE  ClientInv'
  <2>1. /\ setTargetArmMode(TRUE, mode) /\ queue' = armModeQueue(TRUE, mode)
        /\ UNCHANGED <<armState, seconds, config, clients, table>>
    BY <1>6 DEF putAlarmSystemArmMode
  <2>2. Contains(queue', armModeQueue(TRUE, mode))
    BY <2>1 DEF Contains
  <2> QED
    BY <1>5, <2>1, <2>2
<1>7. ASSUME NEW k \in Keypad, NEW mode \in RequestMode, NEW code, handleArmCommand(k, mode, code)
      PROVE  ClientInv'
  <2> DEFINE accepted == /\ table[k] # NoEntry
                         /\ isValidCode(code)
                         /\ ~(targetState = "disarmed" /\ mode = "disarmed")
             e == ActionEvent(k, ModeNumber[mode])
  <2>1. /\ setTargetArmMode(accepted, mode) /\ accepted \in BOOLEAN
        /\ queue' = enqueueEvent(armModeQueue(accepted, mode), e)
        /\ UNCHANGED <<armState, seconds, config, clients, table>>
    BY <1>7 DEF handleArmCommand
  <2>2. e \in Events
    BY EventTypes DEF ModeNumber, ArmMode
  <2> HIDE DEF accepted, e
  <2>3. armModeQueue(accepted, mode) \in Seq(Events)
    BY <1>1, <2>1, ArmModeTold
  <2>4. Contains(queue', armModeQueue(accepted, mode))
    BY <2>1, <2>2, <2>3, EnqueueTells
  <2> QED
    BY <1>5, <2>1, <2>4
<1>8. ASSUME NEW k \in Keypad, NEW n \in Command, emergencyCommand(k, n)
      PROVE  ClientInv'
  <2>1. n \in Nat /\ ActionEvent(k, n) \in Events
    BY EventTypes DEF Emergency, Panic
  <2>2. queue' = enqueueEvent(queue, ActionEvent(k, n)) /\ UNCHANGED <<items, clients, table>>
    BY <1>8 DEF emergencyCommand
  <2>3. Contains(queue', queue)
    BY <1>1, <2>1, <2>2, EnqueueTells
  <2> QED
    BY <1>3, <2>2, <2>3
<1>9. ASSUME NEW d \in Device, sensorReports(d)
      PROVE  ClientInv'
  <2>1. SensorEvent(d) \in Events
    BY EventTypes
  <2>2. queue' = enqueueEvent(queue, SensorEvent(d)) /\ UNCHANGED <<items, clients, table>>
    BY <1>9 DEF sensorReports
  <2>3. Contains(queue', queue)
    BY <1>1, <2>1, <2>2, EnqueueTells
  <2> QED
    BY <1>3, <2>2, <2>3
<1>10. ASSUME NEW c \in ConfigChange, putAlarmSystemConfig(c[1], c[2], c[3])
       PROVE  ClientInv'
  <2> DEFINE e == ConfigEvent(c[1], c[2], c[3])
             it == <<c[1], c[2]>>
  <2>1. c[1] \in Parameter /\ c[2] \in ArmMode /\ c[3] \in Nat
    OBVIOUS
  <2>2. e \in Events /\ ItemOf(e) = it /\ it \in ConfigItem
    BY <2>1, EventTypes, ItemsDiffer DEF ConfigItem
  <2>3. /\ needPush' = needPush \cup {it} /\ queue' = enqueueEvent(queue, e)
        /\ UNCHANGED <<armState, seconds, keypad, pushed, mirrored, table>>
    BY <1>10 DEF putAlarmSystemConfig, clients
  <2> HIDE DEF e, it
  <2>4. Contains(queue', queue) /\ Queued(queue', e)
    BY <1>1, <2>2, <2>3, EnqueueTells
  <2>5. Pending(queue', needPush' \cap ConfigItem)
    BY <2>2, <2>3, <2>4 DEF Pending
  <2> QED
    BY <1>2, <2>3, <2>4, <2>5
<1>11. ASSUME NEW d \in Device, NEW mask \in Mask, put(d, mask)
       PROVE  ClientInv'
  <2>1. Contains(queue', queue)
    BY <1>11 DEF put, Contains
  <2>2. UNCHANGED <<items, keypad, pushed>>
    BY <1>11 DEF put
  <2>3. \A k \in mirrored' : k \in mirrored /\ (table'[k] # NoEntry => table[k] # NoEntry)
    BY <1>1, <1>11 DEF put
  <2> QED
    BY <1>2, <2>1, <2>2, <2>3 DEF items
<1>12. ASSUME NEW d \in Device, erase(d)
       PROVE  ClientInv'
  <2>1. Contains(queue', queue)
    BY <1>12 DEF erase, Contains
  <2>2. UNCHANGED <<items, clients>>
    BY <1>12 DEF erase
  <2>3. \A k \in mirrored' : k \in mirrored /\ (table'[k] # NoEntry => table[k] # NoEntry)
    BY <1>1, <1>12, <2>2 DEF erase, clients
  <2> QED
    BY <1>2, <2>1, <2>2, <2>3 DEF items, clients
<1>13. CASE \/ \E code \in Code : setCode(code)
            \/ commitRefused
            \/ committed
            \/ closeDb
            \/ openDb
  BY <1>4, <1>13 DEF setCode, commitRefused, committed, closeDb, openDb
<1>14. CASE Restart
  <2>1. mirrored' = {} /\ pushed' = [state |-> <<>>, config |-> <<>>]
    BY <1>14 DEF Restart
  <2> QED
    BY <2>1 DEF ClientInv, Known
<1> QED
  BY <1>6, <1>7, <1>8, <1>9, <1>10, <1>11, <1>12, <1>13, <1>14 DEF Input

(* ClientInv holds initially and every step keeps it.                      *)
LEMMA ClientsInductive == Spec => []ClientInv
<1>1. Init => ClientInv
  BY DEF Init, ClientInv, Known
<1>2. AlarmInv /\ AlarmInv' /\ ClientInv /\ [Next]_vars => ClientInv'
  <2> SUFFICES ASSUME AlarmInv, AlarmInv', ClientInv, [Next]_vars PROVE ClientInv'
    OBVIOUS
  <2>0. TypeOK /\ MachineInv /\ MachineInv'
    BY DEF AlarmInv
  <2>1. CASE UNCHANGED vars
    <3>1. UNCHANGED <<machine, items, clients, queue, table>>
      BY <2>1 DEF vars
    <3>2. secondsRemaining' = secondsRemaining
      BY <3>1 DEF machine, items, secondsRemaining
    <3> QED
      BY <3>1, <3>2 DEF items, clients, ClientInv, Known, Pending
  <2>2. CASE TimerStep
    BY <2>0, <2>2, TimerClients DEF TimerStep
  <2>3. CASE handleEvent
    BY <2>0, <2>3, EventClients
  <2>4. CASE Input
    BY <2>0, <2>4, InputClients
  <2> QED
    BY <2>1, <2>2, <2>3, <2>4 DEF Next
<1> QED
  BY <1>1, <1>2, AlarmInvInductive, PTL DEF Spec

(* An event about a state item is a state event, likewise config.          *)
LEMMA PendingIs ==
    ASSUME TypeOK
    PROVE  /\ Pending(queue, StateItem) => StateEventQueued
           /\ Pending(queue, ConfigItem) => ConfigEventQueued
<1>1. \A k \in 1..Len(queue) : queue[k] \in Events
  BY DEF TypeOK
<1>2. \A e : ItemOf(e) \in StateItem => e[1] \in {"armstate", "seconds"}
  BY DEF ItemOf, StateItem
<1>3. \A e : ItemOf(e) \in ConfigItem => e[1] \in {"armmode", "config"}
  BY DEF ItemOf, ConfigItem
<1>4. Pending(queue, StateItem) => StateEventQueued
  BY <1>2 DEF Pending, Queued, StateEventQueued
<1>5. Pending(queue, ConfigItem) => ConfigEventQueued
  BY <1>3 DEF Pending, Queued, ConfigEventQueued
<1> QED
  BY <1>4, <1>5

(* mirrorKeypadAlarmSystemState(): once the events about the state are     *)
(* processed, each keypad that was mirrored to since it was added shows    *)
(* the panel status and the seconds, however devices are added, removed    *)
(* and added again and however ticks and requests interleave.              *)
THEOREM KeypadsShowPanel == Spec => []KeypadShowsPanel
<1>1. TypeOK /\ ClientInv => KeypadShowsPanel
  BY PendingIs DEF ClientInv, KeypadShowsPanel
<1> QED
  BY <1>1, ClientsInductive, AlarmTypeCorrect, PTL

(* pushEventToWebsocket() sends all items of a class and clears all their  *)
(* flags, and later events of the class send nothing: even so no client is *)
(* left with an old value once the queue has no event of the class.        *)
THEOREM ClientsUpToDate == Spec => []WebsocketUpToDate
<1>1. TypeOK /\ ClientInv => WebsocketUpToDate
  <2> SUFFICES ASSUME TypeOK, ClientInv PROVE WebsocketUpToDate
    OBVIOUS
  <2>1. /\ Pending(queue, needPush \cap StateItem) => Pending(queue, StateItem)
        /\ Pending(queue, needPush \cap ConfigItem) => Pending(queue, ConfigItem)
    BY DEF Pending
  <2> QED
    BY <2>1, PendingIs DEF ClientInv, Known, WebsocketUpToDate
<1> QED
  BY <1>1, ClientsInductive, AlarmTypeCorrect, PTL
=============================================================================
