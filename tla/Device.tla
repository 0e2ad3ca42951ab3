------------------------------- MODULE Device -------------------------------
(***************************************************************************)
(* The per device supervisor (device.cpp): a hierarchical state machine    *)
(* that interviews a Zigbee device and, once a device description (DDF)    *)
(* is applied, runs sub states in parallel.                                *)
(*                                                                         *)
(*   level 0  Init -> NodeDescriptor -> ActiveEndpoints ->                 *)
(*            SimpleDescriptor -> BasicCluster -> GetDeviceDescription ->  *)
(*            Idle | Dead,   Init -> Zgp | Dead                            *)
(*   level 1  Binding (a device whose DDF declares no bindings)            *)
(*   level 2  PollIdle -> PollNext <-> PollBusy                            *)
(*                                                                         *)
(* setState() leaves a state at once and announces the new one by an       *)
(* urgent REventStateEnter; until that arrives the level is locked.  All   *)
(* other events come from the normal queue of the event emitter (module    *)
(* EventEmitter: urgent events first, duplicates merged), from the state   *)
(* timers, which call the handler directly, and from the DDF reload of the *)
(* device widget, which bypasses the queue.                                *)
(***************************************************************************)
EXTENDS Integers, Sequences, FiniteSets

CONSTANTS
  NumEndpoints,            \* active endpoints of the device
  MaxItems,                \* items a poll round may collect
  MaxPollItemRetries,      \* device.cpp: 3
  MaxIdleApsConfirmErrors, \* device.cpp: 16
  RxOnWhenIdle,            \* the device listens while idle (not a sleeper)
  Kinds,                   \* kinds of device considered
  Cores,                   \* what the core may know when the device is created
  WidgetReloads,           \* the device widget is there and reloads DDFs
  MaxQueue,                \* bound: inputs arrive while the queue is shorter
  MaxUrgent                \* bound: the widget reloads while fewer StateEnter wait

ASSUME DeviceAssumption ==
  /\ NumEndpoints \in Nat \ {0}
  /\ MaxItems \in Nat
  /\ MaxPollItemRetries \in Nat \ {0}
  /\ MaxIdleApsConfirmErrors \in Nat
  /\ RxOnWhenIdle \in BOOLEAN
  /\ WidgetReloads \in BOOLEAN
  /\ MaxQueue \in Nat
  /\ MaxUrgent \in Nat
  /\ Kinds \subseteq {"zigbee", "zgp", "coordinator"}

VARIABLES
  kind,    \* of device: "zigbee", "zgp" (green power) or "coordinator"
  sm,      \* the state machine: handlers, locks, timers, pending StateEnter
  dev,     \* the other members of DevicePrivate and items of the device
  core,    \* what the deCONZ core knows of the node
  queue,   \* the normal events for this device
  started  \* the constructor's single shot timer has fired

vars == <<kind, sm, dev, core, queue, started>>

Level == 0 .. 2

None == "none"

\* The states of device.cpp, without the prefix DEV_ and the suffix Handler.
Interview == {"NodeDescriptor", "ActiveEndpoints", "SimpleDescriptor", "BasicCluster"}

State == [0 .. 2 -> {None, "Init", "GetDeviceDescription", "Idle", "Dead", "Zgp",
                     "Binding", "PollIdle", "PollNext", "PollBusy"} \cup Interview]

\* Mutant: no state stops its timer when it is left.
StopsTimerNone == {}

\* States whose StateLeave branch stops the timer of their level.
StopsTimer == Interview \cup {"PollNext", "PollBusy"}

(***************************************************************************)
(* Events.  A confirm names the request it belongs to: the running ZDP     *)
(* request, the running read, or another one; its suffix is the status.    *)
(***************************************************************************)
Confirms == {"zdpOk", "zdpFail", "readOk", "readFail", "otherOk", "otherFail"}

Failed == {"zdpFail", "readFail", "otherFail"}

Answers == {"nodeDescriptor", "activeEndpoints", "simpleDescriptor", "basicAttribute"}

Event == Confirms \cup Answers \cup
         {"poll", "awake", "reachable", "zclResponse", "pollDone",
          "ddfReload", "zdpReload", "ddfRequest", "ddfMatches", "ddfMissing"}

Queued(q, e) == \E i \in 1 .. Len(q) : q[i] = e

\* EventEmitter::enqueueEvent() for a normal event: an equal one is merged.
\* Confirms of other requests differ in their id.
enqueue(q, e) ==
  IF Queued(q, e) /\ e \notin {"otherOk", "otherFail"} THEN q ELSE Append(q, e)

Ok(slot) == IF slot = "zdp" THEN "zdpOk" ELSE "readOk"

Fail(slot) == IF slot = "zdp" THEN "zdpFail" ELSE "readFail"

\* A new request replaces the result kept in zdpResult or readResult: what is
\* queued for the one before matches no more.
forget(q, slot) ==
  [i \in 1 .. Len(q) |->
     IF q[i] = Ok(slot) THEN "otherOk"
     ELSE IF q[i] = Fail(slot) THEN "otherFail" ELSE q[i]]

(***************************************************************************)
(* DevicePrivate::setState(), with the StateLeave branches of all handlers *)
(***************************************************************************)
startStateTimer(s, l) == [s EXCEPT !.timer[l] = TRUE]

stopStateTimer(s, l) == [s EXCEPT !.timer[l] = FALSE]

\* DEV_IdleStateHandler() ends its sub states, other handlers stop their timer.
leave(s, l) ==
  IF s.state[l] = "Idle"
  THEN [s EXCEPT !.state = [i \in Level |-> IF i = 0 THEN @[0] ELSE None],
                 !.lock  = [i \in Level |-> IF i = 0 THEN @[0] ELSE FALSE],
                 !.timer = [i \in Level |-> IF i = 0 THEN @[0] ELSE FALSE]]
  ELSE IF s.state[l] \in StopsTimer THEN stopStateTimer(s, l)
  ELSE s

\* setState() queues its StateEnter as an urgent event; the level is locked till then.
setState(s, l, new) ==
  IF s.state[l] = new
  THEN s
  ELSE [leave(s, l) EXCEPT !.state[l] = new,
                           !.lock[l] = TRUE,
                           !.urgent = Append(@, l)]

\* Device::reachable(): awake within the last 8 s, or listening and reachable.
reachable(d) ==
  \/ d.awake
  \/ d.stateReachable /\ ((d.node /\ core.descriptor /\ RxOnWhenIdle) \/ ~d.sleeper)

\* What a handler leaves behind: state machine, members and normal queue.
Becomes(s, d, q) == sm' = s /\ dev' = d /\ queue' = q

-----------------------------------------------------------------------------
(***************************************************************************)
(* Level 0.  A handler gets the event, and the state machine, members and  *)
(* queue as they are when it is called.                                    *)
(***************************************************************************)

\* With a node whose descriptor is known, or that can be asked, the interview starts.
interviews(d) == d.node /\ (core.descriptor \/ reachable(d))

\* DEV_InitStateHandler(): always takes a fresh node when entered.
DEV_InitStateHandler(e, s, d, q) ==
  LET d1 == IF e = "enter" THEN [d EXCEPT !.node = core.node, !.zdp = FALSE] ELSE d
      q1 == IF e = "enter" THEN forget(q, "zdp") ELSE q
      evaluates == e \in {"poll", "awake", "reachable", "timeout"} \/ d.initialRun
      d2 == [d1 EXCEPT !.initialRun = FALSE, !.node = @ \/ core.node]
  IN \/ /\ e = "enter" /\ kind = "coordinator" /\ core.node
        /\ Becomes(setState(s, 0, "Dead"), d1, q1)
     \/ /\ ~(e = "enter" /\ kind = "coordinator" /\ core.node)
        /\ ~evaluates
        /\ Becomes(s, d1, q1)
     \/ /\ ~(e = "enter" /\ kind = "coordinator" /\ core.node)
        /\ evaluates
        /\ \/ /\ interviews(d2)
              /\ Becomes(setState(s, 0, "NodeDescriptor"), d2, q1)
           \/ /\ ~interviews(d2) /\ ~d2.node /\ kind = "zgp"
              /\ Becomes(setState(s, 0, "Zgp"), d2, q1)
           \/ /\ ~interviews(d2) /\ (d2.node \/ kind # "zgp")
              /\ Becomes(s, d2, q1)

\* An interview state that misses something asks the device for it, and gives
\* up when it can't be reached or the request is not accepted.
Ask(slot, s, d, q) ==
  IF ~reachable(d)
  THEN Becomes(setState(s, 0, "Init"), d, q)
  ELSE \/ Becomes(startStateTimer(s, 0), [d EXCEPT ![slot] = TRUE], forget(q, slot))
       \/ Becomes(setState(s, 0, "Init"), [d EXCEPT ![slot] = FALSE], forget(q, slot))

\* Then it waits for the confirm and the answer; the answer is evaluated anew
\* from Init, with the event REventAwake.
Await(slot, answer, e, s, d, q, d1) ==
  \/ /\ e = Ok(slot)
     /\ Becomes(startStateTimer(s, 0), d, q)
  \/ /\ e \in {Fail(slot), "timeout"}
     /\ Becomes(setState(s, 0, "Init"), d, q)
  \/ /\ e = answer
     /\ Becomes(setState(s, 0, "Init"), d1, enqueue(q, "awake"))
  \/ /\ e \notin {Ok(slot), Fail(slot), "timeout", answer, "enter"}
     /\ Becomes(s, d, q)

DEV_NodeDescriptorStateHandler(e, s, d, q) ==
  \/ /\ e = "enter" /\ core.descriptor
     /\ Becomes(setState(s, 0, "ActiveEndpoints"),
                [d EXCEPT !.sleeper = ~RxOnWhenIdle], q)
  \/ /\ e = "enter" /\ ~core.descriptor
     /\ Ask("zdp", s, d, q)
  \/ Await("zdp", "nodeDescriptor", e, s, d, q, d)

\* Mutant: the answer does not end the forced read.
DEV_ActiveEndpointsStateHandlerForced(e, s, d, q) ==
  LET verified == core.endpoints /\ ~d.needReadActiveEndpoints
  IN \/ /\ e = "enter" /\ verified
        /\ Becomes(setState(s, 0, "SimpleDescriptor"), d, q)
     \/ /\ e = "enter" /\ ~verified
        /\ Ask("zdp", s, d, q)
     \/ Await("zdp", "activeEndpoints", e, s, d, q, d)

DEV_ActiveEndpointsStateHandler(e, s, d, q) ==
  LET verified == core.endpoints /\ ~d.needReadActiveEndpoints
  IN \/ /\ e = "enter" /\ verified
        /\ Becomes(setState(s, 0, "SimpleDescriptor"), d, q)
     \/ /\ e = "enter" /\ ~verified
        /\ Ask("zdp", s, d, q)
     \/ Await("zdp", "activeEndpoints", e, s, d, q,
              [d EXCEPT !.needReadActiveEndpoints = FALSE])

\* A forced read walks over all endpoints by zdpNeedFetchEndpointIndex (0xFF,
\* beyond the last endpoint, is NumEndpoints here); otherwise the first endpoint
\* without a descriptor is read.
DEV_SimpleDescriptorStateHandler(e, s, d, q) ==
  LET verified == IF d.needReadSimpleDescriptors
                  THEN d.fetchIndex >= NumEndpoints
                  ELSE core.simple = NumEndpoints
      next == IF d.needReadSimpleDescriptors /\ d.fetchIndex < NumEndpoints
              THEN d.fetchIndex + 1 ELSE d.fetchIndex
  IN \/ /\ e = "enter" /\ verified
        /\ Becomes(setState(s, 0, "BasicCluster"),
                   [d EXCEPT !.needReadSimpleDescriptors = FALSE,
                             !.fetchIndex = NumEndpoints], q)
     \/ /\ e = "enter" /\ ~verified
        /\ Ask("zdp", s, d, q)
     \/ Await("zdp", "simpleDescriptor", e, s, d, q, [d EXCEPT !.fetchIndex = next])

\* The manufacturer name, then the model id.
DEV_BasicClusterStateHandler(e, s, d, q) ==
  \/ /\ e = "enter" /\ core.attributes = 2
     /\ Becomes(setState(s, 0, "GetDeviceDescription"), d, q)
  \/ /\ e = "enter" /\ core.attributes < 2
     /\ Ask("read", s, d, q)
  \/ Await("read", "basicAttribute", e, s, d, q, d)

DEV_GetDeviceDescriptionHandler(e, s, d, q) ==
  \/ /\ e = "enter"
     /\ Becomes(s, d, enqueue(q, "ddfRequest"))
  \/ /\ e = "ddfMatches"
     /\ Becomes(setState(s, 0, "Idle"), [d EXCEPT !.managed = TRUE], q)
  \/ /\ e = "ddfMissing"
     /\ Becomes(setState(s, 0, "Dead"), [d EXCEPT !.managed = FALSE], q)
  \/ /\ e \notin {"enter", "ddfMatches", "ddfMissing"}
     /\ Becomes(s, d, q)

DEV_DeadStateHandler(e, s, d, q) ==
  Becomes(IF e # "enter" /\ d.managed THEN setState(s, 0, "Init") ELSE s, d, q)

-----------------------------------------------------------------------------
(***************************************************************************)
(* Level 2, polling.  Only the last item of the poll queue is tried, so    *)
(* the queue is its length and the retry counter of its last item.         *)
(***************************************************************************)
withoutLast(d) == [d EXCEPT !.items = @ - 1, !.retry = 0]

\* Mutant: retries are not counted.
checkPollItemRetryForever(d) == d

\* Mutant: an item is dropped one retry late.
checkPollItemRetryLate(d) ==
  IF d.items = 0 THEN d
  ELSE IF d.retry + 1 > MaxPollItemRetries THEN withoutLast(d)
  ELSE [d EXCEPT !.retry = @ + 1]

\* checkPollItemRetry(), and the same in DEV_PollNextStateHandler().
checkPollItemRetry(d) ==
  IF d.items = 0 THEN d
  ELSE IF d.retry + 1 >= MaxPollItemRetries THEN withoutLast(d)
  ELSE [d EXCEPT !.retry = @ + 1]

\* DEV_PollIdleStateHandler(): may wait while too many requests are unconfirmed;
\* once, after some jitter, it asks for a refresh of the ZDP descriptors.
DEV_PollIdleStateHandler(e, s, d, q) ==
  LET once == [d EXCEPT !.needZDPMaintenanceOnce = FALSE]
      refreshes == ~d.sleeper /\ reachable(d)
  IN \/ Becomes(s, d, q)
     \/ /\ e \in {"poll", "awake"}
        /\ d.needZDPMaintenanceOnce /\ refreshes
        /\ Becomes(s, [once EXCEPT !.needReadActiveEndpoints = TRUE,
                                   !.needReadSimpleDescriptors = TRUE,
                                   !.fetchIndex = 0],
                   enqueue(q, "zdpReload"))
     \/ /\ e \in {"poll", "awake"}
        /\ \E d1 \in {d} \cup (IF refreshes THEN {} ELSE {once}), n \in 0 .. MaxItems :
             Becomes(IF n > 0 THEN setState(s, 2, "PollNext") ELSE s,
                     [d1 EXCEPT !.items = n, !.retry = 0],
                     IF n = 0 /\ e = "poll" THEN enqueue(q, "pollDone") ELSE q)

\* Mutant: an empty poll queue is not noticed.
pollEndsUnreachable(d) == ~reachable(d)

\* Nothing is left to poll, or it can't be.
pollEnds(d) == ~reachable(d) \/ d.items = 0

DEV_PollNextStateHandler(e, s, d, q) ==
  \/ /\ e \in {"enter", "timeout"}
     /\ pollEnds(d)
     /\ Becomes(setState(s, 2, "PollIdle"), [d EXCEPT !.items = 0, !.retry = 0],
                enqueue(q, "pollDone"))
  \/ /\ e \in {"enter", "timeout"}
     /\ ~pollEnds(d)
     /\ LET d1 == [d EXCEPT !.read = FALSE]
            q1 == forget(q, "read")
        IN \/ Becomes(setState(s, 2, "PollBusy"), [d EXCEPT !.read = TRUE], q1)
           \/ Becomes(startStateTimer(s, 2), withoutLast(d1), q1) \* no read function
           \/ Becomes(startStateTimer(s, 2), checkPollItemRetry(d1), q1)
  \/ /\ e \notin {"enter", "timeout"}
     /\ Becomes(s, d, q)

DEV_PollBusyStateHandler(e, s, d, q) ==
  \/ /\ e = "enter"
     /\ Becomes(startStateTimer(s, 2), d, q)
  \/ /\ e = "readOk"
     /\ Becomes(startStateTimer(stopStateTimer(s, 0), 2), [d EXCEPT !.errors = 0], q)
  \/ /\ e \in {"readFail", "timeout"}
     /\ Becomes(setState(s, 2, "PollNext"), checkPollItemRetry(d), q)
  \/ /\ e = "zclResponse"
     /\ Becomes(setState(s, 2, "PollNext"), IF d.items > 0 THEN withoutLast(d) ELSE d, q)
  \/ /\ e \notin {"enter", "readOk", "readFail", "timeout", "zclResponse"}
     /\ Becomes(s, d, q)

PollHandler(e, s, d, q) ==
  \/ s.state[2] = "PollIdle" /\ DEV_PollIdleStateHandler(e, s, d, q)
  \/ s.state[2] = "PollNext" /\ DEV_PollNextStateHandler(e, s, d, q)
  \/ s.state[2] = "PollBusy" /\ DEV_PollBusyStateHandler(e, s, d, q)
  \/ s.state[2] = None /\ Becomes(s, d, q)

\* Device::handleEvent() drops an event for a locked level.
noteSkipped(s, levels) ==
  [s EXCEPT !.skipped = @ \/ \E l \in levels : s.lock[l]]

\* In Idle failing confirms are counted (saturated beyond the limit).
countConfirm(d, e) ==
  LET errors == IF d.errors > MaxIdleApsConfirmErrors THEN d.errors ELSE d.errors + 1
  IN IF e \in Confirms \ Failed THEN [d EXCEPT !.errors = 0]
     ELSE IF e \notin Failed THEN d
     ELSE IF errors > MaxIdleApsConfirmErrors /\ d.stateReachable
          THEN [d EXCEPT !.errors = 0, !.stateReachable = FALSE]
          ELSE [d EXCEPT !.errors = errors]

\* DEV_IdleStateHandler(): starts its sub states, then passes events to them.
\* DEV_BindingHandler() at level 1 has no bindings to process.
DEV_IdleStateHandler(e, s, d, q) ==
  \/ /\ e = "enter"
     /\ Becomes(setState(setState(s, 1, "Binding"), 2, "PollIdle"), d, q)
  \/ /\ e # "enter" /\ s.lock[2]
     /\ Becomes(noteSkipped(s, {1, 2}), countConfirm(d, e), q)
  \/ /\ e # "enter" /\ ~s.lock[2]
     /\ PollHandler(e, noteSkipped(s, {1, 2}), countConfirm(d, e), q)

Handler(e, s, d, q) ==
  \/ s.state[0] = "Init" /\ DEV_InitStateHandler(e, s, d, q)
  \/ s.state[0] = "NodeDescriptor" /\ DEV_NodeDescriptorStateHandler(e, s, d, q)
  \/ s.state[0] = "ActiveEndpoints" /\ DEV_ActiveEndpointsStateHandler(e, s, d, q)
  \/ s.state[0] = "SimpleDescriptor" /\ DEV_SimpleDescriptorStateHandler(e, s, d, q)
  \/ s.state[0] = "BasicCluster" /\ DEV_BasicClusterStateHandler(e, s, d, q)
  \/ s.state[0] = "GetDeviceDescription" /\ DEV_GetDeviceDescriptionHandler(e, s, d, q)
  \/ s.state[0] = "Idle" /\ DEV_IdleStateHandler(e, s, d, q)
  \/ s.state[0] = "Dead" /\ DEV_DeadStateHandler(e, s, d, q)
  \/ s.state[0] \in {"Zgp", None} /\ Becomes(s, d, q)

\* Device::handleEvent() for an event other than StateEnter and StateLeave.
handleEvent(e, s, d, q) ==
  \/ /\ s.lock[0]
     /\ Becomes(noteSkipped(s, {0}), d, q)
  \/ /\ ~s.lock[0] /\ e = "ddfReload"
     /\ Becomes(startStateTimer(setState(s, 0, "Init"), 0), d, q)
  \/ /\ ~s.lock[0] /\ e = "zdpReload"
     /\ Becomes(startStateTimer(setState(s, 0, "ActiveEndpoints"), 0), d, q)
  \/ /\ ~s.lock[0] /\ e \notin {"ddfReload", "zdpReload"}
     /\ Handler(e, s,
                IF e = "awake" /\ s.state[0] # None THEN [d EXCEPT !.awake = TRUE] ELSE d,
                q)

-----------------------------------------------------------------------------
(***************************************************************************)
(* What calls the state machine                                            *)
(***************************************************************************)

\* The constructor: the first setState() is called from the event loop.
Start ==
  /\ ~started
  /\ started' = TRUE
  /\ sm' = setState(sm, 0, "Init")
  /\ UNCHANGED <<kind, dev, core, queue>>

\* EventEmitter::process() notifies StateEnter, which unlocks its level.
StateEnter(l) ==
  /\ sm.urgent # <<>> /\ Head(sm.urgent) = l
  /\ LET s == [sm EXCEPT !.urgent = Tail(@), !.lock[l] = FALSE]
     IN \/ l = 0 /\ Handler("enter", s, dev, queue)
        \/ l = 1 /\ Becomes(s, dev, queue)
        \/ l = 2 /\ PollHandler("enter", s, dev, queue)
  /\ UNCHANGED <<kind, core, started>>

\* Mutant: only a match is answered.
answeredMatch(e, q, result) ==
  IF e = "ddfRequest" /\ result = "ddfMatches" THEN enqueue(q, result) ELSE q

\* DeviceDescriptions::handleDDFInitRequest() answers within the same event.
answered(e, q, result) == IF e = "ddfRequest" THEN enqueue(q, result) ELSE q

\* Mutant: normal events may overtake urgent ones.
NotifyAnyOrder ==
  /\ queue # <<>>
  /\ \E result \in {"ddfMatches", "ddfMissing"} :
       handleEvent(Head(queue), sm, dev, answered(Head(queue), Tail(queue), result))
  /\ UNCHANGED <<kind, core, started>>

\* EventEmitter::process() notifies a normal event once no urgent one is left.
Notify ==
  /\ sm.urgent = <<>> /\ queue # <<>>
  /\ \E result \in {"ddfMatches", "ddfMissing"} :
       handleEvent(Head(queue), sm, dev, answered(Head(queue), Tail(queue), result))
  /\ UNCHANGED <<kind, core, started>>

\* Device::timerEvent() calls the handler of the level, locked or not.
timerEvent(l) ==
  /\ sm.timer[l]
  /\ \/ l = 0 /\ Handler("timeout", stopStateTimer(sm, 0), dev, queue)
     \/ l = 2 /\ PollHandler("timeout", stopStateTimer(sm, 2), dev, queue)
  /\ UNCHANGED <<kind, core, started>>

\* DeviceWidget::reloadTimerFired() calls handleEvent() directly.
reloadTimerFired ==
  /\ WidgetReloads
  /\ Len(sm.urgent) < MaxUrgent
  /\ handleEvent("ddfReload", sm, dev, queue)
  /\ UNCHANGED <<kind, core, started>>

-----------------------------------------------------------------------------
(***************************************************************************)
(* What arrives                                                            *)
(***************************************************************************)
Arrives(e) == Len(queue) < MaxQueue /\ queue' = enqueue(queue, e)

\* DeviceTick polls, the device announces itself or polls its parent, and the
\* REST API, an OTA update or a new DDF bundle demand a reload.
ReceiveEvent(e) ==
  /\ e \in {"poll", "awake", "ddfReload", "otherOk", "otherFail"}
  /\ Arrives(e)
  /\ UNCHANGED <<kind, sm, dev, core, started>>

\* The core learns of the node (handleNodeEvent, NodeAdded).
nodeAdded ==
  /\ kind # "zgp" /\ ~core.node
  /\ core' = [core EXCEPT !.node = TRUE]
  /\ Arrives("poll")
  /\ UNCHANGED <<kind, sm, dev, started>>

\* DeRestPluginPrivate::nodeZombieStateChanged()
nodeZombieStateChanged ==
  /\ core.node
  /\ dev' = [dev EXCEPT !.stateReachable = ~@]
  /\ Arrives("reachable")
  /\ UNCHANGED <<kind, sm, core, started>>

\* 8 s have passed since the device was awake.
AwakeExpires ==
  /\ dev.awake
  /\ dev' = [dev EXCEPT !.awake = FALSE]
  /\ UNCHANGED <<kind, sm, core, queue, started>>

\* DeRestPluginPrivate::apsdeDataConfirm() for the running request of a slot.
apsdeDataConfirm(slot) ==
  /\ dev[slot]
  /\ dev' = [dev EXCEPT ![slot] = FALSE]
  /\ \E e \in {Ok(slot), Fail(slot)} : Arrives(e)
  /\ UNCHANGED <<kind, sm, core, started>>

\* DeRestPluginPrivate::apsdeDataIndicationDevice(): a device that listens is
\* reachable again when it sends something; a read of a basic attribute (other
\* than a report) is a response too, and some ZCL frames tell it is awake.
Indication(e) ==
  LET returns == ~dev.sleeper /\ ~dev.stateReachable
      q0 == IF returns THEN enqueue(queue, "reachable") ELSE queue
      zcl == e \in {"basicAttribute", "zclResponse"}
  IN /\ core.node
     /\ Len(queue) < MaxQueue
     /\ dev' = [dev EXCEPT !.stateReachable = @ \/ returns]
     /\ \E q1 \in {q0} \cup (IF e = "basicAttribute" THEN {enqueue(q0, "zclResponse")} ELSE {}) :
          \/ queue' = enqueue(q1, e)
          \/ zcl /\ queue' = enqueue(enqueue(q1, e), "awake")
     /\ UNCHANGED <<kind, sm, started>>

\* A response, to this program or to the core, which keeps what it says.
apsdeDataIndication(e) ==
  /\ \/ e = "nodeDescriptor" /\ core' = [core EXCEPT !.descriptor = TRUE]
     \/ e = "activeEndpoints" /\ core' = [core EXCEPT !.endpoints = TRUE]
     \/ /\ e = "simpleDescriptor" /\ core.endpoints
        /\ core' \in {core, [core EXCEPT !.simple = IF @ < NumEndpoints THEN @ + 1 ELSE @]}
     \/ /\ e = "basicAttribute"
        /\ core' = [core EXCEPT !.attributes = IF @ < 2 THEN @ + 1 ELSE @]
     \/ e = "zclResponse" /\ core' = core
  /\ Indication(e)

-----------------------------------------------------------------------------
Core == [node : BOOLEAN, descriptor : BOOLEAN, endpoints : BOOLEAN,
         simple : 0 .. NumEndpoints, attributes : 0 .. 2]

Init ==
  /\ kind \in Kinds
  /\ sm = [state |-> [l \in Level |-> None], lock |-> [l \in Level |-> FALSE],
           timer |-> [l \in Level |-> FALSE], urgent |-> <<>>, skipped |-> FALSE]
  /\ dev \in [initialRun : {TRUE}, node : {FALSE}, managed : {FALSE},
              needZDPMaintenanceOnce : {TRUE}, needReadActiveEndpoints : {FALSE},
              needReadSimpleDescriptors : {FALSE}, fetchIndex : {NumEndpoints},
              stateReachable : BOOLEAN, sleeper : {FALSE}, awake : {FALSE},
              zdp : {FALSE}, read : {FALSE}, items : {0}, retry : {0}, errors : {0}]
  /\ core \in Cores \cap Core
  /\ kind = "zgp" => ~core.node
  /\ queue = <<>>
  /\ started = FALSE

Next ==
  \/ Start
  \/ \E l \in Level : StateEnter(l) \/ timerEvent(l)
  \/ Notify
  \/ reloadTimerFired
  \/ \E e \in Event : ReceiveEvent(e) \/ apsdeDataIndication(e)
  \/ nodeAdded
  \/ nodeZombieStateChanged
  \/ AwakeExpires
  \/ \E slot \in {"zdp", "read"} : apsdeDataConfirm(slot)

\* The event loop runs: StateEnter and normal events are notified and timers
\* fire (Qt main loop, EventEmitter's timer).
Fairness ==
  /\ WF_vars(Start)
  /\ \A l \in Level : WF_vars(StateEnter(l)) /\ WF_vars(timerEvent(l))
  /\ WF_vars(Notify)

Spec == Init /\ [][Next]_vars

FairSpec == Spec /\ Fairness

\* The device answers what an interview state asks for.
Answer(state, e) ==
  /\ sm.state[0] = state /\ ~sm.lock[0] /\ ~Queued(queue, e)
  /\ apsdeDataIndication(e)
  /\ e \in {"nodeDescriptor", "activeEndpoints"} \/ dev.needReadSimpleDescriptors \/ core' # core

\* The core learns of the node, and the device answers what is asked.
Delivers ==
  \/ nodeAdded
  \/ Answer("NodeDescriptor", "nodeDescriptor")
  \/ Answer("ActiveEndpoints", "activeEndpoints")
  \/ Answer("SimpleDescriptor", "simpleDescriptor")
  \/ Answer("BasicCluster", "basicAttribute")

\* DeviceTick keeps polling and the device keeps answering.
Answering == SF_vars(Delivers) /\ SF_vars(ReceiveEvent("poll"))

\* What sends an interview back to Init: a timeout, a request that is refused or
\* not confirmed, a reload, a device that is lost.
Setback ==
  \/ sm.state[0] \in Interview /\ timerEvent(0)
  \/ sm.state[0] \in Interview /\ StateEnter(0) /\ sm'.state[0] = "Init"
  \/ Notify /\ Head(queue) \in {"zdpFail", "readFail", "ddfReload"}
  \/ reloadTimerFired
  \/ dev.stateReachable /\ ~dev'.stateReachable

-----------------------------------------------------------------------------
(***************************************************************************)
(* Properties                                                              *)
(***************************************************************************)
Bool3 == [Level -> BOOLEAN]

\* Every variable has its type.
TypeOK ==
  /\ kind \in {"zigbee", "zgp", "coordinator"}
  /\ sm \in [state : State, lock : Bool3, timer : Bool3, urgent : Seq(Level), skipped : BOOLEAN]
  /\ dev \in [initialRun : BOOLEAN, node : BOOLEAN, managed : BOOLEAN,
              needZDPMaintenanceOnce : BOOLEAN, needReadActiveEndpoints : BOOLEAN,
              needReadSimpleDescriptors : BOOLEAN, fetchIndex : 0 .. NumEndpoints,
              stateReachable : BOOLEAN, sleeper : BOOLEAN, awake : BOOLEAN,
              zdp : BOOLEAN, read : BOOLEAN, items : 0 .. MaxItems,
              retry : 0 .. (MaxPollItemRetries - 1), errors : 0 .. (MaxIdleApsConfirmErrors + 1)]
  /\ core \in Core
  /\ queue \in Seq(Event)
  /\ started \in BOOLEAN

\* A locked level waits for a StateEnter that is on its way: a lock never stays.
\* (device.cpp, stateEnterLock: "True while a new state waits for the state enter
\* event, which must arrive first.")
EnterPending ==
  \A l \in Level : sm.lock[l] => Queued(sm.urgent, l)

\* No event is dropped because its level still waits for StateEnter.
\* (device.cpp, handleEvent(): "REventStateEnter must always arrive first via
\* urgend event queue. This branch should never hit!")
EnterArrivesFirst == ~sm.skipped

\* A state that waits for the device has its timeout running once it is entered,
\* so a lost confirm or answer never leaves the interview or a poll hanging.
WaitingHasTimer ==
  /\ sm.state[0] \in Interview /\ ~sm.lock[0] => sm.timer[0]
  /\ sm.state[2] \in {"PollNext", "PollBusy"} /\ ~sm.lock[2] => sm.timer[2]

\* GetDeviceDescription has no timeout, so the request or its answer must be in
\* the queue as long as the state waits.
DescriptionPending ==
  sm.state[0] = "GetDeviceDescription" /\ ~sm.lock[0] =>
    \E e \in {"ddfRequest", "ddfMatches", "ddfMissing"} : Queued(queue, e)

\* No timer of a state left behind fires in another one: the level 0 timer is off
\* while Idle passes timeouts on to its sub states (DEV_PollNextStateHandler()
\* asserts that a timeout is one of level 2), and sub state timers only run in
\* the states that started them.
NoStrayTimer ==
  /\ sm.state[0] \in {"GetDeviceDescription", "Idle"} => ~sm.timer[0]
  /\ ~sm.timer[1]
  /\ sm.timer[2] => sm.state[2] \in {"PollNext", "PollBusy"}

\* Sub states run exactly while the device is in Idle.
SubStatesOfIdle ==
  /\ sm.state[0] # "Idle" => sm.state[1] = None /\ sm.state[2] = None
  /\ sm.state[0] = "Idle" /\ ~sm.lock[0] => sm.state[1] = "Binding" /\ sm.state[2] # None

\* The three levels agree: waiting states have their timeout, no timer outlives
\* its state, and sub states live with Idle.
LevelsConsistent == WaitingHasTimer /\ NoStrayTimer /\ SubStatesOfIdle

\* A running poll request belongs to an item of the poll queue.
\* (DEV_PollBusyStateHandler(): DBG_Assert(!d->pollItems.empty()))
PollBusyHasItem == sm.state[2] = "PollBusy" => dev.items > 0

\* Whatever the device answers or fails to, each round of polling ends, since
\* requests time out and items are tried a bounded number of times.
PollRoundEnds ==
  sm.state[2] \in {"PollNext", "PollBusy"} ~> sm.state[2] \in {"PollIdle", None}

\* Once a listening device is reachable and setbacks end, its interview ends: it
\* becomes operational or is left to the legacy code.
InterviewCompletes ==
  kind = "zigbee" /\ Answering /\ <>[]dev.stateReachable /\ <>[][~Setback]_vars =>
    <>[](sm.state[0] \in {"Idle", "Dead"})
=============================================================================
