----------------------------- MODULE DeviceTick -----------------------------
(***************************************************************************)
(* DeviceTick (device_tick.cpp): polls the known devices one after the     *)
(* other, and while joining is enabled wakes the devices that have joined. *)
(* Both use devIter, over different lists.                                 *)
(***************************************************************************)
EXTENDS Naturals, Sequences, SequencesExt

CONSTANTS
    Devices,    \* sequence of the known devices
    Sleepers,   \* devices that are not always reachable
    JoinLinger, \* seconds fast polling goes on after joining was disabled (20)
    NoDevice

ASSUME DeviceTickAssumption ==
    /\ Devices # <<>> /\ IsInjective(Devices)
    /\ Sleepers \subseteq ToSet(Devices)
    /\ JoinLinger \in Nat
    /\ NoDevice \notin ToSet(Devices)

VARIABLES
    stateHandler,       \* DT_StateInit, DT_StateIdle, DT_StatePoll, DT_StateJoin
    tickTimer,          \* the state timer runs
    devIter,
    joinDevices,        \* sequence of devices announced in DT_StateJoin
    joinDisabledTime,   \* seconds since joining was disabled, or Never
    polled,             \* device of the last REventPoll
    awoken              \* device of the last REventAwake

dtVars == <<stateHandler, tickTimer, devIter, joinDevices, joinDisabledTime, polled, awoken>>

Device == ToSet(Devices)
Never == JoinLinger + 2     \* larger than any age that is kept

InitDeviceTick ==
    /\ stateHandler = "DT_StateInit"
    /\ tickTimer = TRUE
    /\ devIter = 0
    /\ joinDevices = <<>>
    /\ joinDisabledTime = Never
    /\ polled = NoDevice
    /\ awoken = NoDevice

(* DT_SetState(): StateLeave of the old state and StateEnter of the new.   *)
DT_SetState(s) ==
    /\ stateHandler' = s
    /\ tickTimer' = TRUE
    /\ joinDevices' = IF stateHandler = "DT_StateJoin" THEN <<>> ELSE joinDevices
    /\ joinDisabledTime' = IF s = "DT_StateJoin" THEN Never ELSE joinDisabledTime

Booted ==
    /\ stateHandler = "DT_StateInit"
    /\ DT_SetState("DT_StateIdle")
    /\ UNCHANGED <<devIter, polled, awoken>>

(* Mutated form: the cursor is not moved on.                               *)
DT_PollNextIdleDeviceStays ==
    /\ stateHandler = "DT_StateIdle"
    /\ DT_SetState("DT_StatePoll")
    /\ polled' = Devices[(devIter % Len(Devices)) + 1]
    /\ UNCHANGED <<devIter, awoken>>

DT_PollNextIdleDevice ==
    /\ stateHandler = "DT_StateIdle"
    /\ LET i == devIter % Len(Devices)
       IN  /\ devIter' = i + 1
           /\ \/ /\ DT_SetState("DT_StatePoll")
                 /\ polled' = Devices[i + 1]
              \/ /\ Devices[i + 1] \in Sleepers      \* not reachable now
                 /\ UNCHANGED <<stateHandler, tickTimer, joinDevices, joinDisabledTime, polled>>
    /\ UNCHANGED awoken

(* DA_ApsUnconfirmedRequests() >= 4: only the timer starts again.          *)
TickSkips ==
    /\ stateHandler = "DT_StateIdle"
    /\ UNCHANGED dtVars

(* The poll ends by REventPollDone of any device, or by the timeout.       *)
PollEnds ==
    /\ stateHandler = "DT_StatePoll"
    /\ DT_SetState("DT_StateIdle")
    /\ UNCHANGED <<devIter, polled, awoken>>

JoinTimeout ==
    /\ stateHandler = "DT_StateJoin"
    /\ IF JoinLinger < joinDisabledTime /\ joinDisabledTime # Never
       THEN DT_SetState("DT_StateIdle") /\ UNCHANGED <<devIter, awoken>>
       ELSE /\ IF joinDevices = <<>> THEN UNCHANGED <<devIter, awoken>>
               ELSE LET i == devIter % Len(joinDevices)
                    IN  devIter' = i + 1 /\ awoken' = joinDevices[i + 1]
            /\ UNCHANGED <<stateHandler, tickTimer, joinDevices, joinDisabledTime>>
    /\ UNCHANGED polled

timoutFired ==
    /\ tickTimer
    /\ Booted \/ DT_PollNextIdleDevice \/ TickSkips \/ PollEnds \/ JoinTimeout

REventDeviceAnnounce(d) ==
    /\ stateHandler = "DT_StateJoin"
    /\ d \notin ToSet(joinDevices)
    /\ joinDevices' = Append(joinDevices, d)
    /\ UNCHANGED <<stateHandler, tickTimer, devIter, joinDisabledTime, polled, awoken>>

REventPermitjoinEnabled ==
    IF stateHandler \in {"DT_StateIdle", "DT_StatePoll"}
    THEN DT_SetState("DT_StateJoin") /\ UNCHANGED <<devIter, polled, awoken>>
    ELSE UNCHANGED dtVars

REventPermitjoinDisabled ==
    IF stateHandler = "DT_StateJoin"
    THEN /\ joinDisabledTime' = 0
         /\ UNCHANGED <<stateHandler, tickTimer, devIter, joinDevices, polled, awoken>>
    ELSE UNCHANGED dtVars

TypeOKDeviceTick ==
    /\ stateHandler \in {"DT_StateInit", "DT_StateIdle", "DT_StatePoll", "DT_StateJoin"}
    /\ tickTimer \in BOOLEAN
    /\ devIter \in 0..Len(Devices)
    /\ joinDevices \in Seq(Device) /\ IsInjective(joinDevices)
    /\ joinDisabledTime \in 0..Never
    /\ polled \in Device \cup {NoDevice}
    /\ awoken \in Device \cup {NoDevice}
=============================================================================
