------------------------------- MODULE Joining ------------------------------
(***************************************************************************)
(* Permit join and DeviceTick together: the first posts when joining is    *)
(* enabled and disabled, the second hears of it when the event loop gets   *)
(* there, and counts its own time.                                         *)
(***************************************************************************)
EXTENDS PermitJoin, DeviceTick

CONSTANT RequestBound   \* bound: requests of users and losses of the network

VARIABLE requests

vars == <<pjVars, dtVars, requests>>

Init == InitPermitJoin /\ InitDeviceTick /\ requests = 0

Request ==
    /\ requests < RequestBound
    /\ requests' = requests + 1
    /\ openNetwork \/ closeNetwork \/ networkLost
    /\ UNCHANGED dtVars

(* A second passes, for permit join and for joinDisabledTime.              *)
Second ==
    /\ permitJoinTimerFired
    /\ joinDisabledTime' = IF joinDisabledTime > JoinLinger THEN joinDisabledTime
                                                            ELSE joinDisabledTime + 1
    /\ UNCHANGED <<stateHandler, tickTimer, devIter, joinDevices, polled, awoken, requests>>

SearchTimer(k) == searchTimerFired(k) /\ UNCHANGED <<dtVars, requests>>

NetworkBack == networkBack /\ UNCHANGED <<dtVars, requests>>

(* The event loop notifies the next permit join event.                     *)
Notify ==
    /\ takePermitEvent
    /\ IF Head(permitEvents) = "Enabled" THEN REventPermitjoinEnabled
                                         ELSE REventPermitjoinDisabled
    /\ UNCHANGED requests

Tick == timoutFired /\ UNCHANGED <<pjVars, requests>>

PollDone == PollEnds /\ UNCHANGED <<pjVars, requests>>

Announce == (\E d \in Device : REventDeviceAnnounce(d)) /\ UNCHANGED <<pjVars, requests>>

Next ==
    \/ Request \/ Second \/ (\E k \in Searches : SearchTimer(k)) \/ NetworkBack
    \/ Notify \/ Tick \/ PollDone \/ Announce

Spec == Init /\ [][Next]_vars

(* Timers fire, the event loop runs and the network comes back.  Requests  *)
(* are confirmed, so a tick of the idle state is not skipped for ever.     *)
FairSpec ==
    /\ Spec
    /\ WF_vars(Second) /\ WF_vars(Notify) /\ WF_vars(NetworkBack)
    /\ \A k \in Searches : WF_vars(SearchTimer(k))
    /\ WF_vars(Tick)

-----------------------------------------------------------------------------
(* Type invariant of permit join and DeviceTick.                           *)
TypeOK ==
    /\ TypeOKPermitJoin /\ TypeOKDeviceTick
    /\ requests \in 0..RequestBound

(* Once nobody opens it any more the network is closed for good, also when *)
(* it was lost meanwhile: the searches end and fast polling ends.          *)
JoiningEnds ==
    <>[]( /\ ~permitJoinFlag /\ ctrlPermitJoin = 0 /\ routers = 0
          /\ stateHandler # "DT_StateJoin"
          /\ \A k \in Searches : search[k].state # "Active" )

(* Every device that stays reachable is polled again and again, although   *)
(* joining moves the cursor.                                               *)
EveryDevicePolled == \A d \in Device \ Sleepers : []<>(polled = d)
=============================================================================
