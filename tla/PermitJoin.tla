----------------------------- MODULE PermitJoin -----------------------------
(***************************************************************************)
(* Opening the network for new devices (permitJoin.cpp) and the searches   *)
(* for lights and sensors that ask for it (rest_lights.cpp,                *)
(* rest_sensors.cpp).  The coordinator and the routers are opened for a    *)
(* limited time by a broadcast that is repeated while joining is enabled.  *)
(* One step of permitJoinTimerFired() is one second.                       *)
(***************************************************************************)
EXTENDS Naturals, Sequences, FiniteSetsExt

CONSTANTS
    SendInterval,   \* PERMIT_JOIN_SEND_INTERVAL in seconds (60)
    Slack,          \* seconds a broadcast opens the routers longer than that (5)
    Durations,      \* values of gwNetworkOpenDuration and of permitJoin(seconds)
    AutoOff,        \* FALSE: gwdisablePermitJoinAutoOff is set
    Searches,       \* the searches: for lights and for sensors
    EventBound      \* bound: permit join events waiting for the event loop

ASSUME PermitJoinAssumption ==
    /\ SendInterval \in Nat \ {0} /\ Slack \in Nat \ {0}
    /\ Durations \subseteq Nat /\ Durations # {}
    /\ AutoOff \in BOOLEAN
    /\ EventBound \in Nat \ {0}

VARIABLES
    gwPermitJoinDuration,
    permitJoinFlag,
    lastSend,       \* seconds since permitJoinLastSendTime, or Invalid
    inNetwork,      \* isInNetwork()
    ctrlPermitJoin, \* ParamPermitJoin: seconds the coordinator stays open
    routers,        \* seconds the routers stay open
    search,         \* of lights and of sensors: state, timeout and single shot
                    \* timers that are running
    permitEvents,   \* REventPermitjoinEnabled and ...Disabled in the emitter's queue
    sendFailed      \* a broadcast that was due could not be sent

pjVars == <<gwPermitJoinDuration, permitJoinFlag, lastSend, inNetwork, ctrlPermitJoin,
            routers, search, permitEvents, sendFailed>>

Invalid == SendInterval + 2     \* larger than any age that is kept

InitPermitJoin ==
    /\ gwPermitJoinDuration = 0
    /\ permitJoinFlag = FALSE
    /\ lastSend = Invalid
    /\ inNetwork \in BOOLEAN
    /\ ctrlPermitJoin = 0
    /\ routers = 0
    /\ search = [k \in Searches |-> [state |-> "Idle", timeout |-> 0, timers |-> 0]]
    /\ permitEvents = <<>>
    /\ sendFailed = FALSE

less(n) == IF n > 0 THEN n - 1 ELSE 0

(* Mutated form: a broadcast opens the routers for the send interval only. *)
broadcastDurationTight(d) == IF d <= SendInterval THEN d ELSE SendInterval

broadcastDuration(d) == IF d <= SendInterval + Slack THEN d ELSE SendInterval + Slack

-----------------------------------------------------------------------------
(* startSearchLights(), startSearchSensors() with gwNetworkOpenDuration d. *)
startSearch(s, d) ==
    [state |-> "Active", timeout |-> d,
     timers |-> IF s.state = "Active" THEN s.timers ELSE s.timers + 1]

(* POST /lights or /sensors; PUT /config permitjoin, whose seconds are     *)
(* overwritten by the two searches it starts; permitJoin(seconds).         *)
openNetwork ==
    \E d \in Durations, ks \in SUBSET Searches \ {{}} :
        /\ \A k \in ks : search[k].timers < 2
        /\ search' = [k \in Searches |-> IF k \in ks THEN startSearch(search[k], d)
                                                     ELSE search[k]]
        /\ gwPermitJoinDuration' = d
        /\ lastSend' = Invalid
        /\ UNCHANGED <<permitJoinFlag, inNetwork, ctrlPermitJoin, routers, permitEvents,
                       sendFailed>>

(* PUT /config permitjoin 0 by the user who opened it; permitJoin(0).      *)
closeNetwork ==
    /\ gwPermitJoinDuration' = 0
    /\ UNCHANGED <<permitJoinFlag, lastSend, inNetwork, ctrlPermitJoin, routers, search,
                   permitEvents, sendFailed>>

(* Mutated form: without a network the end of joining is forgotten.        *)
permitJoinTimerFiredForgets ==
    /\ gwPermitJoinDuration' = less(gwPermitJoinDuration)
    /\ permitJoinFlag' = (gwPermitJoinDuration > 1)
    /\ permitEvents' = permitEvents \o
           (IF gwPermitJoinDuration > 0 /\ ~permitJoinFlag THEN <<"Enabled">> ELSE <<>>) \o
           (IF inNetwork /\ permitJoinFlag /\ gwPermitJoinDuration <= 1 THEN <<"Disabled">> ELSE <<>>)
    /\ ctrlPermitJoin' = less(ctrlPermitJoin)
    /\ routers' = less(routers)
    /\ UNCHANGED <<lastSend, inNetwork, search, sendFailed>>

permitJoinTimerFired ==
    /\ Len(permitEvents) < EventBound
    /\ LET d       == less(gwPermitJoinDuration)
           flag    == permitJoinFlag \/ gwPermitJoinDuration > 0
           enabled == IF flag /\ ~permitJoinFlag THEN <<"Enabled">> ELSE <<>>
           age     == IF lastSend > SendInterval THEN lastSend ELSE lastSend + 1
           close   == inNetwork /\ less(ctrlPermitJoin) > 0 /\ d = 0
           last    == IF close THEN Invalid ELSE age
           due     == flag /\ (last = Invalid \/ (last > SendInterval /\ AutoOff))
           send    == inNetwork /\ due
           ends    == inNetwork /\ flag /\ d = 0
       IN  /\ gwPermitJoinDuration' = d
           /\ permitJoinFlag' = (flag /\ ~ends)
           /\ permitEvents' = permitEvents \o enabled \o (IF ends THEN <<"Disabled">> ELSE <<>>)
           /\ ctrlPermitJoin' = IF send THEN broadcastDuration(d)
                                ELSE IF close THEN 0 ELSE less(ctrlPermitJoin)
           /\ \/ /\ send           \* the broadcast is sent
                 /\ routers' = broadcastDuration(d)
                 /\ lastSend' = 0
                 /\ sendFailed' = FALSE
              \/ /\ routers' = less(routers)
                 /\ lastSend' = last
                 /\ sendFailed' = (sendFailed \/ due)
    /\ UNCHANGED <<inNetwork, search>>

(* searchLightsTimerFired(), searchSensorsTimerFired(): the timer is       *)
(* started again even when the timeout has just become 0.                  *)
searchTimerFired(k) ==
    /\ search[k].timers > 0
    /\ LET s == search[k]
           t == IF gwPermitJoinDuration = 0 THEN 0 ELSE s.timeout
       IN  search' = [search EXCEPT ![k] =
               [state |-> IF t <= 1 THEN "Done" ELSE s.state,
                timeout |-> less(t),
                timers |-> IF t > 0 THEN s.timers ELSE s.timers - 1]]
    /\ UNCHANGED <<gwPermitJoinDuration, permitJoinFlag, lastSend, inNetwork,
                   ctrlPermitJoin, routers, permitEvents, sendFailed>>

networkLost ==
    /\ inNetwork
    /\ inNetwork' = FALSE
    /\ UNCHANGED <<gwPermitJoinDuration, permitJoinFlag, lastSend, ctrlPermitJoin,
                   routers, search, permitEvents, sendFailed>>

networkBack ==
    /\ ~inNetwork
    /\ inNetwork' = TRUE
    /\ UNCHANGED <<gwPermitJoinDuration, permitJoinFlag, lastSend, ctrlPermitJoin,
                   routers, search, permitEvents, sendFailed>>

(* The event loop takes the next permit join event.                        *)
takePermitEvent ==
    /\ permitEvents # <<>>
    /\ permitEvents' = Tail(permitEvents)
    /\ UNCHANGED <<gwPermitJoinDuration, permitJoinFlag, lastSend, inNetwork,
                   ctrlPermitJoin, routers, search, sendFailed>>

(* Permit join by itself; Joining composes the same steps with DeviceTick. *)
NextPermitJoin ==
    \/ openNetwork \/ closeNetwork \/ networkLost \/ networkBack
    \/ permitJoinTimerFired \/ takePermitEvent
    \/ \E k \in Searches : searchTimerFired(k)

SpecPermitJoin == InitPermitJoin /\ [][NextPermitJoin]_pjVars

TypeOKPermitJoin ==
    /\ gwPermitJoinDuration \in 0..Max(Durations)
    /\ permitJoinFlag \in BOOLEAN
    /\ lastSend \in 0..Invalid
    /\ inNetwork \in BOOLEAN
    /\ ctrlPermitJoin \in 0..(SendInterval + Slack)
    /\ routers \in 0..(SendInterval + Slack)
    /\ search \in [Searches -> [state : {"Idle", "Active", "Done"},
                                timeout : 0..Max(Durations), timers : 0..2]]
    /\ permitEvents \in Seq({"Enabled", "Disabled"})
    /\ Len(permitEvents) <= EventBound + 1
    /\ sendFailed \in BOOLEAN

(* "ensure any node in the network has the same settings"                  *)
(* (permitJoinTimerFired): from the first broadcast on and as long as      *)
(* joining is enabled, the routers are open: the next broadcast is always  *)
(* due before the last one runs out, unless one could not be sent.         *)
RoutersStayOpen ==
    permitJoinFlag /\ gwPermitJoinDuration > 0 /\ AutoOff /\ lastSend # Invalid
        /\ ~sendFailed => routers > 0
=============================================================================
