------------------------------ MODULE Touchlink -----------------------------
(***************************************************************************)
(* Touchlink (rest_touchlink.cpp): leave the network, scan channel after   *)
(* channel in inter-PAN mode or send one light an identify or a reset, and *)
(* join the network again.  Some states have a timer, the others wait for  *)
(* a confirm of deCONZ::TouchlinkController and have no timeout.           *)
(***************************************************************************)
EXTENDS NetworkCore

CONSTANTS
    FirstScans,     \* TL_SCAN_COUNT on channel 11 (5); it is 1 on the others
    ConfirmBound    \* bound: confirms of a kind to come

ASSUME TouchlinkAssumption ==
    /\ \E last \in 11..26 : Channel = 11..last
    /\ FirstScans \in Nat \ {0}
    /\ ConfirmBound \in Nat \ {0}

VARIABLES
    tl,     \* touchlinkState, touchlinkAction, touchlinkChannel, touchlinkScanCount,
            \* touchlinkNetworkDisconnectAttempts or ...ReconnectAttempts (the one
            \* the state counts), touchlinkNetworkConnectedBefore and
            \* touchlinkTimer->isActive()
    touchlinkScanResponses, \* the channels of the lights that were found
    tlPending   \* confirms of startInterpanMode() and of sendInterpanRequest()
                \* to come, and whether the light may still answer a scan request

tlVars == <<tl, touchlinkScanResponses, tlPending>>

Sending == {"TL_SendingScanRequest", "TL_SendingIdentifyRequest",
            "TL_SendingResetRequest"}

TouchlinkState == Sending \cup {"TL_Idle", "TL_DisconnectingNetwork",
    "TL_StartingInterpanMode", "TL_WaitScanResponses", "TL_ReconnectNetwork"}

TouchlinkAction == {"TouchlinkScan", "TouchlinkIdentify", "TouchlinkReset"}

Touchlink == [state : TouchlinkState, action : TouchlinkAction, channel : Channel,
    scanCount : 0..(FirstScans + 1), attempts : 0..NETWORK_ATTEMPS,
    before : BOOLEAN, timer : BOOLEAN]

Pending == [mode : 0..ConfirmBound, send : 0..ConfirmBound, answer : BOOLEAN]

LastChannel == CHOOSE c \in Channel : \A d \in Channel : d <= c

TL_SCAN_COUNT == IF tl.channel = 11 THEN FirstScans ELSE 1

isTouchlinkActive == tl.state # "TL_Idle"

initTouchlinkApi == [state |-> "TL_Idle", action |-> "TouchlinkScan", channel |-> 11,
    scanCount |-> 0, attempts |-> 0, before |-> FALSE, timer |-> FALSE]

NothingPending == [mode |-> 0, send |-> 0, answer |-> FALSE]

InitTouchlink ==
    /\ tl = initTouchlinkApi
    /\ touchlinkScanResponses = {}
    /\ tlPending = NothingPending

-----------------------------------------------------------------------------
touchlinkStartReconnectNetwork(t) ==
    [t EXCEPT !.state = "TL_ReconnectNetwork", !.attempts = NETWORK_ATTEMPS, !.timer = TRUE]

touchlinkDisconnectNetwork(t) ==
    /\ tl' = [t EXCEPT !.state = "TL_DisconnectingNetwork", !.attempts = NETWORK_ATTEMPS,
                       !.before = gwRfConnectedExpected, !.timer = TRUE]
    /\ core' \in leaveNetwork(core)
    /\ UNCHANGED <<gwZigbeeChannel, gwRfConnectedExpected, tlPending>>

(* POST /touchlink/scan                                                    *)
touchlinkScan ==
    /\ ~isTouchlinkActive
    /\ touchlinkScanResponses' = {}
    /\ touchlinkDisconnectNetwork([tl EXCEPT !.action = "TouchlinkScan",
                                             !.channel = 11, !.scanCount = 0])

(* identifyLight(), resetLight(): of a light an earlier scan has found.    *)
identifyOrResetLight ==
    /\ ~isTouchlinkActive
    /\ \E a \in {"TouchlinkIdentify", "TouchlinkReset"}, c \in touchlinkScanResponses :
           touchlinkDisconnectNetwork([tl EXCEPT !.action = a, !.channel = c])
    /\ UNCHANGED touchlinkScanResponses

(* startInterpanMode() is accepted, or fails at once.                      *)
startTouchlinkMode(t) ==
    \/ /\ tlPending.mode < ConfirmBound
       /\ tlPending' = [tlPending EXCEPT !.mode = @ + 1]
       /\ tl' = [t EXCEPT !.state = "TL_StartingInterpanMode", !.timer = FALSE]
    \/ tl' = touchlinkStartReconnectNetwork(t) /\ UNCHANGED tlPending

(* sendInterpanRequest() is accepted, or fails at once; p is what is       *)
(* pending but for this request.                                           *)
sendInterpanRequest(t, s, p) ==
    \/ /\ p.send < ConfirmBound
       /\ tlPending' = [p EXCEPT !.send = @ + 1]
       /\ tl' = [t EXCEPT !.state = s, !.timer = FALSE]
    \/ tl' = touchlinkStartReconnectNetwork(t) /\ tlPending' = p

(* The count is kept up to the largest value it is compared with.          *)
sendTouchlinkScanRequest(p) ==
    sendInterpanRequest([tl EXCEPT !.scanCount = IF @ > FirstScans THEN @ ELSE @ + 1],
                        "TL_SendingScanRequest", [p EXCEPT !.answer = TRUE])

checkTouchlinkNetworkDisconnected ==
    /\ tl.state = "TL_DisconnectingNetwork"
    /\ \/ /\ isInNetwork /\ tl.attempts > 1
          /\ tl' = [tl EXCEPT !.attempts = @ - 1, !.timer = TRUE]
          /\ core' \in leaveNetwork(core)
          /\ UNCHANGED tlPending
       \/ /\ isInNetwork /\ tl.attempts <= 1
          /\ tl' = touchlinkStartReconnectNetwork(tl)
          /\ UNCHANGED <<core, tlPending>>
       \/ /\ ~isInNetwork
          /\ startTouchlinkMode(tl)
          /\ UNCHANGED core
    /\ UNCHANGED touchlinkScanResponses

(* Each of the three actions begins with a scan request.                   *)
startTouchlinkModeConfirm ==
    /\ tlPending.mode > 0
    /\ LET p == [tlPending EXCEPT !.mode = @ - 1]
       IN  IF tl.state # "TL_StartingInterpanMode"
           THEN tlPending' = p /\ UNCHANGED tl
           ELSE \/ sendTouchlinkScanRequest(p)
                \/ tl' = touchlinkStartReconnectNetwork(tl) /\ tlPending' = p
    /\ UNCHANGED <<coreVars, touchlinkScanResponses>>

(* Which request is confirmed is not compared, nor does the status matter. *)
sendTouchlinkConfirm ==
    /\ tlPending.send > 0
    /\ tlPending' = [tlPending EXCEPT !.send = @ - 1]
    /\ \/ /\ tl.state = "TL_SendingScanRequest"
          /\ tl' = IF tl.action = "TouchlinkScan" /\ tl.scanCount <= TL_SCAN_COUNT
                   THEN [tl EXCEPT !.timer = TRUE]      \* once more in 1 ms
                   ELSE [tl EXCEPT !.state = "TL_WaitScanResponses", !.timer = TRUE]
       \/ /\ tl.state \in {"TL_SendingIdentifyRequest", "TL_SendingResetRequest"}
          /\ tl' = touchlinkStartReconnectNetwork(tl)
       \/ tl.state \notin Sending /\ UNCHANGED tl
    /\ UNCHANGED <<coreVars, touchlinkScanResponses>>

touchlinkScanTimeout ==
    /\ tl.state = "TL_WaitScanResponses"
    /\ IF tl.action = "TouchlinkScan" /\ tl.channel < LastChannel
       THEN startTouchlinkMode([tl EXCEPT !.channel = @ + 1, !.scanCount = 0])
       ELSE tl' = touchlinkStartReconnectNetwork(tl) /\ UNCHANGED tlPending
    /\ UNCHANGED <<core, touchlinkScanResponses>>

(* A scan response, in any state but TL_Idle: a scan records the light, an *)
(* identify or reset is sent to the light it is meant for.                 *)
interpanDataIndication ==
    /\ tlPending.answer
    /\ LET p == [tlPending EXCEPT !.answer = FALSE]
       IN  CASE ~isTouchlinkActive -> tlPending' = p /\ UNCHANGED <<tl, touchlinkScanResponses>>
             [] isTouchlinkActive /\ tl.action = "TouchlinkScan" ->
                    /\ touchlinkScanResponses' = touchlinkScanResponses \cup {tl.channel}
                    /\ tlPending' = p
                    /\ UNCHANGED tl
             [] isTouchlinkActive /\ tl.action = "TouchlinkIdentify" ->
                    /\ sendInterpanRequest(tl, "TL_SendingIdentifyRequest", p)
                    /\ UNCHANGED touchlinkScanResponses
             [] isTouchlinkActive /\ tl.action = "TouchlinkReset" ->
                    /\ sendInterpanRequest(tl, "TL_SendingResetRequest", p)
                    /\ UNCHANGED touchlinkScanResponses
    /\ UNCHANGED coreVars

(* Mutated form: tries to join the network again are not counted.          *)
touchlinkReconnectNetworkUncounted ==
    /\ tl.state = "TL_ReconnectNetwork"
    /\ IF isInNetwork \/ ~tl.before
       THEN tl' = [tl EXCEPT !.state = "TL_Idle", !.timer = FALSE] /\ UNCHANGED core
       ELSE core' \in joinNetwork(core) /\ UNCHANGED tl
    /\ UNCHANGED <<touchlinkScanResponses, tlPending>>

touchlinkReconnectNetwork ==
    /\ tl.state = "TL_ReconnectNetwork"
    /\ \/ /\ isInNetwork \/ ~tl.before \/ tl.attempts = 0
          /\ tl' = [tl EXCEPT !.state = "TL_Idle", !.timer = FALSE]
          /\ UNCHANGED core
       \/ /\ tl.before /\ tl.attempts > 0 /\ core.state = "Connecting"
          /\ tl' = [tl EXCEPT !.timer = TRUE]
          /\ UNCHANGED core
       \/ /\ tl.before /\ tl.attempts > 0 /\ core.state = "NotInNetwork"
          /\ tl' = [tl EXCEPT !.attempts = @ - 1, !.timer = TRUE]
          /\ core' \in joinNetwork(core)
    /\ UNCHANGED <<touchlinkScanResponses, tlPending>>

touchlinkTimerFired ==
    /\ tl.timer
    /\ \/ touchlinkScanTimeout
       \/ touchlinkReconnectNetwork
       \/ checkTouchlinkNetworkDisconnected
       \/ /\ tl.state = "TL_SendingScanRequest"
          /\ sendTouchlinkScanRequest(tlPending)
          /\ UNCHANGED <<core, touchlinkScanResponses>>
    /\ UNCHANGED <<gwZigbeeChannel, gwRfConnectedExpected>>

TypeOKTouchlink ==
    /\ tl \in Touchlink
    /\ touchlinkScanResponses \subseteq Channel
    /\ tlPending \in Pending

(* An active touchlink waits for something that is to come: its timer, or  *)
(* a confirm, whatever order confirms and scan responses arrived in.       *)
TouchlinkGoesOn ==
    /\ tl.state \in {"TL_DisconnectingNetwork", "TL_WaitScanResponses",
                     "TL_ReconnectNetwork"} => tl.timer
    /\ tl.state = "TL_StartingInterpanMode" => tlPending.mode > 0
    /\ tl.state \in Sending => tl.timer \/ tlPending.send > 0
=============================================================================
