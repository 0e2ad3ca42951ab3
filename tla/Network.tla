------------------------------- MODULE Network ------------------------------
(***************************************************************************)
(* Channel change, touchlink and the generic reconnect (de_web_plugin.cpp) *)
(* working on one network.  Nothing keeps them apart: each of the three    *)
(* leaves and joins the network by its own timer, while the user changes   *)
(* the settings and the core loses the network.                            *)
(***************************************************************************)
EXTENDS ChannelChange, Touchlink

CONSTANT RequestBound   \* bound: requests of the user

ASSUME RequestAssumption == RequestBound \in Nat

VARIABLES
    rc,         \* networkState, networkReconnectAttempts, networkConnectedBefore
                \* and reconnectTimer->isActive()
    restart,    \* needRestartApp: "no", "timer" while restartAppTimerFired() is
                \* to come, or "needed"
    requests    \* requests of the user so far

rcVars == <<rc, restart>>
vars == <<coreVars, ccVars, tlVars, rcVars, requests>>

Reconnect == [state : {"MaintainNetwork", "ReconnectNetwork"},
              attempts : 0..NETWORK_ATTEMPS, before : BOOLEAN, timer : BOOLEAN]

InitReconnect ==
    /\ rc = [state |-> "MaintainNetwork", attempts |-> 0, before |-> FALSE, timer |-> FALSE]
    /\ restart = "no"

Init == InitCore /\ InitChannelChange /\ InitTouchlink /\ InitReconnect /\ requests = 0

-----------------------------------------------------------------------------
(* networkConnectedBefore = gwRfConnectedExpected; startReconnectNetwork() *)
startReconnectNetwork ==
    rc' = [state |-> "ReconnectNetwork", attempts |-> NETWORK_ATTEMPS,
           before |-> gwRfConnectedExpected, timer |-> TRUE]

(* The part of idleTimerFired() about a network that is down.              *)
idleTimerFired ==
    /\ ~isInNetwork
    /\ rc.state = "MaintainNetwork"
    /\ gwRfConnectedExpected
    /\ startReconnectNetwork
    /\ UNCHANGED <<coreVars, ccVars, tlVars, restart>>

(* Endpoint configuration, import and reset of the configuration: the      *)
(* program restarts once it has left and joined the network.               *)
requestRestart ==
    /\ restart # "timer"
    /\ restart' = "timer"
    /\ UNCHANGED <<coreVars, ccVars, tlVars, rc>>

(* genericDisconnectNetwork(): its DisconnectingNetwork is overwritten at  *)
(* once by startReconnectNetwork().                                        *)
restartAppTimerFired ==
    /\ restart = "timer"
    /\ restart' = "needed"
    /\ core' \in leaveNetwork(core)
    /\ startReconnectNetwork
    /\ UNCHANGED <<gwZigbeeChannel, gwRfConnectedExpected, ccVars, tlVars>>

(* reconnectNetwork() while the network is not back.                       *)
reconnectNetwork ==
    /\ rc.state = "ReconnectNetwork" /\ ~isInNetwork
    /\ \/ /\ ~rc.before
          /\ rc' = [rc EXCEPT !.timer = FALSE]
          /\ UNCHANGED core
       \/ /\ rc.before /\ rc.attempts > 0 /\ core.state = "Connecting"
          /\ UNCHANGED <<core, rc>>
       \/ /\ rc.before /\ rc.attempts > 0 /\ core.state = "NotInNetwork"
          /\ rc' = [rc EXCEPT !.attempts = @ - 1]
          /\ core' \in joinNetwork(core)
       \/ /\ rc.before /\ rc.attempts = 0
          /\ rc' = [rc EXCEPT !.state = "MaintainNetwork", !.timer = FALSE]
          /\ UNCHANGED core
    /\ UNCHANGED <<gwZigbeeChannel, gwRfConnectedExpected, ccVars, tlVars, restart>>

(* ... and once it is: only the timer is stopped.                          *)
reconnectDone ==
    /\ rc.state = "ReconnectNetwork" /\ isInNetwork
    /\ restart = "no"
    /\ rc' = [rc EXCEPT !.timer = FALSE]
    /\ UNCHANGED <<coreVars, ccVars, tlVars, restart>>

(* qApp->exit(APP_RET_RESTART_APP): the program starts anew.               *)
restartApp ==
    /\ rc.state = "ReconnectNetwork" /\ isInNetwork
    /\ restart # "no"
    /\ core' \in leaveNetwork(core)
    /\ UNCHANGED <<gwZigbeeChannel, gwRfConnectedExpected>>
    /\ cc' = initChangeChannelApi /\ ccConfirm' = FALSE
    /\ tl' = initTouchlinkApi /\ touchlinkScanResponses' = {} /\ tlPending' = NothingPending
    /\ rc' = [state |-> "MaintainNetwork", attempts |-> 0, before |-> FALSE, timer |-> FALSE]
    /\ restart' = "no"

reconnectTimerFired ==
    /\ rc.timer
    /\ reconnectNetwork \/ reconnectDone \/ restartApp

-----------------------------------------------------------------------------
(* PUT /config rfconnected: refused while touchlink is active.             *)
putRfConnected ==
    /\ ~isTouchlinkActive
    /\ \E rfconnected \in BOOLEAN :
        /\ gwRfConnectedExpected' = rfconnected
        /\ core' \in setNetworkState(core, rfconnected)
    /\ UNCHANGED <<gwZigbeeChannel, ccVars, tlVars, rcVars>>

(* GET /config: what is reported as connected is expected to be.           *)
checkRfConnectState ==
    /\ isTouchlinkActive \/ isInNetwork
    /\ gwRfConnectedExpected' = TRUE
    /\ UNCHANGED <<core, gwZigbeeChannel, ccVars, tlVars, rcVars>>

ChangeTimer == channelchangeTimerFired /\ UNCHANGED <<tlVars, rcVars>>
ChangeConfirm == channelChangeSendConfirm /\ UNCHANGED <<tlVars, rcVars>>
Watchdog == networkWatchdogTimerFired /\ UNCHANGED <<tlVars, rcVars>>

TouchlinkTimer == touchlinkTimerFired /\ UNCHANGED <<ccVars, rcVars>>
TouchlinkConfirm ==
    /\ startTouchlinkModeConfirm \/ sendTouchlinkConfirm
    /\ UNCHANGED <<ccVars, rcVars>>
ScanResponse == interpanDataIndication /\ UNCHANGED <<ccVars, rcVars>>

ConnectEnds ==
    /\ coreJoins \/ coreLeaves("Connecting")
    /\ UNCHANGED <<ccVars, tlVars, rcVars>>
NetworkLost == coreLeaves("InNetwork") /\ UNCHANGED <<ccVars, tlVars, rcVars>>

StartChange == startChannelChange /\ UNCHANGED <<tlVars, rcVars>>
StartTouchlink ==
    /\ touchlinkScan \/ identifyOrResetLight
    /\ UNCHANGED <<ccVars, rcVars>>

UserSettings ==
    \/ putRfConnected \/ checkRfConnectState \/ requestRestart
    \/ /\ configurationChanged \/ networkStateChangeRequest
       /\ UNCHANGED <<ccVars, tlVars, rcVars>>

Program ==
    /\ \/ ChangeTimer \/ ChangeConfirm \/ Watchdog
       \/ TouchlinkTimer \/ TouchlinkConfirm \/ ScanResponse
       \/ idleTimerFired \/ restartAppTimerFired \/ reconnectTimerFired
       \/ ConnectEnds \/ NetworkLost
    /\ UNCHANGED requests

User ==
    /\ requests < RequestBound
    /\ requests' = requests + 1
    /\ StartChange \/ StartTouchlink \/ UserSettings

Next == Program \/ User

Spec == Init /\ [][Next]_vars

(* Qt's timers fire, an attempt to connect ends, and the touchlink         *)
(* controller confirms its requests.  A timer that fires while the core is *)
(* connecting does nothing; strong fairness says that the timers of two    *)
(* machines are not in step for ever, so that it fires at other times too. *)
FairSpec ==
    /\ Spec
    /\ SF_vars(ChangeTimer /\ UNCHANGED requests)
    /\ SF_vars(TouchlinkTimer /\ UNCHANGED requests)
    /\ WF_vars(TouchlinkConfirm /\ UNCHANGED requests)
    /\ WF_vars(ConnectEnds /\ UNCHANGED requests)

-----------------------------------------------------------------------------
(* Type invariant of the three machines and the network.                   *)
TypeOK ==
    /\ TypeOKCore /\ TypeOKChannelChange /\ TypeOKTouchlink
    /\ rc \in Reconnect
    /\ restart \in {"no", "timer", "needed"}
    /\ requests \in 0..RequestBound

(* Nobody waits for nothing: each machine that is at work has its timer    *)
(* running or an answer to come, however the three disturb each other.     *)
NeverStuck == ChangeGoesOn /\ TouchlinkGoesOn

(* A channel change ends, so that tasks are sent again: its retries and    *)
(* its tries to reconnect are used up.                                     *)
ChangeEnds == cc.state # "CC_Idle" ~> cc.state = "CC_Idle"

(* Touchlink ends, and with it the inter-PAN mode.                         *)
TouchlinkEnds == isTouchlinkActive ~> ~isTouchlinkActive
=============================================================================
