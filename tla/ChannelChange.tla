---------------------------- MODULE ChannelChange ---------------------------
(***************************************************************************)
(* Changing the Zigbee channel (change_channel.cpp): announce the new      *)
(* channel, leave the network, join it again and verify.  One single shot  *)
(* timer drives the machine; the confirm of the announcement races it and  *)
(* may be lost.                                                            *)
(***************************************************************************)
EXTENDS NetworkCore

CONSTANT MaxRetries     \* changeChannel() gives up at this many tries (3)

ASSUME RetryAssumption == MaxRetries \in Nat \ {0}

VARIABLES
    cc,         \* channelChangeState, ccRetries, ccNetworkDisconnectAttempts or
                \* ccNetworkReconnectAttempts (the one the state counts),
                \* ccNetworkConnectedBefore, channelchangeTimer->isActive()
    ccConfirm   \* the confirm of channelChangeApsRequestId is to come

ccVars == <<cc, ccConfirm>>

ChannelChangeState == {"CC_Idle", "CC_Verify_Channel", "CC_Change_Channel",
    "CC_WaitConfirm", "CC_DisconnectingNetwork", "CC_ReconnectNetwork"}

ChannelChange == [state : ChannelChangeState, retries : 0..(MaxRetries - 1),
    attempts : 0..NETWORK_ATTEMPS, before : BOOLEAN, timer : BOOLEAN]

initChangeChannelApi == [state |-> "CC_Idle", retries |-> 0, attempts |-> 0,
                         before |-> FALSE, timer |-> FALSE]

InitChannelChange == cc = initChangeChannelApi /\ ccConfirm = FALSE

(* Enter a state and start the timer that leads out of it; return to idle  *)
(* without one.                                                            *)
enter(c, s) == [c EXCEPT !.state = s, !.timer = TRUE]
finish(c) == [c EXCEPT !.state = "CC_Idle", !.timer = FALSE]

-----------------------------------------------------------------------------
(* PUT /config zigbeechannel, which lets 0 pass.  A change in progress     *)
(* only gets a new target and all its retries back.                        *)
startChannelChange ==
    /\ isInNetwork
    /\ gwZigbeeChannel' \in Channel \cup {0}
    /\ LET c == [cc EXCEPT !.retries = 0]
       IN  cc' = IF cc.state = "CC_Idle" THEN enter(c, "CC_Verify_Channel") ELSE c
    /\ UNCHANGED <<core, gwRfConnectedExpected, ccConfirm>>

verifyChannel == isInNetwork /\ core.channel = gwZigbeeChannel /\ core.verified

Verify ==
    /\ cc.state = "CC_Verify_Channel"
    /\ cc' = IF verifyChannel THEN finish(cc) ELSE enter(cc, "CC_Change_Channel")
    /\ UNCHANGED <<core, ccConfirm>>

(* Mutated form: a request that could not be sent is not counted.          *)
changeChannelUncounted ==
    /\ cc.state = "CC_Change_Channel"
    /\ LET c == [cc EXCEPT !.retries = @ + 1]
       IN  \/ /\ cc' = enter(cc, "CC_Verify_Channel")
              /\ UNCHANGED <<core, ccConfirm>>
           \/ /\ cc.retries + 1 < MaxRetries /\ gwZigbeeChannel # 0
              /\ core' = [core EXCEPT !.channel = gwZigbeeChannel]
              /\ cc' = enter(c, "CC_WaitConfirm") /\ ccConfirm' = TRUE

(* ccRetries++; changeChannel(gwZigbeeChannel).  The request may not be    *)
(* accepted by the APS layer; without a valid address of the gateway, and  *)
(* after the last try, the change is given up.                             *)
changeChannel ==
    /\ cc.state = "CC_Change_Channel"
    /\ LET c == [cc EXCEPT !.retries = @ + 1]
       IN  \/ /\ cc.retries + 1 < MaxRetries /\ gwZigbeeChannel # 0
              /\ core' = [core EXCEPT !.channel = gwZigbeeChannel]
              /\ \/ cc' = enter(c, "CC_WaitConfirm") /\ ccConfirm' = TRUE
                 \/ cc' = enter(c, "CC_Verify_Channel") /\ UNCHANGED ccConfirm
           \/ /\ cc.retries + 1 < MaxRetries /\ gwZigbeeChannel = 0
              /\ cc' = enter(c, "CC_Verify_Channel")
              /\ UNCHANGED <<core, ccConfirm>>
           \/ /\ cc' = finish([cc EXCEPT !.retries = 0])
              /\ UNCHANGED <<core, ccConfirm>>

(* The confirm of the request, dropped when its state is over.  A request  *)
(* that was sent is followed by leaving the network.                       *)
channelChangeSendConfirm ==
    /\ ccConfirm
    /\ ccConfirm' = FALSE
    /\ IF cc.state # "CC_WaitConfirm"
       THEN UNCHANGED <<core, cc>>
       ELSE \/ /\ cc' = enter([cc EXCEPT !.attempts = NETWORK_ATTEMPS,
                                         !.before = gwRfConnectedExpected],
                              "CC_DisconnectingNetwork")
               /\ core' \in leaveNetwork(core)
            \/ /\ cc' = enter(cc, "CC_Verify_Channel")
               /\ UNCHANGED core
    /\ UNCHANGED <<gwZigbeeChannel, gwRfConnectedExpected>>

ConfirmTimeout ==
    /\ cc.state = "CC_WaitConfirm"
    /\ cc' = finish(cc)
    /\ UNCHANGED <<core, ccConfirm>>

(* Mutated form: the timer is not started for the next check.              *)
checkChannelChangeNetworkDisconnectedOnce ==
    /\ cc.state = "CC_DisconnectingNetwork"
    /\ IF isInNetwork /\ cc.attempts > 1
       THEN /\ cc' = [cc EXCEPT !.attempts = @ - 1, !.timer = FALSE]
            /\ core' \in leaveNetwork(core)
       ELSE /\ cc' = enter([cc EXCEPT !.attempts = NETWORK_ATTEMPS], "CC_ReconnectNetwork")
            /\ UNCHANGED core
    /\ UNCHANGED ccConfirm

checkChannelChangeNetworkDisconnected ==
    /\ cc.state = "CC_DisconnectingNetwork"
    /\ IF isInNetwork /\ cc.attempts > 1
       THEN /\ cc' = enter([cc EXCEPT !.attempts = @ - 1], "CC_DisconnectingNetwork")
            /\ core' \in leaveNetwork(core)
       ELSE /\ cc' = enter([cc EXCEPT !.attempts = NETWORK_ATTEMPS], "CC_ReconnectNetwork")
            /\ UNCHANGED core
    /\ UNCHANGED ccConfirm

(* While the core is connecting the machine waits without counting.        *)
channelChangeReconnectNetwork ==
    /\ cc.state = "CC_ReconnectNetwork"
    /\ \/ /\ isInNetwork
          /\ cc' = enter(cc, "CC_Verify_Channel")
          /\ UNCHANGED core
       \/ /\ ~isInNetwork
          /\ ~cc.before \/ cc.attempts = 0
          /\ cc' = finish(cc)
          /\ UNCHANGED core
       \/ /\ cc.before /\ cc.attempts > 0 /\ core.state = "Connecting"
          /\ cc' = enter(cc, "CC_ReconnectNetwork")
          /\ UNCHANGED core
       \/ /\ cc.before /\ cc.attempts > 0 /\ core.state = "NotInNetwork"
          /\ cc' = enter([cc EXCEPT !.attempts = @ - 1], "CC_ReconnectNetwork")
          /\ core' \in joinNetwork([core EXCEPT !.verified = TRUE])
    /\ UNCHANGED ccConfirm

channelchangeTimerFired ==
    /\ cc.timer
    /\ \/ Verify \/ changeChannel \/ ConfirmTimeout
       \/ checkChannelChangeNetworkDisconnected \/ channelChangeReconnectNetwork
    /\ UNCHANGED <<gwZigbeeChannel, gwRfConnectedExpected>>

(* Every 10 s: the configured channel follows the real one.                *)
networkWatchdogTimerFired ==
    /\ cc.state = "CC_Idle" /\ isInNetwork
    /\ gwZigbeeChannel' = core.channel
    /\ UNCHANGED <<core, gwRfConnectedExpected, ccVars>>

TypeOKChannelChange == cc \in ChannelChange /\ ccConfirm \in BOOLEAN

(* A change in progress always has the timer that takes it further.        *)
ChangeGoesOn == cc.state # "CC_Idle" => cc.timer
=============================================================================
