---------------------------- MODULE NetworkCore -----------------------------
(***************************************************************************)
(* The Zigbee network as the plugin sees it through deCONZ::ApsController, *)
(* and the two settings that say what it should be.  Channel change,       *)
(* touchlink and the generic reconnect all move this state, each driven by *)
(* a timer of its own.                                                     *)
(***************************************************************************)
EXTENDS Naturals

CONSTANTS
    Channel,            \* Zigbee channels, numbers in 11..26
    NETWORK_ATTEMPS     \* tries to leave and to join the network (10)

ASSUME NetworkAssumption ==
    /\ Channel # {} /\ Channel \subseteq 11..26
    /\ NETWORK_ATTEMPS \in Nat \ {0}

VARIABLES
    core,                   \* state: networkState(); channel: ParamCurrentChannel;
                            \* verified: extended PAN id and trust center are right
    gwZigbeeChannel,        \* the configured channel, 0 if there is none
    gwRfConnectedExpected   \* the connection state that should be held

coreVars == <<core, gwZigbeeChannel, gwRfConnectedExpected>>

Core == [state : {"InNetwork", "Connecting", "NotInNetwork"},
         channel : Channel, verified : BOOLEAN]

isInNetwork == core.state = "InNetwork"

InitCore ==
    /\ core \in [state : {"InNetwork", "NotInNetwork"}, channel : Channel, verified : {TRUE}]
    /\ gwZigbeeChannel = core.channel
    /\ gwRfConnectedExpected \in BOOLEAN

(* The cores setNetworkState() may lead to: a request to leave takes       *)
(* effect at once, later (coreLeaves) or never, one to join starts to      *)
(* connect or fails.                                                       *)
leaveNetwork(c) == {c, [c EXCEPT !.state = "NotInNetwork"]}
joinNetwork(c) == IF c.state = "InNetwork" THEN {c} ELSE {c, [c EXCEPT !.state = "Connecting"]}
setNetworkState(c, connect) == IF connect THEN joinNetwork(c) ELSE leaveNetwork(c)

(* An attempt to connect ends; the network is lost.                        *)
coreJoins ==
    /\ core.state = "Connecting"
    /\ core' = [core EXCEPT !.state = "InNetwork"]
    /\ UNCHANGED <<gwZigbeeChannel, gwRfConnectedExpected>>

coreLeaves(from) ==
    /\ core.state = from
    /\ core' = [core EXCEPT !.state = "NotInNetwork"]
    /\ UNCHANGED <<gwZigbeeChannel, gwRfConnectedExpected>>

(* The network settings were changed in deCONZ.                            *)
configurationChanged ==
    \E c \in Channel, v \in BOOLEAN :
        /\ core' = [core EXCEPT !.channel = c, !.verified = v]
        /\ gwZigbeeChannel' = c
        /\ UNCHANGED gwRfConnectedExpected

(* Join or Leave was clicked in deCONZ.                                    *)
networkStateChangeRequest ==
    \E shouldConnect \in BOOLEAN :
        /\ gwRfConnectedExpected' = shouldConnect
        /\ core' \in setNetworkState(core, shouldConnect)
        /\ UNCHANGED gwZigbeeChannel

TypeOKCore ==
    /\ core \in Core
    /\ gwZigbeeChannel \in Channel \cup {0}
    /\ gwRfConnectedExpected \in BOOLEAN
=============================================================================
