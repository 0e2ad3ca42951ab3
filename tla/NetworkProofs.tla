----------------------------- MODULE NetworkProofs ----------------------------
(***************************************************************************)
(* Channel change, touchlink and the generic reconnect never stand still    *)
(* without a timer or a confirm to come, however they disturb each other.   *)
(* Permit join, which shares nothing with them but the network, keeps the   *)
(* routers open.                                                            *)
(***************************************************************************)
EXTENDS Network, PermitJoin, TLAPS

CoreLeft == /\ core' \in Core
            /\ UNCHANGED <<gwZigbeeChannel, gwRfConnectedExpected>>

ChangeInv == TypeOKChannelChange /\ ChangeGoesOn
TouchlinkInv == TypeOKTouchlink /\ TouchlinkGoesOn
ReconnectInv == rc \in Reconnect /\ restart \in {"no", "timer", "needed"}

NetworkInv ==
    /\ TypeOKCore /\ ChangeInv /\ TouchlinkInv /\ ReconnectInv
    /\ requests \in 0..RequestBound

-----------------------------------------------------------------------------
(* The core.                                                               *)
LEMMA CoreCalls ==
  ASSUME NEW c \in Core
  PROVE  /\ leaveNetwork(c) \subseteq Core
         /\ joinNetwork(c) \subseteq Core
         /\ \A b \in BOOLEAN : setNetworkState(c, b) \subseteq Core
BY DEF Core, leaveNetwork, joinNetwork, setNetworkState

LEMMA CoreMoves ==
  ASSUME TypeOKCore, coreJoins \/ coreLeaves("Connecting") \/ coreLeaves("InNetwork")
  PROVE  TypeOKCore'
BY DEF TypeOKCore, Core, coreJoins, coreLeaves

LEMMA SettingsKeepCore ==
  ASSUME TypeOKCore, configurationChanged \/ networkStateChangeRequest
  PROVE  TypeOKCore'
<1>1. CASE configurationChanged
  BY <1>1 DEF configurationChanged, TypeOKCore, Core
<1>2. CASE networkStateChangeRequest
  BY <1>2, CoreCalls DEF networkStateChangeRequest, TypeOKCore
<1> QED
  BY <1>1, <1>2

-----------------------------------------------------------------------------
(* The channel change.                                                     *)
LEMMA EnterState ==
  ASSUME NEW c \in ChannelChange, NEW s \in ChannelChangeState
  PROVE  /\ enter(c, s) \in ChannelChange /\ enter(c, s).timer
         /\ finish(c) \in ChannelChange /\ finish(c).state = "CC_Idle"
BY DEF ChannelChange, ChannelChangeState, enter, finish

LEMMA Attempts == NETWORK_ATTEMPS \in 0..NETWORK_ATTEMPS
BY NetworkAssumption

LEMMA FewerAttempts ==
  ASSUME NEW n \in 0..NETWORK_ATTEMPS, n > 0
  PROVE  n - 1 \in 0..NETWORK_ATTEMPS
BY NetworkAssumption

LEMMA ChangeUpdates ==
  ASSUME NEW c \in ChannelChange
  PROVE  /\ \A n \in 0..(MaxRetries - 1) : [c EXCEPT !.retries = n] \in ChannelChange
         /\ \A n \in 0..NETWORK_ATTEMPS : [c EXCEPT !.attempts = n] \in ChannelChange
         /\ \A n \in 0..NETWORK_ATTEMPS, b \in BOOLEAN :
               [c EXCEPT !.attempts = n, !.before = b] \in ChannelChange
         /\ c.retries \in 0..(MaxRetries - 1) /\ c.attempts \in 0..NETWORK_ATTEMPS
<1>1. \A n \in 0..(MaxRetries - 1) : [c EXCEPT !.retries = n] \in ChannelChange
  BY DEF ChannelChange
<1>2. \A n \in 0..NETWORK_ATTEMPS : [c EXCEPT !.attempts = n] \in ChannelChange
  BY DEF ChannelChange
<1>3. \A n \in 0..NETWORK_ATTEMPS, b \in BOOLEAN :
         [c EXCEPT !.attempts = n, !.before = b] \in ChannelChange
  BY DEF ChannelChange
<1>4. c.retries \in 0..(MaxRetries - 1) /\ c.attempts \in 0..NETWORK_ATTEMPS
  BY DEF ChannelChange
<1> QED
  BY <1>1, <1>2, <1>3, <1>4

LEMMA ChangeTypes ==
  ASSUME cc \in ChannelChange
  PROVE  /\ [cc EXCEPT !.retries = 0] \in ChannelChange
         /\ cc.retries + 1 < MaxRetries => [cc EXCEPT !.retries = @ + 1] \in ChannelChange
         /\ [cc EXCEPT !.attempts = NETWORK_ATTEMPS] \in ChannelChange
         /\ cc.attempts > 0 => [cc EXCEPT !.attempts = @ - 1] \in ChannelChange
         /\ \A b \in BOOLEAN :
               [cc EXCEPT !.attempts = NETWORK_ATTEMPS, !.before = b] \in ChannelChange
<1>1. cc.retries \in 0..(MaxRetries - 1) /\ cc.attempts \in 0..NETWORK_ATTEMPS
  BY ChangeUpdates
<1>2. 0 \in 0..(MaxRetries - 1)
  BY RetryAssumption
<1>3. cc.retries + 1 < MaxRetries => cc.retries + 1 \in 0..(MaxRetries - 1)
  BY <1>1, RetryAssumption
<1>4. cc.attempts > 0 => cc.attempts - 1 \in 0..NETWORK_ATTEMPS
  BY <1>1, FewerAttempts
<1>5. [cc EXCEPT !.retries = 0] \in ChannelChange
  BY <1>2, ChangeUpdates
<1>6. cc.retries + 1 < MaxRetries => [cc EXCEPT !.retries = @ + 1] \in ChannelChange
  BY <1>3, ChangeUpdates
<1>7. cc.attempts > 0 => [cc EXCEPT !.attempts = @ - 1] \in ChannelChange
  BY <1>4, ChangeUpdates
<1>8. /\ [cc EXCEPT !.attempts = NETWORK_ATTEMPS] \in ChannelChange
      /\ \A b \in BOOLEAN :
            [cc EXCEPT !.attempts = NETWORK_ATTEMPS, !.before = b] \in ChannelChange
  BY Attempts, ChangeUpdates
<1> QED
  BY <1>5, <1>6, <1>7, <1>8

LEMMA ChangeTimerKeeps ==
  ASSUME TypeOKCore, ChangeInv, channelchangeTimerFired
  PROVE  TypeOKCore' /\ ChangeInv'
<1> USE DEF ChangeInv, TypeOKChannelChange, TypeOKCore
<1> SUFFICES core' \in Core /\ cc' \in ChannelChange /\ ccConfirm' \in BOOLEAN
             /\ (cc'.state # "CC_Idle" => cc'.timer)
  BY DEF channelchangeTimerFired, ChangeGoesOn
<1>0. {"CC_Idle", "CC_Verify_Channel", "CC_Change_Channel", "CC_WaitConfirm",
       "CC_DisconnectingNetwork", "CC_ReconnectNetwork"} \subseteq ChannelChangeState
  BY DEF ChannelChangeState
<1>1. CASE Verify
  BY <1>0, <1>1, EnterState DEF Verify
<1>2. CASE changeChannel
  <2> DEFINE c == [cc EXCEPT !.retries = @ + 1]
  <2>1. CASE /\ cc.retries + 1 < MaxRetries /\ gwZigbeeChannel # 0
             /\ core' = [core EXCEPT !.channel = gwZigbeeChannel]
             /\ \/ cc' = enter(c, "CC_WaitConfirm") /\ ccConfirm' = TRUE
                \/ cc' = enter(c, "CC_Verify_Channel") /\ UNCHANGED ccConfirm
    <3>1. c \in ChannelChange
      BY <2>1, ChangeTypes
    <3>2. core' \in Core
      BY <2>1 DEF Core
    <3> QED
      BY <1>0, <2>1, <3>1, <3>2, EnterState
  <2>2. CASE /\ cc.retries + 1 < MaxRetries /\ gwZigbeeChannel = 0
             /\ cc' = enter(c, "CC_Verify_Channel")
             /\ UNCHANGED <<core, ccConfirm>>
    <3>1. c \in ChannelChange
      BY <2>2, ChangeTypes
    <3> QED
      BY <1>0, <2>2, <3>1, EnterState
  <2>3. CASE /\ cc' = finish([cc EXCEPT !.retries = 0])
             /\ UNCHANGED <<core, ccConfirm>>
    BY <1>0, <2>3, ChangeTypes, EnterState
  <2> QED
    BY <1>2, <2>1, <2>2, <2>3 DEF changeChannel
<1>3. CASE ConfirmTimeout
  BY <1>0, <1>3, EnterState DEF ConfirmTimeout
<1>4. CASE checkChannelChangeNetworkDisconnected
  <2>1. CASE isInNetwork /\ cc.attempts > 1
    <3>a. cc.attempts \in 0..NETWORK_ATTEMPS
      BY ChangeUpdates
    <3>b. \A n \in 0..NETWORK_ATTEMPS : n > 1 => n > 0
      BY NetworkAssumption
    <3>0. cc.attempts > 0
      BY <2>1, <3>a, <3>b
    <3>1. [cc EXCEPT !.attempts = @ - 1] \in ChannelChange
      BY <3>0, ChangeTypes
    <3> QED
      BY <1>0, <1>4, <2>1, <3>1, EnterState, CoreCalls
         DEF checkChannelChangeNetworkDisconnected
  <2>2. CASE ~(isInNetwork /\ cc.attempts > 1)
    BY <1>0, <1>4, <2>2, ChangeTypes, EnterState DEF checkChannelChangeNetworkDisconnected
  <2> QED
    BY <2>1, <2>2
<1>5. CASE channelChangeReconnectNetwork
  <2>1. CASE cc' = enter(cc, "CC_Verify_Channel") /\ UNCHANGED core
    BY <1>0, <1>5, <2>1, EnterState DEF channelChangeReconnectNetwork
  <2>2. CASE cc' = finish(cc) /\ UNCHANGED core
    BY <1>0, <1>5, <2>2, EnterState DEF channelChangeReconnectNetwork
  <2>3. CASE cc' = enter(cc, "CC_ReconnectNetwork") /\ UNCHANGED core
    BY <1>0, <1>5, <2>3, EnterState DEF channelChangeReconnectNetwork
  <2>4. CASE /\ cc.attempts > 0
             /\ cc' = enter([cc EXCEPT !.attempts = @ - 1], "CC_ReconnectNetwork")
             /\ core' \in joinNetwork([core EXCEPT !.verified = TRUE])
    <3>1. [core EXCEPT !.verified = TRUE] \in Core
      BY DEF Core
    <3>2. [cc EXCEPT !.attempts = @ - 1] \in ChannelChange
      BY <2>4, ChangeTypes
    <3> QED
      BY <1>0, <1>5, <2>4, <3>1, <3>2, EnterState, CoreCalls
         DEF channelChangeReconnectNetwork
  <2> QED
    BY <1>5, <2>1, <2>2, <2>3, <2>4 DEF channelChangeReconnectNetwork
<1> QED
  BY <1>1, <1>2, <1>3, <1>4, <1>5 DEF channelchangeTimerFired

LEMMA ChangeKeeps ==
  ASSUME TypeOKCore, ChangeInv,
         startChannelChange \/ channelChangeSendConfirm \/ networkWatchdogTimerFired
  PROVE  TypeOKCore' /\ ChangeInv'
<1> USE DEF ChangeInv, TypeOKChannelChange, ChangeGoesOn
<1>0. {"CC_Verify_Channel", "CC_DisconnectingNetwork"} \subseteq ChannelChangeState
  BY DEF ChannelChangeState
<1>1. CASE startChannelChange
  <2>1. [cc EXCEPT !.retries = 0] \in ChannelChange
    BY ChangeTypes
  <2>2. [cc EXCEPT !.retries = 0].state = cc.state /\ [cc EXCEPT !.retries = 0].timer = cc.timer
    BY DEF ChannelChange
  <2> QED
    BY <1>0, <1>1, <2>1, <2>2, EnterState DEF startChannelChange, TypeOKCore
<1>2. CASE channelChangeSendConfirm
  BY <1>0, <1>2, ChangeTypes, EnterState, CoreCalls DEF channelChangeSendConfirm, TypeOKCore
<1>3. CASE networkWatchdogTimerFired
  BY <1>3 DEF networkWatchdogTimerFired, ccVars, TypeOKCore, Core
<1> QED
  BY <1>1, <1>2, <1>3

-----------------------------------------------------------------------------
(* Touchlink.                                                              *)
LEMMA NextChannel ==
  ASSUME NEW c \in Channel, c < LastChannel
  PROVE  c + 1 \in Channel
<1>1. PICK n \in 11..26 : Channel = 11..n
  BY TouchlinkAssumption
<1>2. n \in Channel /\ \A d \in Channel : d <= n
  BY <1>1
<1>3. LastChannel \in Channel
  BY <1>2 DEF LastChannel
<1> QED
  BY <1>1, <1>3

LEMMA TouchlinkUpdates ==
  ASSUME NEW t \in Touchlink
  PROVE  /\ \A s \in TouchlinkState, b \in BOOLEAN :
               [t EXCEPT !.state = s, !.timer = b] \in Touchlink
         /\ \A s \in TouchlinkState, n \in 0..NETWORK_ATTEMPS, b \in BOOLEAN :
               [t EXCEPT !.state = s, !.attempts = n, !.timer = b] \in Touchlink
         /\ \A n \in 0..NETWORK_ATTEMPS, b \in BOOLEAN :
               [t EXCEPT !.attempts = n, !.timer = b] \in Touchlink
         /\ \A c \in Channel, n \in 0..(FirstScans + 1) :
               [t EXCEPT !.channel = c, !.scanCount = n] \in Touchlink
         /\ \A n \in 0..(FirstScans + 1) : [t EXCEPT !.scanCount = n] \in Touchlink
         /\ \A b \in BOOLEAN : [t EXCEPT !.timer = b] \in Touchlink
<1>1. \A s \in TouchlinkState, b \in BOOLEAN : [t EXCEPT !.state = s, !.timer = b] \in Touchlink
  BY DEF Touchlink
<1>2. \A s \in TouchlinkState, n \in 0..NETWORK_ATTEMPS, b \in BOOLEAN :
         [t EXCEPT !.state = s, !.attempts = n, !.timer = b] \in Touchlink
  BY DEF Touchlink
<1>3. \A n \in 0..NETWORK_ATTEMPS, b \in BOOLEAN :
         [t EXCEPT !.attempts = n, !.timer = b] \in Touchlink
  BY DEF Touchlink
<1>4. \A c \in Channel, n \in 0..(FirstScans + 1) :
         [t EXCEPT !.channel = c, !.scanCount = n] \in Touchlink
  BY DEF Touchlink
<1>5. \A n \in 0..(FirstScans + 1) : [t EXCEPT !.scanCount = n] \in Touchlink
  BY DEF Touchlink
<1>6. \A b \in BOOLEAN : [t EXCEPT !.timer = b] \in Touchlink
  BY DEF Touchlink
<1> QED
  BY <1>1, <1>2, <1>3, <1>4, <1>5, <1>6

LEMMA TouchlinkFields ==
  ASSUME NEW t \in Touchlink
  PROVE  /\ t.attempts \in 0..NETWORK_ATTEMPS /\ t.scanCount \in 0..(FirstScans + 1)
         /\ t.channel \in Channel
         /\ \A s, b : /\ [t EXCEPT !.state = s, !.timer = b].state = s
                      /\ [t EXCEPT !.state = s, !.timer = b].timer = b
         /\ \A n, b : /\ [t EXCEPT !.attempts = n, !.timer = b].state = t.state
                      /\ [t EXCEPT !.attempts = n, !.timer = b].timer = b
         /\ \A b : /\ [t EXCEPT !.timer = b].state = t.state
                   /\ [t EXCEPT !.timer = b].timer = b
BY DEF Touchlink

LEMMA PendingUpdates ==
  ASSUME NEW p \in Pending
  PROVE  /\ p.mode \in 0..ConfirmBound /\ p.send \in 0..ConfirmBound
         /\ \A n \in 0..ConfirmBound : /\ [p EXCEPT !.mode = n] \in Pending
                                       /\ [p EXCEPT !.mode = n].mode = n
                                       /\ [p EXCEPT !.mode = n].send = p.send
         /\ \A n \in 0..ConfirmBound : /\ [p EXCEPT !.send = n] \in Pending
                                       /\ [p EXCEPT !.send = n].send = n
                                       /\ [p EXCEPT !.send = n].mode = p.mode
<1>1. p.mode \in 0..ConfirmBound /\ p.send \in 0..ConfirmBound
  BY DEF Pending
<1>2. \A n \in 0..ConfirmBound : /\ [p EXCEPT !.mode = n] \in Pending
                                /\ [p EXCEPT !.mode = n].mode = n
                                /\ [p EXCEPT !.mode = n].send = p.send
  BY DEF Pending
<1>3. \A n \in 0..ConfirmBound : /\ [p EXCEPT !.send = n] \in Pending
                                /\ [p EXCEPT !.send = n].send = n
                                /\ [p EXCEPT !.send = n].mode = p.mode
  BY DEF Pending
<1> QED
  BY <1>1, <1>2, <1>3

LEMMA Confirms ==
  ASSUME NEW n \in 0..ConfirmBound
  PROVE  /\ n < ConfirmBound => n + 1 \in 0..ConfirmBound /\ n + 1 > 0
         /\ n > 0 => n - 1 \in 0..ConfirmBound
BY TouchlinkAssumption

LEMMA ReconnectState ==
  ASSUME NEW t \in Touchlink
  PROVE  /\ touchlinkStartReconnectNetwork(t) \in Touchlink
         /\ touchlinkStartReconnectNetwork(t).state = "TL_ReconnectNetwork"
         /\ touchlinkStartReconnectNetwork(t).timer
<1>1. "TL_ReconnectNetwork" \in TouchlinkState
  BY DEF TouchlinkState
<1>2. touchlinkStartReconnectNetwork(t) \in Touchlink
  BY <1>1, Attempts, TouchlinkUpdates DEF touchlinkStartReconnectNetwork
<1> QED
  BY <1>2 DEF touchlinkStartReconnectNetwork, Touchlink

(* What the machine is left with, as the actions say it.                   *)
LEMMA Reconnects ==
  ASSUME NEW t \in Touchlink, tl' = touchlinkStartReconnectNetwork(t), tlPending' \in Pending,
         touchlinkScanResponses' \subseteq Channel
  PROVE  TouchlinkInv'
BY ReconnectState DEF TouchlinkInv, TypeOKTouchlink, TouchlinkGoesOn, Sending

LEMMA StartMode ==
  ASSUME NEW t \in Touchlink, tlPending \in Pending, startTouchlinkMode(t),
         touchlinkScanResponses' \subseteq Channel
  PROVE  TouchlinkInv'
<1>1. CASE /\ tlPending.mode < ConfirmBound
           /\ tlPending' = [tlPending EXCEPT !.mode = @ + 1]
           /\ tl' = [t EXCEPT !.state = "TL_StartingInterpanMode", !.timer = FALSE]
  <2>1. tlPending' \in Pending /\ tlPending'.mode > 0
    BY <1>1, Confirms, PendingUpdates
  <2>2. tl' \in Touchlink /\ tl'.state = "TL_StartingInterpanMode"
    BY <1>1 DEF Touchlink, TouchlinkState
  <2> QED
    BY <2>1, <2>2 DEF TouchlinkInv, TypeOKTouchlink, TouchlinkGoesOn, Sending
<1>2. CASE tl' = touchlinkStartReconnectNetwork(t) /\ UNCHANGED tlPending
  BY <1>2, Reconnects
<1> QED
  BY <1>1, <1>2 DEF startTouchlinkMode

LEMMA SendRequest ==
  ASSUME NEW t \in Touchlink, NEW s \in Sending, NEW p \in Pending,
         sendInterpanRequest(t, s, p), touchlinkScanResponses' \subseteq Channel
  PROVE  TouchlinkInv'
<1>1. CASE /\ p.send < ConfirmBound
           /\ tlPending' = [p EXCEPT !.send = @ + 1]
           /\ tl' = [t EXCEPT !.state = s, !.timer = FALSE]
  <2>1. tlPending' \in Pending /\ tlPending'.send > 0
    BY <1>1, Confirms, PendingUpdates
  <2>2. tl' \in Touchlink /\ tl'.state = s
    BY <1>1 DEF Touchlink, TouchlinkState
  <2> QED
    BY <2>1, <2>2 DEF TouchlinkInv, TypeOKTouchlink, TouchlinkGoesOn, Sending
<1>2. CASE tl' = touchlinkStartReconnectNetwork(t) /\ tlPending' = p
  BY <1>2, Reconnects
<1> QED
  BY <1>1, <1>2 DEF sendInterpanRequest

LEMMA SendScan ==
  ASSUME tl \in Touchlink, NEW p \in Pending, sendTouchlinkScanRequest(p),
         touchlinkScanResponses' \subseteq Channel
  PROVE  TouchlinkInv'
<1>1. [tl EXCEPT !.scanCount = IF @ > FirstScans THEN @ ELSE @ + 1] \in Touchlink
  <2>1. tl.scanCount \in 0..(FirstScans + 1) /\ FirstScans \in Nat
    BY TouchlinkFields, TouchlinkAssumption
  <2>2. (IF tl.scanCount > FirstScans THEN tl.scanCount ELSE tl.scanCount + 1)
           \in 0..(FirstScans + 1)
    BY <2>1
  <2> QED
    BY <2>2, TouchlinkUpdates
<1>2. [p EXCEPT !.answer = TRUE] \in Pending
  BY DEF Pending
<1> QED
  BY <1>1, <1>2, SendRequest DEF sendTouchlinkScanRequest, Sending

LEMMA TouchlinkStarts ==
  ASSUME TypeOKCore, TouchlinkInv, touchlinkScan \/ identifyOrResetLight
  PROVE  TypeOKCore' /\ TouchlinkInv'
<1>1. ASSUME NEW t \in Touchlink, touchlinkDisconnectNetwork(t),
             touchlinkScanResponses' \subseteq Channel
      PROVE  TypeOKCore' /\ TouchlinkInv'
  <2> DEFINE d == [t EXCEPT !.state = "TL_DisconnectingNetwork",
                            !.attempts = NETWORK_ATTEMPS, !.timer = TRUE]
  <2>a. d \in Touchlink /\ d.state = "TL_DisconnectingNetwork" /\ d.timer
    <3>1. "TL_DisconnectingNetwork" \in TouchlinkState
      BY DEF TouchlinkState
    <3>2. d \in Touchlink
      BY <3>1, Attempts, TouchlinkUpdates
    <3> QED
      BY <3>2 DEF Touchlink
  <2>b. tl' = [d EXCEPT !.before = gwRfConnectedExpected]
    BY <1>1 DEF touchlinkDisconnectNetwork, Touchlink
  <2>1. tl' \in Touchlink /\ tl'.state = "TL_DisconnectingNetwork" /\ tl'.timer
    <3> HIDE DEF d
    <3> QED
      BY <2>a, <2>b DEF Touchlink, TypeOKCore
  <2>2. TypeOKCore'
    BY <1>1, CoreCalls DEF touchlinkDisconnectNetwork, TypeOKCore
  <2> QED
    BY <1>1, <2>1, <2>2
       DEF touchlinkDisconnectNetwork, TouchlinkInv, TypeOKTouchlink, TouchlinkGoesOn, Sending
<1>2. CASE touchlinkScan
  <2>1. [tl EXCEPT !.action = "TouchlinkScan", !.channel = 11, !.scanCount = 0] \in Touchlink
    <3>1. 11 \in Channel /\ 0 \in 0..(FirstScans + 1)
      BY TouchlinkAssumption
    <3>2. [tl EXCEPT !.channel = 11, !.scanCount = 0] \in Touchlink
      BY <3>1, TouchlinkUpdates DEF TouchlinkInv, TypeOKTouchlink
    <3>3. [tl EXCEPT !.action = "TouchlinkScan", !.channel = 11, !.scanCount = 0]
             = [[tl EXCEPT !.channel = 11, !.scanCount = 0] EXCEPT !.action = "TouchlinkScan"]
      BY DEF TouchlinkInv, TypeOKTouchlink, Touchlink
    <3>4. \A t \in Touchlink : [t EXCEPT !.action = "TouchlinkScan"] \in Touchlink
      BY DEF Touchlink, TouchlinkAction
    <3> QED
      BY <3>2, <3>3, <3>4
  <2> QED
    BY <1>1, <1>2, <2>1 DEF touchlinkScan
<1>3. CASE identifyOrResetLight
  <2>1. PICK a \in {"TouchlinkIdentify", "TouchlinkReset"}, c \in touchlinkScanResponses :
               touchlinkDisconnectNetwork([tl EXCEPT !.action = a, !.channel = c])
    BY <1>3 DEF identifyOrResetLight
  <2>2. [tl EXCEPT !.action = a, !.channel = c] \in Touchlink
    BY DEF TouchlinkInv, TypeOKTouchlink, Touchlink, TouchlinkAction
  <2> QED
    BY <1>1, <1>3, <2>1, <2>2 DEF identifyOrResetLight, TouchlinkInv, TypeOKTouchlink
<1> QED
  BY <1>2, <1>3

LEMMA TouchlinkTimerKeeps ==
  ASSUME TypeOKCore, TouchlinkInv, touchlinkTimerFired
  PROVE  TypeOKCore' /\ TouchlinkInv'
<1> USE DEF TouchlinkInv, TypeOKTouchlink
<1>0. ASSUME core' \in Core PROVE TypeOKCore'
  BY <1>0 DEF TypeOKCore, touchlinkTimerFired
<1>1. CASE touchlinkScanTimeout
  <2>1. TypeOKCore'
    BY <1>0, <1>1 DEF touchlinkScanTimeout, TypeOKCore
  <2>2. CASE tl.action = "TouchlinkScan" /\ tl.channel < LastChannel
    <3>1. tl.channel + 1 \in Channel
      BY <2>2, NextChannel DEF Touchlink
    <3>a. 0 \in 0..(FirstScans + 1)
      BY TouchlinkAssumption
    <3>2. [tl EXCEPT !.channel = @ + 1, !.scanCount = 0] \in Touchlink
      BY <3>1, <3>a, TouchlinkUpdates
    <3> QED
      BY <1>1, <2>1, <2>2, <3>2, StartMode DEF touchlinkScanTimeout
  <2>3. CASE ~(tl.action = "TouchlinkScan" /\ tl.channel < LastChannel)
    BY <1>1, <2>1, <2>3, Reconnects DEF touchlinkScanTimeout
  <2> QED
    BY <2>2, <2>3
<1>2. CASE touchlinkReconnectNetwork
  <2>1. TypeOKCore'
    BY <1>0, <1>2, CoreCalls DEF touchlinkReconnectNetwork, TypeOKCore
  <2>2. tl' \in Touchlink /\ (tl'.state = "TL_Idle" \/ (tl'.state = "TL_ReconnectNetwork" /\ tl'.timer))
    <3>1. "TL_Idle" \in TouchlinkState
      BY DEF TouchlinkState
    <3>2. tl.attempts \in 0..NETWORK_ATTEMPS
      BY TouchlinkFields
    <3>3. tl.attempts > 0 => tl.attempts - 1 \in 0..NETWORK_ATTEMPS
      BY <3>2, FewerAttempts
    <3>4. CASE tl' = [tl EXCEPT !.state = "TL_Idle", !.timer = FALSE]
      <4>1. tl' \in Touchlink
        BY <3>1, <3>4, TouchlinkUpdates
      <4>2. tl'.state = "TL_Idle"
        BY <3>4, TouchlinkFields
      <4> QED
        BY <4>1, <4>2
    <3>5. CASE tl' = [tl EXCEPT !.timer = TRUE]
      <4>1. tl' \in Touchlink
        BY <3>5, TouchlinkUpdates
      <4>2. tl'.state = tl.state /\ tl'.timer
        BY <3>5, TouchlinkFields
      <4> QED
        BY <1>2, <4>1, <4>2 DEF touchlinkReconnectNetwork
    <3>6. CASE tl.attempts > 0 /\ tl' = [tl EXCEPT !.attempts = @ - 1, !.timer = TRUE]
      <4>1. tl' \in Touchlink
        BY <3>3, <3>6, TouchlinkUpdates
      <4>2. tl'.state = tl.state /\ tl'.timer
        BY <3>6, TouchlinkFields
      <4> QED
        BY <1>2, <4>1, <4>2 DEF touchlinkReconnectNetwork
    <3> QED
      BY <1>2, <3>4, <3>5, <3>6 DEF touchlinkReconnectNetwork
  <2> QED
    BY <1>2, <2>1, <2>2 DEF touchlinkReconnectNetwork, TouchlinkGoesOn, Sending
<1>3. CASE checkTouchlinkNetworkDisconnected
  <2>1. TypeOKCore'
    BY <1>0, <1>3, CoreCalls DEF checkTouchlinkNetworkDisconnected, TypeOKCore
  <2>2. CASE isInNetwork /\ tl.attempts > 1
    <3>1. tl' \in Touchlink /\ tl'.state = "TL_DisconnectingNetwork" /\ tl'.timer
      <4>1. tl.attempts \in 0..NETWORK_ATTEMPS
        BY TouchlinkFields
      <4>2. tl.attempts - 1 \in 0..NETWORK_ATTEMPS
        BY <2>2, <4>1, NetworkAssumption
      <4>3. tl' = [tl EXCEPT !.attempts = @ - 1, !.timer = TRUE]
        BY <1>3, <2>2, <4>1, NetworkAssumption DEF checkTouchlinkNetworkDisconnected
      <4>4. tl' \in Touchlink
        BY <4>2, <4>3, TouchlinkUpdates
      <4>5. tl'.state = tl.state /\ tl'.timer
        BY <4>3, TouchlinkFields
      <4> QED
        BY <1>3, <4>4, <4>5 DEF checkTouchlinkNetworkDisconnected
    <3> QED
      BY <1>3, <2>1, <2>2, <3>1 DEF checkTouchlinkNetworkDisconnected, TouchlinkGoesOn, Sending
  <2>3. CASE isInNetwork /\ ~(tl.attempts > 1)
    BY <1>3, <2>1, <2>3, Reconnects DEF checkTouchlinkNetworkDisconnected
  <2>4. CASE ~isInNetwork
    BY <1>3, <2>1, <2>4, StartMode DEF checkTouchlinkNetworkDisconnected
  <2> QED
    BY <2>2, <2>3, <2>4
<1>4. CASE /\ tl.state = "TL_SendingScanRequest"
           /\ sendTouchlinkScanRequest(tlPending)
           /\ UNCHANGED <<core, touchlinkScanResponses>>
  BY <1>0, <1>4, SendScan DEF TypeOKCore
<1> QED
  BY <1>1, <1>2, <1>3, <1>4 DEF touchlinkTimerFired

LEMMA TouchlinkConfirmKeeps ==
  ASSUME TypeOKCore, TouchlinkInv,
         startTouchlinkModeConfirm \/ sendTouchlinkConfirm \/ interpanDataIndication
  PROVE  TypeOKCore' /\ TouchlinkInv'
<1> USE DEF TouchlinkInv, TypeOKTouchlink
<1>0. TypeOKCore'
  BY DEF TypeOKCore, startTouchlinkModeConfirm, sendTouchlinkConfirm, interpanDataIndication,
         coreVars
<1>1. CASE startTouchlinkModeConfirm
  <2> DEFINE p == [tlPending EXCEPT !.mode = @ - 1]
  <2>1. p \in Pending /\ p.send = tlPending.send
    BY <1>1, Confirms, PendingUpdates DEF startTouchlinkModeConfirm
  <2>2. CASE tl.state # "TL_StartingInterpanMode"
    BY <1>0, <1>1, <2>1, <2>2 DEF startTouchlinkModeConfirm, TouchlinkGoesOn
  <2>3. CASE tl.state = "TL_StartingInterpanMode" /\ sendTouchlinkScanRequest(p)
    BY <1>0, <1>1, <2>1, <2>3, SendScan DEF startTouchlinkModeConfirm
  <2>4. CASE tl' = touchlinkStartReconnectNetwork(tl) /\ tlPending' = p
    BY <1>0, <1>1, <2>1, <2>4, Reconnects DEF startTouchlinkModeConfirm
  <2> QED
    BY <1>1, <2>2, <2>3, <2>4 DEF startTouchlinkModeConfirm
<1>2. CASE sendTouchlinkConfirm
  <2>1. tlPending' \in Pending /\ tlPending'.mode = tlPending.mode
    BY <1>2, Confirms, PendingUpdates DEF sendTouchlinkConfirm
  <2>2. CASE tl.state = "TL_SendingScanRequest"
    <3>1. tl' \in Touchlink /\ tl'.timer /\ tl'.state \in {"TL_SendingScanRequest", "TL_WaitScanResponses"}
      BY <1>2, <2>2 DEF sendTouchlinkConfirm, Touchlink, TouchlinkState, Sending
    <3> QED
      BY <1>0, <1>2, <2>1, <3>1 DEF sendTouchlinkConfirm, TouchlinkGoesOn, Sending
  <2>3. CASE tl.state \in {"TL_SendingIdentifyRequest", "TL_SendingResetRequest"}
    BY <1>0, <1>2, <2>1, <2>3, Reconnects DEF sendTouchlinkConfirm, Sending
  <2>4. CASE tl.state \notin Sending
    BY <1>0, <1>2, <2>1, <2>4 DEF sendTouchlinkConfirm, TouchlinkGoesOn, Sending
  <2> QED
    BY <2>2, <2>3, <2>4 DEF Sending
<1>3. CASE interpanDataIndication
  <2> DEFINE p == [tlPending EXCEPT !.answer = FALSE]
  <2>1. p \in Pending /\ p.send = tlPending.send /\ p.mode = tlPending.mode
    BY DEF Pending
  <2>2. tl.channel \in Channel
    BY DEF Touchlink
  <2>3. CASE tlPending' = p /\ UNCHANGED tl
             /\ (UNCHANGED touchlinkScanResponses
                 \/ touchlinkScanResponses' = touchlinkScanResponses \cup {tl.channel})
    BY <1>0, <2>1, <2>2, <2>3 DEF TouchlinkGoesOn
  <2>4. CASE UNCHANGED touchlinkScanResponses
             /\ \E s \in Sending : sendInterpanRequest(tl, s, p)
    BY <1>0, <2>1, <2>4, SendRequest
  <2>5. tl.action \in {"TouchlinkScan", "TouchlinkIdentify", "TouchlinkReset"}
    BY DEF Touchlink, TouchlinkAction
  <2> QED
    BY <1>3, <2>3, <2>4, <2>5 DEF interpanDataIndication, Sending
<1> QED
  BY <1>1, <1>2, <1>3

-----------------------------------------------------------------------------
(* The generic reconnect and the settings.                                 *)
LEMMA StartReconnect ==
  ASSUME TypeOKCore, startReconnectNetwork
  PROVE  rc' \in Reconnect
BY NetworkAssumption DEF startReconnectNetwork, Reconnect, TypeOKCore

LEMMA InitialStates ==
  /\ initChangeChannelApi \in ChannelChange /\ initChangeChannelApi.state = "CC_Idle"
  /\ initTouchlinkApi \in Touchlink /\ initTouchlinkApi.state = "TL_Idle"
  /\ NothingPending \in Pending
  /\ [state |-> "MaintainNetwork", attempts |-> 0, before |-> FALSE, timer |-> FALSE] \in Reconnect
BY NetworkAssumption, RetryAssumption, TouchlinkAssumption
   DEF initChangeChannelApi, ChannelChange, ChannelChangeState, initTouchlinkApi, Touchlink,
       TouchlinkState, TouchlinkAction, NothingPending, Pending, Reconnect

LEMMA RestartKeeps ==
  ASSUME NetworkInv, restartApp
  PROVE  TypeOKCore' /\ ChangeInv' /\ TouchlinkInv' /\ ReconnectInv'
BY InitialStates, CoreCalls
   DEF NetworkInv, restartApp, TypeOKCore, ChangeInv, TypeOKChannelChange, ChangeGoesOn,
       TouchlinkInv, TypeOKTouchlink, TouchlinkGoesOn, Sending, ReconnectInv

LEMMA ReconnectKeeps ==
  ASSUME TypeOKCore, ReconnectInv,
         \/ idleTimerFired \/ requestRestart \/ restartAppTimerFired
         \/ reconnectNetwork \/ reconnectDone
  PROVE  TypeOKCore' /\ ReconnectInv' /\ UNCHANGED <<ccVars, tlVars>>
<1> USE DEF ReconnectInv
<1>1. CASE idleTimerFired
  BY <1>1, StartReconnect DEF idleTimerFired, coreVars, TypeOKCore
<1>2. CASE requestRestart
  BY <1>2 DEF requestRestart, coreVars, TypeOKCore
<1>3. CASE restartAppTimerFired
  BY <1>3, StartReconnect, CoreCalls DEF restartAppTimerFired, TypeOKCore
<1>4. CASE reconnectNetwork
  <2>1. core' \in Core
    BY <1>4, CoreCalls DEF reconnectNetwork, TypeOKCore
  <2>a. rc.attempts \in 0..NETWORK_ATTEMPS /\ \A n \in 0..NETWORK_ATTEMPS :
           [rc EXCEPT !.attempts = n] \in Reconnect
    BY DEF Reconnect
  <2>b. rc.attempts > 0 => rc.attempts - 1 \in 0..NETWORK_ATTEMPS
    BY <2>a, FewerAttempts
  <2>c. rc.attempts > 0 => [rc EXCEPT !.attempts = @ - 1] \in Reconnect
    BY <2>a, <2>b
  <2>d. /\ [rc EXCEPT !.timer = FALSE] \in Reconnect
        /\ [rc EXCEPT !.state = "MaintainNetwork", !.timer = FALSE] \in Reconnect
    BY DEF Reconnect
  <2>2. rc' \in Reconnect
    BY <1>4, <2>c, <2>d DEF reconnectNetwork
  <2> QED
    BY <1>4, <2>1, <2>2 DEF reconnectNetwork, TypeOKCore
<1>5. CASE reconnectDone
  BY <1>5 DEF reconnectDone, coreVars, TypeOKCore, Reconnect
<1> QED
  BY <1>1, <1>2, <1>3, <1>4, <1>5

LEMMA OthersKeep ==
  /\ UNCHANGED ccVars /\ ChangeInv => ChangeInv'
  /\ UNCHANGED tlVars /\ TouchlinkInv => TouchlinkInv'
  /\ UNCHANGED rcVars /\ ReconnectInv => ReconnectInv'
  /\ UNCHANGED coreVars /\ TypeOKCore => TypeOKCore'
BY DEF ccVars, tlVars, rcVars, coreVars, ChangeInv, TypeOKChannelChange, ChangeGoesOn,
       TouchlinkInv, TypeOKTouchlink, TouchlinkGoesOn, ReconnectInv, TypeOKCore

-----------------------------------------------------------------------------
LEMMA NetworkInvInit == Init => NetworkInv
<1> SUFFICES ASSUME Init PROVE NetworkInv
  OBVIOUS
<1> USE DEF Init
<1>1. TypeOKCore
  BY DEF InitCore, TypeOKCore, Core
<1>2. ChangeInv
  BY InitialStates DEF InitChannelChange, ChangeInv, TypeOKChannelChange, ChangeGoesOn
<1>3. TouchlinkInv
  BY InitialStates DEF InitTouchlink, TouchlinkInv, TypeOKTouchlink, TouchlinkGoesOn, Sending
<1>4. ReconnectInv
  BY InitialStates DEF InitReconnect, ReconnectInv
<1>5. requests \in 0..RequestBound
  BY RequestAssumption
<1> QED
  BY <1>1, <1>2, <1>3, <1>4, <1>5 DEF NetworkInv

LEMMA MachinesKeep ==
  ASSUME NetworkInv,
         \/ ChangeTimer \/ ChangeConfirm \/ Watchdog
         \/ TouchlinkTimer \/ TouchlinkConfirm \/ ScanResponse
         \/ idleTimerFired \/ restartAppTimerFired \/ reconnectTimerFired
         \/ ConnectEnds \/ NetworkLost
         \/ StartChange \/ StartTouchlink \/ UserSettings
  PROVE  TypeOKCore' /\ ChangeInv' /\ TouchlinkInv' /\ ReconnectInv'
<1> USE DEF NetworkInv
<1>1. CASE ChangeTimer
  BY <1>1, ChangeTimerKeeps, OthersKeep DEF ChangeTimer
<1>2. CASE ChangeConfirm \/ Watchdog \/ StartChange
  BY <1>2, ChangeKeeps, OthersKeep DEF ChangeConfirm, Watchdog, StartChange
<1>3. CASE TouchlinkTimer
  BY <1>3, TouchlinkTimerKeeps, OthersKeep DEF TouchlinkTimer
<1>4. CASE TouchlinkConfirm \/ ScanResponse
  BY <1>4, TouchlinkConfirmKeeps, OthersKeep DEF TouchlinkConfirm, ScanResponse
<1>5. CASE StartTouchlink
  BY <1>5, TouchlinkStarts, OthersKeep DEF StartTouchlink
<1>6. CASE idleTimerFired \/ restartAppTimerFired
  BY <1>6, ReconnectKeeps, OthersKeep
<1>7. CASE reconnectTimerFired
  BY <1>7, ReconnectKeeps, RestartKeeps, OthersKeep DEF reconnectTimerFired
<1>8. CASE ConnectEnds \/ NetworkLost
  BY <1>8, CoreMoves, OthersKeep DEF ConnectEnds, NetworkLost
<1>9. CASE UserSettings
  <2>1. CASE putRfConnected
    BY <2>1, CoreCalls, OthersKeep DEF putRfConnected, TypeOKCore
  <2>2. CASE checkRfConnectState
    BY <2>2, OthersKeep DEF checkRfConnectState, TypeOKCore
  <2>3. CASE requestRestart
    BY <2>3, ReconnectKeeps, OthersKeep
  <2>4. CASE /\ configurationChanged \/ networkStateChangeRequest
             /\ UNCHANGED <<ccVars, tlVars, rcVars>>
    BY <2>4, SettingsKeepCore, OthersKeep
  <2> QED
    BY <1>9, <2>1, <2>2, <2>3, <2>4 DEF UserSettings
<1> QED
  BY <1>1, <1>2, <1>3, <1>4, <1>5, <1>6, <1>7, <1>8, <1>9

LEMMA NetworkInvNext == NetworkInv /\ [Next]_vars => NetworkInv'
<1> SUFFICES ASSUME NetworkInv, [Next]_vars PROVE NetworkInv'
  OBVIOUS
<1>1. CASE Program
  BY <1>1, MachinesKeep DEF Program, NetworkInv
<1>2. CASE User
  <2>1. requests' \in 0..RequestBound
    BY <1>2, RequestAssumption DEF User, NetworkInv
  <2> QED
    BY <1>2, <2>1, MachinesKeep DEF User, NetworkInv
<1>3. CASE UNCHANGED vars
  BY <1>3, OthersKeep DEF vars, NetworkInv
<1> QED
  BY <1>1, <1>2, <1>3 DEF Next

-----------------------------------------------------------------------------
(* Every state of the channel change but idle has started channelchangeTimer; *)
(* touchlink has its timer, or a confirm of the controller that is owed; for  *)
(* any channels, numbers of tries and requests of users.                     *)
THEOREM NetworkNeverStuck == Spec => [](TypeOK /\ NeverStuck)
<1>1. NetworkInv => TypeOK /\ NeverStuck
  BY DEF NetworkInv, ChangeInv, TouchlinkInv, ReconnectInv, TypeOK, NeverStuck
<1> QED
  BY <1>1, NetworkInvInit, NetworkInvNext, PTL DEF Spec

-----------------------------------------------------------------------------
(* Permit join.  A broadcast of age lastSend has opened the routers for    *)
(* what is left of it, or of the time the network is open for; and when    *)
(* the age passes the interval, a broadcast was due and not sent.          *)
RoutersInv ==
    /\ gwPermitJoinDuration \in Nat /\ routers \in Nat /\ lastSend \in 0..Invalid
    /\ lastSend <= SendInterval =>
           routers >= gwPermitJoinDuration \/ routers >= SendInterval + Slack - lastSend
    /\ permitJoinFlag /\ AutoOff /\ lastSend = SendInterval + 1 => sendFailed

(* What is due in a second (permitJoinTimerFired): the counters go down,   *)
(* the age goes up, and a broadcast starts it anew.                        *)
LEMMA TimerKeepsRouters ==
  ASSUME RoutersInv, permitJoinTimerFired
  PROVE  RoutersInv'
<1> USE DEF Invalid
<1>1. PICK d, flag, age, last, due :
        /\ d = less(gwPermitJoinDuration)
        /\ flag = (permitJoinFlag \/ gwPermitJoinDuration > 0)
        /\ age = IF lastSend > SendInterval THEN lastSend ELSE lastSend + 1
        /\ (last = Invalid /\ d = 0) \/ last = age
        /\ due = (flag /\ (last = Invalid \/ (last > SendInterval /\ AutoOff)))
        /\ gwPermitJoinDuration' = d
        /\ permitJoinFlag' => flag
        /\ \/ routers' = broadcastDuration(d) /\ lastSend' = 0 /\ sendFailed' = FALSE
           \/ routers' = less(routers) /\ lastSend' = last /\ sendFailed' = (sendFailed \/ due)
  BY DEF permitJoinTimerFired
<1>2. /\ gwPermitJoinDuration \in Nat /\ routers \in Nat /\ lastSend \in 0..(SendInterval + 2)
      /\ SendInterval \in Nat /\ Slack \in Nat /\ Slack > 0
  BY PermitJoinAssumption DEF RoutersInv
<1>3. /\ d \in Nat /\ d <= gwPermitJoinDuration /\ (gwPermitJoinDuration > 0 => d = gwPermitJoinDuration - 1)
      /\ gwPermitJoinDuration = 0 => d = 0
  BY <1>1, <1>2 DEF less
<1>4. age \in 0..(SendInterval + 2) /\ last \in 0..(SendInterval + 2)
  BY <1>1, <1>2
<1>5. CASE routers' = broadcastDuration(d) /\ lastSend' = 0 /\ sendFailed' = FALSE
  <2>1. broadcastDuration(d) \in Nat
        /\ (broadcastDuration(d) >= d \/ broadcastDuration(d) >= SendInterval + Slack)
    BY <1>2, <1>3 DEF broadcastDuration
  <2> QED
    BY <1>1, <1>2, <1>3, <1>5, <2>1 DEF RoutersInv
<1>6. CASE routers' = less(routers) /\ lastSend' = last /\ sendFailed' = (sendFailed \/ due)
  <2>1. less(routers) \in Nat /\ (routers > 0 => less(routers) = routers - 1)
        /\ (routers = 0 => less(routers) = 0)
    BY <1>2 DEF less
  <2>2. ASSUME last <= SendInterval
        PROVE  less(routers) >= d \/ less(routers) >= SendInterval + Slack - last
    <3>1. last = age /\ lastSend <= SendInterval /\ age = lastSend + 1
      BY <1>1, <1>2, <1>4, <2>2
    <3>2. routers >= gwPermitJoinDuration \/ routers >= SendInterval + Slack - lastSend
      BY <3>1 DEF RoutersInv
    <3> QED
      BY <1>2, <1>3, <2>1, <3>1, <3>2
  <2>3. ASSUME permitJoinFlag', AutoOff, last = SendInterval + 1
        PROVE  sendFailed'
    <3>1. last > SendInterval
      BY <1>2, <2>3
    <3>2. flag /\ AutoOff
      BY <1>1, <2>3, Zenon
    <3>3. due
      BY <1>1, <3>1, <3>2, Zenon
    <3> QED
      BY <1>6, <3>3, Zenon
  <2> QED
    BY <1>1, <1>3, <1>4, <1>6, <2>1, <2>2, <2>3 DEF RoutersInv
<1> QED
  BY <1>1, <1>5, <1>6

(* While joining is enabled the routers stay open from the first broadcast *)
(* on (permitJoinTimerFired, setPermitJoinDuration), for every send        *)
(* interval and every duration: opening the network anew forces a          *)
(* broadcast, and a broadcast outlives the interval to the next one.       *)
THEOREM RoutersOpen == SpecPermitJoin => []RoutersStayOpen
<1>1. InitPermitJoin => RoutersInv
  BY PermitJoinAssumption DEF InitPermitJoin, RoutersInv, Invalid
<1>2. RoutersInv /\ [NextPermitJoin]_pjVars => RoutersInv'
  <2> SUFFICES ASSUME RoutersInv, [NextPermitJoin]_pjVars PROVE RoutersInv'
    OBVIOUS
  <2>1. CASE permitJoinTimerFired
    BY <2>1, TimerKeepsRouters
  <2>2. CASE openNetwork
    <3>1. /\ gwPermitJoinDuration' \in Durations /\ lastSend' = Invalid
          /\ UNCHANGED <<permitJoinFlag, routers, sendFailed>>
      BY <2>2 DEF openNetwork
    <3> QED
      BY <3>1, PermitJoinAssumption DEF RoutersInv, Invalid
  <2>3. CASE closeNetwork
    BY <2>3 DEF closeNetwork, RoutersInv, Invalid
  <2>4. CASE \/ networkLost \/ networkBack \/ takePermitEvent
             \/ \E k \in Searches : searchTimerFired(k)
    <3>1. UNCHANGED <<gwPermitJoinDuration, permitJoinFlag, lastSend, routers, sendFailed>>
      BY <2>4 DEF networkLost, networkBack, takePermitEvent, searchTimerFired
    <3> QED
      BY <3>1 DEF RoutersInv, Invalid
  <2>5. CASE UNCHANGED pjVars
    BY <2>5 DEF pjVars, RoutersInv, Invalid
  <2> QED
    BY <2>1, <2>2, <2>3, <2>4, <2>5 DEF NextPermitJoin
<1>3. RoutersInv => RoutersStayOpen
  BY PermitJoinAssumption DEF RoutersInv, RoutersStayOpen, Invalid
<1> QED
  BY <1>1, <1>2, <1>3, PTL DEF SpecPermitJoin
=============================================================================
