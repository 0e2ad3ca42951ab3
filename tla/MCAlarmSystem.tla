--------------------------- MODULE MCAlarmSystem ----------------------------
(* Small instances of AlarmSystem for TLC.                                 *)
EXTENDS AlarmSystem

(* Delays: exit 1 s, entry 1 s, trigger 2 s, and no delay to disarm.       *)
MCDelay ==
    [p \in Parameter |->
        [m \in ArmMode |->
            CASE m = "disarmed" -> 0
              [] p = "exit_delay" -> 1
              [] p = "entry_delay" -> 1
              [] p = "trigger_duration" -> 2]]

(* Arm masks devices are added with.                                       *)
MCAway     == {{"armed_away"}}
MCNight    == {{"armed_night"}}

MCChange == {<<"exit_delay", "disarmed", 1>>}
=============================================================================
