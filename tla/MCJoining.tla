------------------------------ MODULE MCJoining -----------------------------
(* Small instance of Joining for TLC.                                      *)
EXTENDS Joining

CONSTANTS d1, d2

MCDevices == <<d1, d2>>
=============================================================================
