--------------------------- MODULE MCEventEmitter ---------------------------
(* Small instance of EventEmitter for TLC.                                 *)
EXTENDS EventEmitter
=============================================================================
