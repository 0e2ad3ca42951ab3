---------------------------- MODULE MCStateChange ---------------------------
(* Small instance of StateChange for TLC.                                  *)
EXTENDS StateChange

CONSTANTS on, bri

(* Changes of one item, of both, and the empty change of PUT /lights.      *)
MCPuts == {[s \in {on} |-> 1], [s \in {on, bri} |-> 1], [s \in {} |-> 1]}
MCDefaults == {[s \in {on} |-> 0]}
=============================================================================
