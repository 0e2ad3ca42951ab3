------------------------------ MODULE MCDevice ------------------------------
(* Small instances of Device for TLC. *)
EXTENDS Device

\* A node the core has not heard of yet, and one it knows everything about.
MCUnknown == [node |-> FALSE, descriptor |-> FALSE, endpoints |-> FALSE, simple |-> 0, attributes |-> 0]
MCKnown == [node |-> TRUE, descriptor |-> TRUE, endpoints |-> TRUE, simple |-> NumEndpoints, attributes |-> 2]

MCNewCores == {MCUnknown}
MCNewOrKnownCores == {MCUnknown, MCKnown}
=============================================================================
