------------------------------- MODULE ApsBusy ------------------------------
(***************************************************************************)
(* The table of APS requests that the core has not confirmed yet           *)
(* (device_access_fn.cpp).  State changes, bindings and polling wait while *)
(* it holds too many.  A request that is never confirmed keeps its slot    *)
(* until a later request needs one.                                        *)
(***************************************************************************)
EXTENDS Naturals, FiniteSetsExt

CONSTANTS
    TableSize,      \* APS_BUSY_TABLE_SIZE (32)
    Address,        \* extended addresses of the devices
    CoreQueue,      \* requests the core's APS queue can hold
    Free            \* an unused slot

Slot == 1..TableSize
ReqId == 1..(TableSize + CoreQueue)     \* enough to have a new one at any time
Entry == [ext : Address, id : ReqId, old : BOOLEAN]    \* old: more than 60 s

ASSUME ApsBusyAssumption ==
    /\ TableSize \in Nat \ {0} /\ CoreQueue \in Nat \ {0}
    /\ Free \notin Entry

(* _DA_BusyTable and _DA_ApsUnconfirmedCount, both zero at the start.      *)
EmptyTable == [table |-> [i \in Slot |-> Free], count |-> 0]

DA_ApsUnconfirmedRequests(b) == b.count

DA_ApsUnconfirmedRequestsForExtAddress(b, a) ==
    Cardinality({i \in Slot : b.table[i] # Free /\ b.table[i].ext = a})

(* The first slot that is free or timed out; a full table drops the entry. *)
DA_ApsRequestEnqueued(b, a, id) ==
    LET usable == {i \in Slot : b.table[i] = Free \/ b.table[i].old}
        i      == Min(usable)
    IN  IF usable = {} THEN b
        ELSE [table |-> [b.table EXCEPT ![i] = [ext |-> a, id |-> id, old |-> FALSE]],
              count |-> IF b.table[i] = Free THEN b.count + 1 ELSE b.count]

(* Mutated form: the slot is freed, the request still counts.              *)
DA_ApsRequestConfirmedKeepsCount(b, a, id) ==
    LET match == {i \in Slot : b.table[i] # Free /\ b.table[i].ext = a /\ b.table[i].id = id}
    IN  IF match = {} THEN b ELSE [b EXCEPT !.table[Min(match)] = Free]

DA_ApsRequestConfirmed(b, a, id) ==
    LET match == {i \in Slot : b.table[i] # Free /\ b.table[i].ext = a /\ b.table[i].id = id}
    IN  IF b.count = 0 \/ match = {} THEN b
        ELSE [table |-> [b.table EXCEPT ![Min(match)] = Free], count |-> b.count - 1]

(* 60 s pass without a confirm.                                            *)
GrowsOld(b, i) == [b EXCEPT !.table[i].old = TRUE]

BusyType == [table : [Slot -> Entry \cup {Free}], count : 0..TableSize]
=============================================================================
