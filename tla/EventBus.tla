------------------------------ MODULE EventBus ------------------------------
(***************************************************************************)
(* What the rest of the plugin relies on when it calls enqueueEvent(): the *)
(* abstract specification of EventEmitter (event_emitter.cpp).             *)
(*                                                                         *)
(* Two FIFO queues of events that are still to be notified.  An urgent     *)
(* event is always notified before any normal one; a normal event that     *)
(* equals one which still waits is merged with it; nothing else is ever    *)
(* lost, duplicated or reordered.                                          *)
(***************************************************************************)
EXTENDS Naturals, Sequences

CONSTANTS
    Event,      \* events, equal iff isDuplicate() takes them for the same
    NoEvent     \* "no event is being notified"

VARIABLES
    urgent,     \* urgent events still to be notified, in order
    normal,     \* normal events still to be notified, in order
    notified,   \* the event eventNotify() is being emitted for, or NoEvent
    posted      \* the argument of the last enqueueEvent(), or NoEvent: a call
                \* is observed, so a lost event is no stutter

busVars == <<urgent, normal, notified, posted>>

BusInit ==
    /\ urgent = <<>>
    /\ normal = <<>>
    /\ notified = NoEvent
    /\ posted = NoEvent

Waiting(q) == {q[k] : k \in 1..Len(q)}

PostUrgent(e) ==
    /\ urgent' = Append(urgent, e)
    /\ posted' = e
    /\ UNCHANGED <<normal, notified>>

PostNormal(e) ==
    /\ normal' = IF e \in Waiting(normal) THEN normal ELSE Append(normal, e)
    /\ posted' = e
    /\ UNCHANGED <<urgent, notified>>

NotifyUrgent ==
    /\ notified = NoEvent
    /\ urgent # <<>>
    /\ notified' = Head(urgent)
    /\ urgent' = Tail(urgent)
    /\ UNCHANGED <<normal, posted>>

NotifyNormal ==
    /\ notified = NoEvent
    /\ urgent = <<>>
    /\ normal # <<>>
    /\ notified' = Head(normal)
    /\ normal' = Tail(normal)
    /\ UNCHANGED <<urgent, posted>>

HandlerReturns ==
    /\ notified # NoEvent
    /\ notified' = NoEvent
    /\ UNCHANGED <<urgent, normal, posted>>

BusNext ==
    \/ \E e \in Event : PostUrgent(e) \/ PostNormal(e)
    \/ NotifyUrgent
    \/ NotifyNormal
    \/ HandlerReturns

BusSpec == BusInit /\ [][BusNext]_busVars
=============================================================================
