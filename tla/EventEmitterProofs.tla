------------------------- MODULE EventEmitterProofs -------------------------
(***************************************************************************)
(* Proofs about EventEmitter for every set of events and every bound: the  *)
(* emitter's vectors and cursors stay consistent, no normal event misses   *)
(* its wakeup, and the emitter implements EventBus.                        *)
(***************************************************************************)
EXTENDS EventEmitter, SequenceTheorems, TLAPS

(* Inside the urgent loop an event of a non-empty vector is still to come. *)
UrgentCursor ==
    pc = "urgent" /\ m_urgentQueue # <<>> => i < Len(m_urgentQueue)

(* What process() relies on between two of its statements.                 *)
EmitterInv == TypeOK /\ UrgentBeforeNormal /\ UrgentCursor

USE EmitterAssumption

(* The empty vector, the state of a queue after clear().                   *)
LEMMA Cleared ==
    /\ <<>> \in Seq(Event)
    /\ Len(<<>>) = 0
    /\ \A q \in Seq(Event) : q # <<>> => Len(q) \in Nat \ {0}
  BY EmptySeq

(* EmitterInv holds initially and every step of the emitter keeps it.      *)
LEMMA EmitterInvInductive == Spec => []EmitterInv
<1>1. Init => EmitterInv
  <2> SUFFICES ASSUME Init PROVE EmitterInv
    OBVIOUS
  <2>1. m_queue \in Seq(Event) /\ m_urgentQueue \in Seq(Event)
    BY Cleared DEF Init
  <2>2. m_pos \in 0..Len(m_queue) /\ i \in 0..Len(m_urgentQueue)
    BY Cleared DEF Init
  <2>3. UrgentBeforeNormal /\ UrgentCursor
    BY DEF Init, UrgentBeforeNormal, UrgentCursor
  <2> QED
    BY <2>1, <2>2, <2>3 DEF Init, EmitterInv, TypeOK, PC
<1>2. EmitterInv /\ [Next]_vars => EmitterInv'
  <2> SUFFICES ASSUME EmitterInv, [Next]_vars
               PROVE  EmitterInv'
    OBVIOUS
  <2>0. posted' \in Event \cup {NoEvent}
    BY DEF EmitterInv, TypeOK, Next, Process, vars, EnqueueUrgent, EnqueueNormal
  <2> USE <2>0 DEF EmitterInv, TypeOK, UrgentBeforeNormal, UrgentCursor, PC
  <2>1. ASSUME NEW e \in Event, EnqueueUrgent(e)
        PROVE  EmitterInv'
    BY <2>1 DEF EnqueueUrgent, CallerRuns
  <2>2. ASSUME NEW e \in Event, EnqueueNormal(e)
        PROVE  EmitterInv'
    BY <2>2 DEF EnqueueNormal, CallerRuns
  <2>3. CASE TimerFired
    BY <2>3 DEF TimerFired
  <2>4. CASE EnterLoop
    <3>1. TypeOK'
      BY <2>4 DEF EnterLoop
    <3>2. UrgentBeforeNormal' /\ UrgentCursor'
      BY <2>4, Cleared DEF EnterLoop
    <3> QED
      BY <3>1, <3>2
  <2>5. CASE LeaveLoop
    BY <2>5 DEF LeaveLoop
  <2>6. CASE NotifyUrgent
    BY <2>6 DEF NotifyUrgent
  <2>7. CASE UrgentReturns
    <3>0. m_queue' \in Seq(Event) /\ m_urgentQueue' \in Seq(Event)
      BY <2>7, Cleared DEF UrgentReturns
    <3>1. TypeOK'
      BY <2>7, <3>0, Cleared DEF UrgentReturns
    <3>2. UrgentBeforeNormal' /\ UrgentCursor'
      BY <2>7, Cleared DEF UrgentReturns
    <3> QED
      BY <3>1, <3>2
  <2>8. CASE NoUrgent
    <3>1. TypeOK'
      BY <2>8, Cleared DEF NoUrgent
    <3>2. UrgentBeforeNormal' /\ UrgentCursor'
      BY <2>8, Cleared DEF NoUrgent
    <3> QED
      BY <3>1, <3>2
  <2>9. CASE NotifyNormal
    BY <2>9 DEF NotifyNormal
  <2>10. CASE NormalReturns
    <3>0. m_queue' \in Seq(Event) /\ m_urgentQueue' \in Seq(Event)
      BY <2>10, Cleared DEF NormalReturns
    <3>1. TypeOK'
      BY <2>10, <3>0, Cleared DEF NormalReturns
    <3>2. UrgentBeforeNormal' /\ UrgentCursor'
      BY <2>10, Cleared DEF NormalReturns
    <3> QED
      BY <3>1, <3>2
  <2>11. CASE NoNormal
    BY <2>11 DEF NoNormal
  <2>12. CASE UNCHANGED vars
    BY <2>12 DEF vars
  <2> QED
    BY <2>1, <2>2, <2>3, <2>4, <2>5, <2>6, <2>7, <2>8, <2>9, <2>10, <2>11,
       <2>12 DEF Next, Process
<1> QED
  BY <1>1, <1>2, PTL DEF Spec

(* TypeOK, and UrgentBeforeNormal: process() never notifies a normal event *)
(* while an urgent one waits (its DBG_Assert never fires).                 *)
THEOREM EmitterSafe == Spec => [](TypeOK /\ UrgentBeforeNormal)
<1>1. EmitterInv => TypeOK /\ UrgentBeforeNormal
  BY DEF EmitterInv
<1> QED
  BY <1>1, EmitterInvInductive, PTL

-----------------------------------------------------------------------------
(* No lost wakeup: a pass of process() that leaves events behind, other    *)
(* than by giving up at its very first check, leaves the timer running.    *)
WakeInv ==
    /\ pc = "eventloop" /\ m_queue # <<>> => m_timer
    /\ pc = "eventloop" /\ m_urgentQueue # <<>> => m_timer \/ Stranded
    /\ (pc = "inNormal" \/ (pc = "check" /\ ~first)) /\ m_urgentQueue # <<>>
          => m_timer

(* FiresAgain for every set of events, bound and scheduling: only an urgent *)
(* event alone in its queue, after a pass that gave up at its first check,  *)
(* ever waits without a timer.                                              *)
THEOREM NoLostWakeup == Spec => []FiresAgain
<1>1. Init => WakeInv
  BY DEF Init, WakeInv
<1>2. EmitterInv /\ WakeInv /\ [Next]_vars => WakeInv'
  <2> SUFFICES ASSUME EmitterInv, WakeInv, [Next]_vars
               PROVE  WakeInv'
    OBVIOUS
  <2> USE DEF WakeInv, Stranded, EmitterInv, UrgentBeforeNormal
  <2>1. ASSUME NEW e \in Event, EnqueueUrgent(e) \/ EnqueueNormal(e)
        PROVE  WakeInv'
    BY <2>1 DEF EnqueueUrgent, EnqueueNormal
  <2>2. CASE TimerFired \/ EnterLoop
    BY <2>2 DEF TimerFired, EnterLoop
  <2>3. CASE LeaveLoop
    BY <2>3 DEF LeaveLoop
  <2>4. CASE NotifyUrgent \/ UrgentReturns \/ NoUrgent
    BY <2>4 DEF NotifyUrgent, UrgentReturns, NoUrgent
  <2>5. CASE NotifyNormal \/ NormalReturns \/ NoNormal
    BY <2>5 DEF NotifyNormal, NormalReturns, NoNormal
  <2>6. CASE UNCHANGED vars
    BY <2>6 DEF vars
  <2> QED
    BY <2>1, <2>2, <2>3, <2>4, <2>5, <2>6 DEF Next, Process
<1>3. WakeInv => FiresAgain
  BY DEF WakeInv, FiresAgain
<1> QED
  BY <1>1, <1>2, <1>3, EmitterInvInductive, PTL DEF Spec

-----------------------------------------------------------------------------
(* The rest of a vector after one more event is enqueued.                  *)
LEMMA RestOfAppend ==
    ASSUME NEW s \in Seq(Event), NEW e \in Event, NEW m \in 1..(Len(s) + 1)
    PROVE  SubSeq(Append(s, e), m, Len(s) + 1)
               = Append(SubSeq(s, m, Len(s)), e)
<1> DEFINE a == SubSeq(Append(s, e), m, Len(s) + 1)
           b == Append(SubSeq(s, m, Len(s)), e)
<1>1. /\ Append(s, e) \in Seq(Event)
      /\ Len(Append(s, e)) = Len(s) + 1
      /\ \A k \in 1..Len(s) : Append(s, e)[k] = s[k]
      /\ Append(s, e)[Len(s) + 1] = e
  BY AppendProperties
<1>2. /\ SubSeq(s, m, Len(s)) \in Seq(Event)
      /\ Len(SubSeq(s, m, Len(s))) = Len(s) - m + 1
      /\ \A k \in 1..(Len(s) - m + 1) : SubSeq(s, m, Len(s))[k] = s[m + k - 1]
  <2>1. \A k \in m..Len(s) : s[k] \in Event
    BY ElementOfSeq
  <2> QED
    BY <2>1, SubSeqProperties
<1>3. /\ a \in Seq(Event)
      /\ Len(a) = Len(s) - m + 2
      /\ \A k \in 1..(Len(s) - m + 2) : a[k] = Append(s, e)[m + k - 1]
  <2>1. \A k \in m..(Len(s) + 1) : Append(s, e)[k] \in Event
    BY <1>1, ElementOfSeq
  <2> QED
    BY <2>1, <1>1, SubSeqProperties
<1>4. /\ b \in Seq(Event)
      /\ Len(b) = Len(s) - m + 2
      /\ \A k \in 1..(Len(s) - m + 1) : b[k] = SubSeq(s, m, Len(s))[k]
      /\ b[Len(s) - m + 2] = e
  BY <1>2, AppendProperties
<1>5. \A k \in 1..Len(a) : a[k] = b[k]
  <2> SUFFICES ASSUME NEW k \in 1..(Len(s) - m + 2)
               PROVE  a[k] = b[k]
    BY <1>3
  <2> HIDE DEF a, b
  <2>1. CASE k = Len(s) - m + 2
    BY <2>1, <1>1, <1>3, <1>4
  <2>2. CASE k \in 1..(Len(s) - m + 1)
    BY <2>2, <1>1, <1>2, <1>3, <1>4
  <2> QED
    BY <2>1, <2>2
<1> HIDE DEF a, b
<1>6. a = b
  BY <1>3, <1>4, <1>5, SeqEqual
<1> QED
  BY <1>6 DEF a, b

(* Notifying the next event takes it from the head of the rest.            *)
LEMMA RestHeadTail ==
    ASSUME NEW s \in Seq(Event), NEW m \in 1..Len(s)
    PROVE  /\ SubSeq(s, m, Len(s)) # <<>>
           /\ Head(SubSeq(s, m, Len(s))) = s[m]
           /\ Tail(SubSeq(s, m, Len(s))) = SubSeq(s, m + 1, Len(s))
<1>1. \A k \in m..Len(s) : s[k] \in Event
  BY ElementOfSeq
<1>2. Len(SubSeq(s, m, Len(s))) = Len(s) - m + 1
  BY <1>1, SubSeqProperties
<1>3. SubSeq(s, m, Len(s)) # <<>>
  BY <1>2, Cleared
<1> QED
  BY <1>3, HeadTailOfSubSeq

(* An event is merged exactly when it is in the rest.                      *)
LEMMA RestWaiting ==
    ASSUME NEW s \in Seq(Event), NEW p \in 0..Len(s), NEW e \in Event
    PROVE  e \in Bus!Waiting(SubSeq(s, p + 1, Len(s)))
               <=> isDuplicate(p, s, e)
<1>1. \A k \in (p + 1)..Len(s) : s[k] \in Event
  BY ElementOfSeq
<1>2. /\ Len(SubSeq(s, p + 1, Len(s))) = Len(s) - p
      /\ \A k \in 1..(Len(s) - p) : SubSeq(s, p + 1, Len(s))[k] = s[p + k]
  BY <1>1, SubSeqProperties
<1> DEFINE r == SubSeq(s, p + 1, Len(s))
<1> HIDE DEF r
<1>3. ASSUME e \in Bus!Waiting(r)
      PROVE  isDuplicate(p, s, e)
  <2>1. PICK k \in 1..Len(r) : r[k] = e
    BY <1>3 DEF Bus!Waiting
  <2>2. p + k \in (p + 1)..Len(s) /\ s[p + k] = e
    BY <1>2, <2>1 DEF r
  <2> QED
    BY <2>2 DEF isDuplicate
<1>4. ASSUME isDuplicate(p, s, e)
      PROVE  e \in Bus!Waiting(r)
  <2>1. PICK k \in (p + 1)..Len(s) : s[k] = e
    BY <1>4 DEF isDuplicate
  <2>2. k - p \in 1..(Len(s) - p) /\ p + (k - p) = k
    BY <2>1
  <2>3. k - p \in 1..Len(r) /\ r[k - p] = e
    BY <1>2, <2>1, <2>2 DEF r
  <2> QED
    BY <2>3 DEF Bus!Waiting
<1> QED
  BY <1>3, <1>4 DEF r

-----------------------------------------------------------------------------
(* ImplementsBus: the vectors, the cursors and the early clear() of the    *)
(* emitter implement two queues that lose, duplicate and reorder nothing,  *)
(* and notify urgent events first.                                         *)
THEOREM EmitterImplementsBus == Spec => ImplementsBus
<1> USE DEF EmitterInv, TypeOK, UrgentBeforeNormal, UrgentCursor
<1>1. Init => Bus!BusInit
  BY SubSeqEmpty, Cleared
     DEF Init, Bus!BusInit, PendingUrgent, PendingNormal
<1>2. EmitterInv /\ [Next]_vars => [Bus!BusNext]_(Bus!busVars)
  <2> SUFFICES ASSUME EmitterInv, [Next]_vars
               PROVE  [Bus!BusNext]_(Bus!busVars)
    OBVIOUS
  <2>1. ASSUME NEW e \in Event, EnqueueUrgent(e)
        PROVE  Bus!PostUrgent(e)
    <3> DEFINE m == IF pc = "inUrgent" THEN i + 2 ELSE i + 1
    <3>1. m \in 1..(Len(m_urgentQueue) + 1)
      OBVIOUS
    <3>2. Len(m_urgentQueue') = Len(m_urgentQueue) + 1
      BY <2>1 DEF EnqueueUrgent
    <3> HIDE DEF m
    <3>3. SubSeq(m_urgentQueue', m, Len(m_urgentQueue'))
              = Append(SubSeq(m_urgentQueue, m, Len(m_urgentQueue)), e)
      BY <2>1, <3>1, <3>2, RestOfAppend DEF EnqueueUrgent
    <3>4. PendingUrgent' = Append(PendingUrgent, e)
      BY <2>1, <3>3 DEF EnqueueUrgent, PendingUrgent, m
    <3>5. PendingNormal' = PendingNormal /\ notified' = notified /\ posted' = e
      BY <2>1 DEF EnqueueUrgent, PendingNormal
    <3> QED
      BY <3>4, <3>5 DEF Bus!PostUrgent
  <2>2. ASSUME NEW e \in Event, EnqueueNormal(e)
        PROVE  Bus!PostNormal(e)
    <3>1. PendingUrgent' = PendingUrgent /\ notified' = notified /\ posted' = e
      BY <2>2 DEF EnqueueNormal, PendingUrgent
    <3>2. e \in Bus!Waiting(PendingNormal) <=> isDuplicate(m_pos, m_queue, e)
      BY RestWaiting DEF PendingNormal
    <3>3. CASE isDuplicate(m_pos, m_queue, e)
      BY <2>2, <3>1, <3>2, <3>3
         DEF EnqueueNormal, PendingNormal, Bus!PostNormal
    <3>4. CASE ~isDuplicate(m_pos, m_queue, e)
      <4>1. /\ m_queue' = Append(m_queue, e)
            /\ Len(m_queue') = Len(m_queue) + 1
            /\ m_pos' = m_pos
        BY <2>2, <3>4 DEF EnqueueNormal
      <4>2. PendingNormal' = Append(PendingNormal, e)
        <5>1. m_pos + 1 \in 1..(Len(m_queue) + 1)
          OBVIOUS
        <5> QED
          BY <4>1, <5>1, RestOfAppend DEF PendingNormal
      <4> QED
        BY <3>1, <3>2, <3>4, <4>2 DEF Bus!PostNormal
    <3> QED
      BY <3>3, <3>4
  <2>3. CASE NotifyUrgent /\ UNCHANGED posted
    <3>1. i + 1 \in 1..Len(m_urgentQueue)
      BY <2>3 DEF NotifyUrgent
    <3>2. /\ PendingUrgent = SubSeq(m_urgentQueue, i + 1, Len(m_urgentQueue))
          /\ PendingUrgent' = SubSeq(m_urgentQueue, i + 2, Len(m_urgentQueue))
          /\ PendingNormal' = PendingNormal
      BY <2>3 DEF NotifyUrgent, PendingUrgent, PendingNormal
    <3>3. /\ PendingUrgent # <<>>
          /\ Head(PendingUrgent) = m_urgentQueue[i + 1]
          /\ Tail(PendingUrgent)
                 = SubSeq(m_urgentQueue, (i + 1) + 1, Len(m_urgentQueue))
      BY <3>1, <3>2, RestHeadTail
    <3>4. (i + 1) + 1 = i + 2
      OBVIOUS
    <3>5. Bus!NotifyUrgent
      BY <2>3, <3>2, <3>3, <3>4 DEF NotifyUrgent, Bus!NotifyUrgent
    <3> QED
      BY <3>5 DEF Bus!BusNext
  <2>4. CASE UrgentReturns /\ UNCHANGED posted
    <3>1. PendingUrgent = SubSeq(m_urgentQueue, i + 2, Len(m_urgentQueue))
      BY <2>4 DEF UrgentReturns, PendingUrgent
    <3>2. PendingUrgent' = PendingUrgent
      <4>1. CASE i + 1 = Len(m_urgentQueue)
        <5>1. PendingUrgent = <<>>
          BY <3>1, <4>1, SubSeqEmpty
        <5>2. PendingUrgent' = SubSeq(<<>>, 1, 0)
          BY <2>4, <4>1, Cleared DEF UrgentReturns, PendingUrgent
        <5> QED
          BY <5>1, <5>2, SubSeqEmpty
      <4>2. CASE i + 1 # Len(m_urgentQueue)
        <5>1. (i + 1) + 1 = i + 2
          OBVIOUS
        <5> QED
          BY <2>4, <3>1, <4>2, <5>1 DEF UrgentReturns, PendingUrgent
      <4> QED
        BY <4>1, <4>2
    <3>3. PendingNormal' = PendingNormal
      BY <2>4 DEF UrgentReturns, PendingNormal
    <3>4. notified # NoEvent /\ notified' = NoEvent
      BY <2>4 DEF UrgentReturns
    <3> QED
      BY <2>4, <3>2, <3>3, <3>4 DEF Bus!BusNext, Bus!HandlerReturns
  <2>5. CASE NotifyNormal /\ UNCHANGED posted
    <3>1. m_urgentQueue = <<>> /\ Len(m_urgentQueue) = 0 /\ i = 0
      BY <2>5, Cleared DEF NotifyNormal
    <3>2. PendingUrgent = <<>> /\ PendingUrgent' = PendingUrgent
      BY <2>5, <3>1, SubSeqEmpty DEF NotifyNormal, PendingUrgent
    <3>3. m_pos + 1 \in 1..Len(m_queue)
      BY <2>5 DEF NotifyNormal
    <3>4. /\ PendingNormal # <<>>
          /\ Head(PendingNormal) = m_queue[m_pos + 1]
          /\ Tail(PendingNormal)
                 = SubSeq(m_queue, (m_pos + 1) + 1, Len(m_queue))
      BY <3>3, RestHeadTail DEF PendingNormal
    <3>5. PendingNormal' = Tail(PendingNormal)
      BY <2>5, <3>4 DEF NotifyNormal, PendingNormal
    <3>6. Bus!NotifyNormal
      BY <2>5, <3>2, <3>4, <3>5 DEF NotifyNormal, Bus!NotifyNormal
    <3> QED
      BY <3>6 DEF Bus!BusNext
  <2>6. CASE NormalReturns /\ UNCHANGED posted
    <3>1. PendingUrgent' = PendingUrgent
      BY <2>6 DEF NormalReturns, PendingUrgent
    <3>2. PendingNormal' = PendingNormal
      <4>1. CASE m_pos = Len(m_queue)
        <5>1. PendingNormal = <<>>
          BY <4>1, SubSeqEmpty DEF PendingNormal
        <5>2. PendingNormal' = SubSeq(<<>>, 1, 0)
          BY <2>6, <4>1, Cleared DEF NormalReturns, PendingNormal
        <5> QED
          BY <5>1, <5>2, SubSeqEmpty
      <4>2. CASE m_pos # Len(m_queue)
        BY <2>6, <4>2 DEF NormalReturns, PendingNormal
      <4> QED
        BY <4>1, <4>2
    <3>3. notified # NoEvent /\ notified' = NoEvent
      BY <2>6 DEF NormalReturns
    <3> QED
      BY <2>6, <3>1, <3>2, <3>3 DEF Bus!BusNext, Bus!HandlerReturns
  <2>7. CASE /\ TimerFired \/ EnterLoop \/ LeaveLoop \/ NoUrgent \/ NoNormal
            /\ UNCHANGED posted
    <3>1. UNCHANGED <<m_queue, m_pos, m_urgentQueue, i, notified>>
      BY <2>7 DEF TimerFired, EnterLoop, LeaveLoop, NoUrgent, NoNormal
    <3>2. pc # "inUrgent" /\ pc' # "inUrgent"
      BY <2>7 DEF TimerFired, EnterLoop, LeaveLoop, NoUrgent, NoNormal
    <3>3. PendingUrgent' = PendingUrgent /\ PendingNormal' = PendingNormal
      BY <3>1, <3>2 DEF PendingUrgent, PendingNormal
    <3> QED
      BY <2>7, <3>1, <3>3 DEF Bus!busVars
  <2>8. CASE UNCHANGED vars
    BY <2>8 DEF vars, Bus!busVars, PendingUrgent, PendingNormal
  <2> QED
    BY <2>1, <2>2, <2>3, <2>4, <2>5, <2>6, <2>7, <2>8
       DEF Next, Process, Bus!BusNext
<1> QED
  BY <1>1, <1>2, EmitterInvInductive, PTL DEF Spec, ImplementsBus, Bus!BusSpec
=============================================================================
