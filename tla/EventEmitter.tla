---------------------------- MODULE EventEmitter ----------------------------
(***************************************************************************)
(* EventEmitter (event_emitter.cpp, event_emitter.h): the event queue every *)
(* component of the plugin talks through.                                  *)
(*                                                                         *)
(* The plugin is single threaded: enqueueEvent() is called either from a   *)
(* Qt callback (pc = "eventloop") or by a handler that eventNotify() calls *)
(* while process() runs (pc = "inUrgent", "inNormal").  The steps between  *)
(* two handler calls are the statements of process() and timerFired().     *)
(***************************************************************************)
EXTENDS Naturals, Sequences

CONSTANTS
    Event,          \* events, equal iff isDuplicate() takes them for the same
    NoEvent,        \* "no event is being notified"
    SlowStart,      \* whether t.elapsed() >= 10 may hold at the first check
    QueueBound      \* bound: longest m_queue and m_urgentQueue explored

ASSUME EmitterAssumption ==
    /\ NoEvent \notin Event
    /\ SlowStart \in BOOLEAN
    /\ QueueBound \in Nat

VARIABLES
    m_queue,        \* vector of normal events, cleared when fully notified
    m_pos,          \* number of events of m_queue already notified
    m_urgentQueue,  \* vector of urgent events, cleared when fully notified
    m_timer,        \* the 0 ms single shot timer is active
    pc,             \* where timerFired() / process() is
    i,              \* local i of process(): urgent events notified
    first,          \* the elapsed() check at hand is the first of this pass
    notified,       \* event eventNotify() is being emitted for, or NoEvent
    posted          \* argument of the last enqueueEvent() (observed by EventBus)

vars == <<m_queue, m_pos, m_urgentQueue, m_timer, pc, i, first, notified, posted>>

PC == {"eventloop", "check", "urgent", "inUrgent", "normal", "inNormal"}

Init ==
    /\ m_queue = <<>>
    /\ m_pos = 0
    /\ m_urgentQueue = <<>>
    /\ m_timer = FALSE
    /\ pc = "eventloop"
    /\ i = 0
    /\ first = TRUE
    /\ notified = NoEvent
    /\ posted = NoEvent

-----------------------------------------------------------------------------
(* Mutated form: duplicates are searched from the start of the vector, so  *)
(* an event equal to one already notified is dropped.                      *)
isDuplicateFromStart(pos, queue, e) == \E k \in 1..Len(queue) : queue[k] = e

isDuplicate(pos, queue, e) == \E k \in (pos + 1)..Len(queue) : queue[k] = e

CallerRuns == pc \in {"eventloop", "inUrgent", "inNormal"}

EnqueueUrgent(e) ==
    /\ CallerRuns
    /\ Len(m_urgentQueue) < QueueBound
    /\ m_urgentQueue' = Append(m_urgentQueue, e)
    /\ m_timer' = TRUE
    /\ posted' = e
    /\ UNCHANGED <<m_queue, m_pos, pc, i, first, notified>>

EnqueueNormal(e) ==
    /\ CallerRuns
    /\ Len(m_queue) < QueueBound
    /\ m_queue' = IF isDuplicate(m_pos, m_queue, e) THEN m_queue
                                                    ELSE Append(m_queue, e)
    /\ m_timer' = TRUE
    /\ posted' = e
    /\ UNCHANGED <<m_pos, m_urgentQueue, pc, i, first, notified>>

-----------------------------------------------------------------------------
(* The event loop calls timerFired(), which enters process().              *)
TimerFired ==
    /\ pc = "eventloop"
    /\ m_timer
    /\ m_timer' = FALSE
    /\ pc' = "check"
    /\ first' = TRUE
    /\ UNCHANGED <<m_queue, m_pos, m_urgentQueue, i, notified>>

(* while (t.elapsed() < 10 && (m_urgentQueue.size() || m_queue.size()))    *)
EnterLoop ==
    /\ pc = "check"
    /\ m_urgentQueue # <<>> \/ m_queue # <<>>
    /\ pc' = "urgent"
    /\ i' = 0
    /\ first' = FALSE
    /\ UNCHANGED <<m_queue, m_pos, m_urgentQueue, m_timer, notified>>

(* Mutated form: timerFired() does not start the timer again.              *)
LeaveLoopNoRestart ==
    /\ pc = "check"
    /\ \/ m_urgentQueue = <<>> /\ m_queue = <<>>
       \/ ~first \/ SlowStart
    /\ pc' = "eventloop"
    /\ UNCHANGED <<m_queue, m_pos, m_urgentQueue, m_timer, i, first, notified>>

(* ... the loop ends, timerFired() starts the timer if m_queue has events. *)
LeaveLoop ==
    /\ pc = "check"
    /\ \/ m_urgentQueue = <<>> /\ m_queue = <<>>
       \/ ~first \/ SlowStart
    /\ pc' = "eventloop"
    /\ m_timer' = (m_timer \/ m_queue # <<>>)
    /\ UNCHANGED <<m_queue, m_pos, m_urgentQueue, i, first, notified>>

NotifyUrgent ==
    /\ pc = "urgent"
    /\ i < Len(m_urgentQueue)
    /\ notified' = m_urgentQueue[i + 1]
    /\ pc' = "inUrgent"
    /\ UNCHANGED <<m_queue, m_pos, m_urgentQueue, m_timer, i, first>>

(* Mutated form: process() goes on to the normal queue after each urgent   *)
(* event.                                                                  *)
UrgentReturnsOne ==
    /\ pc = "inUrgent"
    /\ notified' = NoEvent
    /\ m_urgentQueue' = Tail(m_urgentQueue)
    /\ i' = 0
    /\ pc' = "normal"
    /\ UNCHANGED <<m_queue, m_pos, m_timer, first>>

UrgentReturns ==
    /\ pc = "inUrgent"
    /\ notified' = NoEvent
    /\ IF i + 1 = Len(m_urgentQueue)
       THEN /\ m_urgentQueue' = <<>>
            /\ i' = 0
            /\ pc' = "normal"
       ELSE /\ i' = i + 1
            /\ pc' = "urgent"
            /\ UNCHANGED m_urgentQueue
    /\ UNCHANGED <<m_queue, m_pos, m_timer, first>>

NoUrgent ==
    /\ pc = "urgent"
    /\ i >= Len(m_urgentQueue)
    /\ pc' = "normal"
    /\ UNCHANGED <<m_queue, m_pos, m_urgentQueue, m_timer, i, first, notified>>

NotifyNormal ==
    /\ pc = "normal"
    /\ m_pos < Len(m_queue)
    /\ m_pos' = m_pos + 1
    /\ notified' = m_queue[m_pos + 1]
    /\ pc' = "inNormal"
    /\ UNCHANGED <<m_queue, m_urgentQueue, m_timer, i, first>>

NormalReturns ==
    /\ pc = "inNormal"
    /\ notified' = NoEvent
    /\ pc' = "check"
    /\ IF m_pos = Len(m_queue)
       THEN m_queue' = <<>> /\ m_pos' = 0
       ELSE UNCHANGED <<m_queue, m_pos>>
    /\ UNCHANGED <<m_urgentQueue, m_timer, i, first>>

NoNormal ==
    /\ pc = "normal"
    /\ m_pos >= Len(m_queue)
    /\ pc' = "check"
    /\ UNCHANGED <<m_queue, m_pos, m_urgentQueue, m_timer, i, first, notified>>

Process ==
    /\ \/ TimerFired \/ EnterLoop \/ LeaveLoop
       \/ NotifyUrgent \/ UrgentReturns \/ NoUrgent
       \/ NotifyNormal \/ NormalReturns \/ NoNormal
    /\ UNCHANGED posted

Next ==
    \/ \E e \in Event : EnqueueUrgent(e) \/ EnqueueNormal(e)
    \/ Process

Spec == Init /\ [][Next]_vars

(* The event loop runs forever and every handler returns; now and then the *)
(* first elapsed() check of a pass is in time.                             *)
FairSpec == Spec /\ WF_vars(Process) /\ SF_vars(EnterLoop /\ UNCHANGED posted)

-----------------------------------------------------------------------------
(* Type invariant of the emitter's members and of process()'s locals.      *)
TypeOK ==
    /\ m_queue \in Seq(Event)
    /\ m_urgentQueue \in Seq(Event)
    /\ m_pos \in 0..Len(m_queue)
    /\ i \in 0..Len(m_urgentQueue)
    /\ m_timer \in BOOLEAN
    /\ first \in BOOLEAN
    /\ pc \in PC
    /\ notified \in Event \cup {NoEvent}
    /\ posted \in Event \cup {NoEvent}

(* DBG_Assert(m_urgentQueue.empty()) in process(): no normal event is      *)
(* notified while an urgent one waits, whatever the handlers enqueued; and *)
(* the cursors of both vectors stay on an event that is still to notify.   *)
UrgentBeforeNormal ==
    /\ pc = "normal" => m_urgentQueue = <<>>
    /\ pc = "inUrgent" => /\ i < Len(m_urgentQueue)
                          /\ notified = m_urgentQueue[i + 1]
    /\ pc = "inNormal" => /\ 0 < m_pos
                          /\ notified = m_queue[m_pos]
    /\ pc \notin {"inUrgent", "inNormal"} => notified = NoEvent
    /\ pc \notin {"urgent", "inUrgent"} => i = 0
    /\ pc # "inNormal" /\ m_queue # <<>> => m_pos < Len(m_queue)

(* "Handles one event and fires again if more are in the queue"            *)
(* (event_queue.cpp): between two passes the timer runs while events wait. *)
(* The one exception is timerFired() looking at m_queue only: a pass that  *)
(* gives up at its very first check leaves an urgent event alone in its    *)
(* queue without a timer, until something else is enqueued.                *)
Stranded == SlowStart /\ first /\ m_queue = <<>>

FiresAgain ==
    pc = "eventloop" /\ (m_queue # <<>> \/ m_urgentQueue # <<>>) => m_timer \/ Stranded

(* The events that still wait, behind the cursors.                         *)
PendingUrgent == SubSeq(m_urgentQueue, (IF pc = "inUrgent" THEN i + 2 ELSE i + 1),
                        Len(m_urgentQueue))
PendingNormal == SubSeq(m_queue, m_pos + 1, Len(m_queue))

Waits(q, e) == \E k \in 1..Len(q) : q[k] = e

(* Every waiting event is eventually notified, by enqueueEvent() or by     *)
(* timerFired() starting the timer again, except for the one exception of  *)
(* FiresAgain: an urgent event may be stranded instead.                    *)
EventuallyNotified ==
    \A e \in Event :
        /\ Waits(PendingNormal, e) ~> (notified = e)
        /\ Waits(PendingUrgent, e) ~>
              (notified = e \/ (pc = "eventloop" /\ ~m_timer /\ Stranded))

-----------------------------------------------------------------------------
(* The emitter implements the abstract bus: its vectors and cursors are    *)
(* two queues that lose, duplicate and reorder nothing.                    *)
Bus == INSTANCE EventBus WITH urgent <- PendingUrgent, normal <- PendingNormal

ImplementsBus == Bus!BusSpec
=============================================================================
