----------------------------- MODULE StateChange ----------------------------
(***************************************************************************)
(* State changes of a resource (state_change.cpp, resource.cpp) driven by  *)
(* the events of its device (DEV_CheckItemChanges): a command is sent,     *)
(* verified by what the device reports, read back and sent again.          *)
(* Commands, confirms and reports may be lost, events wait in the queue    *)
(* while the items they are about go on changing.                          *)
(***************************************************************************)
EXTENDS ApsBusy, Sequences, SequencesExt

CONSTANTS
    Suffix,             \* items that may be changed
    Readable,           \* the ones whose DDF has a read function
    Local,              \* the ones the API sets to the target itself
    Value, Initial,     \* values, and the one every item starts with
    Puts, Defaults,     \* target values asked for by the API and by the DDF: functions
                        \* of some suffixes
    Self, Other,        \* the device of the resource, and any other
    MaxUnconfirmed,     \* tick() waits above so many (5)
    PutBound,           \* bound: changes requested
    FaultBound,         \* bound: losses, failures, and things the device does by itself
    EventBound          \* bound: item events waiting in the queue

ASSUME StateChangeAssumption ==
    /\ IsFiniteSet(Suffix) /\ Suffix # {}
    /\ Readable \subseteq Suffix /\ Local \subseteq Suffix
    /\ Initial \in Value
    /\ \A p \in Puts \cup Defaults : DOMAIN p \subseteq Suffix /\ p \in [DOMAIN p -> Value]
    /\ Address = {Self, Other}
    /\ MaxUnconfirmed \in Nat /\ PutBound \in Nat /\ FaultBound \in Nat

VARIABLES
    m_stateChanges,
    value,          \* of the resource items
    fromDevice,     \* valueSource() = SourceDevice
    told,           \* history: what the device said last of each item, and
    heard,          \* what of it the changes have been told of
    events,         \* item events in the emitter's queue
    busy,           \* the table of unconfirmed requests
    air,            \* requests in the core's APS queue
    device,         \* the values the device really has
    reachable,
    pass,           \* the round of DEV_CheckItemChanges() under way
    puts, happened, lost

item == <<value, fromDevice, told>>
vars == <<m_stateChanges, item, heard, events, busy, air, device, reachable,
          pass, puts, happened, lost>>
environment == <<device, reachable, puts, happened, lost>>

Active == {"CallFunction", "WaitSync", "Read"}
Terminal == {"Finished", "Failed"}
Verify == {"Unknown", "Synced", "NotSynced"}

newChange(targets, state) ==
    [items |-> [s \in DOMAIN targets |-> [target |-> targets[s], verified |-> "Unknown"]],
     state |-> state, changeOver |-> FALSE]

(* The DDF may have asked for a value when the device was set up.          *)
Init ==
    /\ m_stateChanges \in {<<>>} \cup {<<newChange(p, "WaitSync")>> : p \in Defaults}
    /\ value = [s \in Suffix |-> Initial]
    /\ fromDevice = [s \in Suffix |-> TRUE]
    /\ told = value /\ heard = value
    /\ events = <<>>
    /\ busy = EmptyTable
    /\ air = {}
    /\ device = value
    /\ reachable = TRUE
    /\ puts = 0 /\ happened = 0 /\ lost = 0
    /\ pass = [at |-> 0, items |-> {}, apsEnqueued |-> 0]

-----------------------------------------------------------------------------
(* The core's APS queue.                                                   *)
UsedIds(b, q) == {r.id : r \in q} \cup {b.table[i].id : i \in {j \in Slot : b.table[j] # Free}}

(* apsdeDataRequest(): into the core's queue and into the busy table.      *)
enqueue(acc, to, kind, s, v) ==
    LET id == Min(ReqId \ UsedIds(acc.busy, acc.air))
    IN  [acc EXCEPT !.busy = DA_ApsRequestEnqueued(acc.busy, to, id),
                    !.air = @ \cup {[id |-> id, to |-> to, kind |-> kind,
                                     suffix |-> s, target |-> v]}]

(* SC_WriteZclAttribute(): one request for each item, up to a failure.     *)
SC_WriteZclAttribute(acc, items, sent) ==
    LET write[done \in SUBSET sent] ==
            IF done = {} THEN acc
            ELSE LET s == CHOOSE x \in done : TRUE
                 IN  enqueue(write[done \ {s}], Self, "write", s, items[s].target)
    IN  write[sent]

-----------------------------------------------------------------------------
(* StateChange::verifyItemChange().                                        *)

(* Mutated form: a value that the API has set counts as verified.          *)
verifyItemChangeAnySource(c, s) ==
    LET items == [k \in DOMAIN c.items |->
                     IF k # s THEN c.items[k]
                     ELSE [c.items[k] EXCEPT !.verified =
                              IF c.items[k].target = value[s] THEN "Synced" ELSE "NotSynced"]]
    IN  [c EXCEPT !.items = items,
                  !.state = IF \A k \in DOMAIN items : items[k].verified = "Synced"
                            THEN "Finished" ELSE @]

verifyItemChange(c, s) ==
    IF ~fromDevice[s] THEN c
    ELSE LET items == [k \in DOMAIN c.items |->
                          IF k # s THEN c.items[k]
                          ELSE [c.items[k] EXCEPT !.verified =
                                   IF c.items[k].target = value[s] THEN "Synced" ELSE "NotSynced"]]
         IN  [c EXCEPT !.items = items,
                       !.state = IF \A k \in DOMAIN items : items[k].verified = "Synced"
                                 THEN "Finished" ELSE @]

Unknown(c) == {s \in DOMAIN c.items : c.items[s].verified = "Unknown"}

(* When WaitSync took too long: read what nobody reported, or send the     *)
(* command again.                                                          *)
afterWait(c, stateTimeout) ==
    IF c.state = "WaitSync" /\ stateTimeout
    THEN IF Unknown(c) # {} THEN "Read" ELSE "CallFunction"
    ELSE c.state

(* The command was sent; items not in sync have to be read again.          *)
called(c) ==
    [c EXCEPT !.items = [s \in DOMAIN @ |->
                  IF @[s].verified = "NotSynced" THEN [@[s] EXCEPT !.verified = "Unknown"]
                                                 ELSE @[s]],
              !.state = "WaitSync"]

(* The effects of tick() on change k and on the queue: its new value c, the *)
(* requests q, and n, the result.                                          *)
ticked(k, c, q, n) ==
    /\ m_stateChanges' = [m_stateChanges EXCEPT ![k] = c]
    /\ busy' = q.busy
    /\ air' = q.air
    /\ pass' = [pass EXCEPT !.at = k + 1, !.apsEnqueued = @ + n]

queue == [busy |-> busy, air |-> air]

(* The core takes n more requests.                                         *)
room(n) == Cardinality(air) + n <= CoreQueue

(* StateCallFunction: a write that fails after some items has sent those,  *)
(* is not counted and is called again.  An empty change cannot be called.  *)
tickCallFunction(k, c) ==
    LET all == DOMAIN c.items
    IN  \/ /\ all # {} /\ room(Cardinality(all))
           /\ ticked(k, called(c), SC_WriteZclAttribute(queue, c.items, all), 1)
           /\ UNCHANGED happened
        \/ /\ all = {} \/ ~room(Cardinality(all)) \/ happened + lost < FaultBound
           /\ happened' = IF all # {} /\ room(Cardinality(all)) THEN happened + 1 ELSE happened
           /\ \E part \in SUBSET all :
                 /\ part = {} \/ part # all
                 /\ room(Cardinality(part))
                 /\ ticked(k, [c EXCEPT !.state = "CallFunction"],
                           SC_WriteZclAttribute(queue, c.items, part), 0)

(* StateRead: without an item to read, or without a way to read it, the    *)
(* change has failed.                                                      *)
tickRead(k, c) ==
    LET next  == {s \in Unknown(c) : s = CHOOSE x \in Unknown(c) : TRUE} \cap Readable
        waits == [c EXCEPT !.state = "WaitSync"]
    IN  \/ /\ next = {}
           /\ ticked(k, [c EXCEPT !.state = "Failed"], queue, 0)
           /\ UNCHANGED happened
        \/ /\ room(1)
           /\ \E s \in next : ticked(k, waits, enqueue(queue, Self, "read", s, Initial), 1)
           /\ UNCHANGED happened
        \/ /\ next # {}
           /\ ~room(1) \/ happened + lost < FaultBound
           /\ happened' = IF room(1) THEN happened + 1 ELSE happened
           /\ ticked(k, waits, queue, 0)

(* Mutated form: a busy queue delays the change timeout, too.              *)
tickBusyFirst(k, c, stateTimeout) ==
    LET state == afterWait(c, stateTimeout)
    IN  \/ /\ c.state \in Active /\ c.changeOver
           /\ DA_ApsUnconfirmedRequests(busy) <= MaxUnconfirmed
           /\ ticked(k, [c EXCEPT !.state = "Failed"], queue, 0)
           /\ UNCHANGED happened
        \/ /\ c.state \in Terminal \/ ~c.changeOver
              \/ DA_ApsUnconfirmedRequests(busy) > MaxUnconfirmed
           /\ ticked(k, [c EXCEPT !.state = state], queue, 0)
           /\ UNCHANGED happened

(* StateChange::tick() of change k, which is c by now; stateTimeout: it is *)
(* longer than m_stateTimeoutMs since m_stateTimer was started.            *)
tick(k, c, stateTimeout) ==
    LET state   == afterWait(c, stateTimeout)
        runs    == c.state \in Active /\ ~c.changeOver
        sends   == runs /\ DA_ApsUnconfirmedRequests(busy) <= MaxUnconfirmed
        reads   == sends /\ state = "Read"
                         /\ DA_ApsUnconfirmedRequestsForExtAddress(busy, Self) = 0
        calls   == sends /\ state = "CallFunction"
    IN  \/ /\ c.state \in Active /\ c.changeOver
           /\ ticked(k, [c EXCEPT !.state = "Failed"], queue, 0)
           /\ UNCHANGED happened
        \/ calls /\ tickCallFunction(k, c)
        \/ reads /\ tickRead(k, c)
        \/ /\ c.state \in Terminal \/ (runs /\ ~calls /\ ~reads)
           /\ ticked(k, [c EXCEPT !.state = state], queue, 0)
           /\ UNCHANGED happened

-----------------------------------------------------------------------------
(* DEV_CheckItemChanges() for one event of the device.  Nothing else runs  *)
(* until it has been through all changes of the resource.                  *)

NoPass == [at |-> 0, items |-> {}, apsEnqueued |-> 0]
idle == pass = NoPass

(* The event loop notifies an item event ...                               *)
HandleItemEvent ==
    /\ idle
    /\ events # <<>>
    /\ events' = Tail(events)
    /\ pass' = [at |-> 1, items |-> {Head(events)}, apsEnqueued |-> 0]
    /\ heard' = IF fromDevice[Head(events)] THEN [heard EXCEPT ![Head(events)] = told[Head(events)]]
                ELSE heard
    /\ UNCHANGED <<m_stateChanges, item, busy, air, environment>>

(* ... or REventPoll or REventAwake, which are about no item.              *)
Poll ==
    /\ idle
    /\ m_stateChanges # <<>>
    /\ pass' = [at |-> 1, items |-> {}, apsEnqueued |-> 0]
    /\ UNCHANGED <<m_stateChanges, item, heard, events, busy, air, environment>>

(* One round of the loop: the change is verified, and ticks unless a       *)
(* change before it has sent something.                                    *)
CheckChange ==
    /\ pass.at \in DOMAIN m_stateChanges
    /\ LET k == pass.at
           c == IF pass.items = {} THEN m_stateChanges[k]
                ELSE verifyItemChange(m_stateChanges[k], CHOOSE s \in pass.items : TRUE)
       IN  \/ reachable /\ pass.apsEnqueued = 0 /\ \E over \in BOOLEAN : tick(k, c, over)
           \/ /\ ~reachable \/ pass.apsEnqueued > 0
              /\ ticked(k, c, queue, 0)
              /\ UNCHANGED happened
    /\ UNCHANGED <<item, heard, events, device, reachable, puts, lost>>

(* The changes that are left, in order, when the others are erased.        *)
kept(ks) ==
    [n \in 1..Cardinality(ks) |->
        m_stateChanges[CHOOSE k \in ks : Cardinality({j \in ks : j < k}) = n - 1]]

(* Resource::cleanupStateChanges().                                        *)
cleanupStateChanges ==
    /\ pass.at = Len(m_stateChanges) + 1
    /\ m_stateChanges' = kept({k \in DOMAIN m_stateChanges : m_stateChanges[k].state \in Active})
    /\ pass' = NoPass
    /\ UNCHANGED <<item, heard, events, busy, air, environment>>

-----------------------------------------------------------------------------
(* The resource.                                                           *)

equal(c, d) == DOMAIN c.items = DOMAIN d.items

(* Resource::addStateChange() from the REST API or from a DDF, which may   *)
(* set the items to the target, too (Resource::setValue() leaves an equal   *)
(* one alone, with its source).  A change that starts waiting follows a     *)
(* command sent in another way.  PUT /lights adds also an empty change.     *)
addStateChange ==
    \E targets \in Puts, state \in {"CallFunction", "WaitSync"} :
        LET ss   == DOMAIN targets
            c    == newChange(targets, state)
            same == {k \in DOMAIN m_stateChanges : equal(m_stateChanges[k], c)}
        IN  /\ idle
            /\ puts < PutBound
            /\ puts' = puts + 1
            /\ m_stateChanges' = IF same # {} THEN [m_stateChanges EXCEPT ![Min(same)] = c]
                                              ELSE Append(m_stateChanges, c)
            /\ value' = [s \in Suffix |-> IF s \in ss \cap Local THEN targets[s] ELSE value[s]]
            /\ fromDevice' = [s \in Suffix |-> fromDevice[s] /\ value'[s] = value[s]]
            /\ UNCHANGED <<pass, told, heard, events, busy, air, device, reachable, happened, lost>>

(* Resource::removeStateChangesForItem(), when a scene is recalled.        *)
removeStateChangesForItem(s) ==
    /\ idle
    /\ \E c \in Range(m_stateChanges) : s \in DOMAIN c.items
    /\ m_stateChanges' = kept({k \in DOMAIN m_stateChanges : s \notin DOMAIN m_stateChanges[k].items})
    /\ UNCHANGED <<pass, item, heard, events, busy, air, environment>>

ChangeTimeout(k) ==
    /\ idle
    /\ k \in DOMAIN m_stateChanges /\ ~m_stateChanges[k].changeOver
    /\ m_stateChanges' = [m_stateChanges EXCEPT ![k].changeOver = TRUE]
    /\ UNCHANGED <<pass, item, heard, events, busy, air, environment>>

-----------------------------------------------------------------------------
(* The core, the radio and the device.                                     *)

(* The device gets request r; reading is answered at once.                 *)
delivered(r) ==
    /\ device' = IF r.kind = "write" THEN [device EXCEPT ![r.suffix] = r.target] ELSE device
    /\ IF r.kind = "read"
       THEN /\ Len(events) < EventBound
            /\ value' = [value EXCEPT ![r.suffix] = device[r.suffix]]
            /\ fromDevice' = [fromDevice EXCEPT ![r.suffix] = TRUE]
            /\ told' = [told EXCEPT ![r.suffix] = device[r.suffix]]
            /\ events' = Append(events, r.suffix)
       ELSE UNCHANGED <<item, events>>

(* A request is done: it got through, its frame or its answer was lost, or *)
(* it got through and the confirm never comes.                             *)
Confirm(r) ==
    /\ idle
    /\ air' = air \ {r}
    /\ \/ delivered(r) /\ lost' = lost
       \/ happened + lost < FaultBound /\ lost' = lost + 1 /\ UNCHANGED <<device, item, events>>
    /\ busy' = DA_ApsRequestConfirmed(busy, r.to, r.id)
    /\ UNCHANGED <<pass, m_stateChanges, heard, reachable, puts, happened>>

ConfirmLost(r) ==
    /\ idle
    /\ happened + lost < FaultBound
    /\ lost' = lost + 1
    /\ air' = air \ {r}
    /\ delivered(r)
    /\ UNCHANGED <<pass, m_stateChanges, heard, busy, reachable, puts, happened>>

(* A request that has no confirm for 60 s gets old, whether it is lost or   *)
(* still in the core's queue: then its confirm finds the slot taken over.   *)
SlotTimeout(i) ==
    /\ idle
    /\ busy.table[i] # Free /\ ~busy.table[i].old
    /\ busy' = GrowsOld(busy, i)
    /\ UNCHANGED <<pass, m_stateChanges, item, heard, events, air, environment>>

(* Requests to other devices, when no other is under way.                  *)
OtherRequest ==
    /\ idle
    /\ air = {}
    /\ LET s == CHOOSE x \in Suffix : TRUE
           q == enqueue(queue, Other, "other", s, Initial)
       IN  busy' = q.busy /\ air' = q.air
    /\ UNCHANGED <<pass, m_stateChanges, item, heard, events, environment>>

(* Somebody uses the switch.                                               *)
DeviceChanges(s) ==
    /\ idle
    /\ happened + lost < FaultBound
    /\ happened' = happened + 1
    /\ \E v \in Value \ {device[s]} : device' = [device EXCEPT ![s] = v]
    /\ UNCHANGED <<pass, m_stateChanges, item, heard, events, busy, air, reachable, puts, lost>>

(* An attribute report of a value the gateway does not have.               *)
Report(s) ==
    /\ idle
    /\ Len(events) < EventBound
    /\ ~fromDevice[s] \/ value[s] # device[s]
    /\ value' = [value EXCEPT ![s] = device[s]]
    /\ fromDevice' = [fromDevice EXCEPT ![s] = TRUE]
    /\ told' = [told EXCEPT ![s] = device[s]]
    /\ events' = Append(events, s)
    /\ UNCHANGED <<pass, m_stateChanges, heard, busy, air, environment>>

Unreachable ==
    /\ idle
    /\ reachable /\ happened + lost < FaultBound
    /\ happened' = happened + 1
    /\ reachable' = FALSE
    /\ UNCHANGED <<pass, m_stateChanges, item, heard, events, busy, air, device, puts, lost>>

ReachableAgain ==
    /\ idle
    /\ ~reachable
    /\ reachable' = TRUE
    /\ UNCHANGED <<pass, m_stateChanges, item, heard, events, busy, air, device, puts,
                   happened, lost>>

-----------------------------------------------------------------------------
Next ==
    \/ addStateChange
    \/ \E s \in Suffix : removeStateChangesForItem(s)
    \/ HandleItemEvent
    \/ Poll
    \/ CheckChange
    \/ cleanupStateChanges
    \/ \E k \in 1..(PutBound + 1) : ChangeTimeout(k)
    \/ \E r \in air : Confirm(r)
    \/ \E r \in air : ConfirmLost(r)
    \/ \E i \in Slot : SlotTimeout(i)
    \/ OtherRequest
    \/ \E s \in Suffix : DeviceChanges(s)
    \/ \E s \in Suffix : Report(s)
    \/ Unreachable
    \/ ReachableAgain

Spec == Init /\ [][Next]_vars

(* A round goes on, DeviceTick polls the device, time passes and an         *)
(* unreachable device comes back; the last three whatever the event loop    *)
(* does, hence SF.  Nothing is said of confirms, nor of the events of items.*)
FairSpec ==
    /\ Spec
    /\ WF_vars(CheckChange \/ cleanupStateChanges)
    /\ SF_vars(Poll) /\ SF_vars(ReachableAgain)
    /\ SF_vars(\E k \in 1..(PutBound + 1) : ChangeTimeout(k))

-----------------------------------------------------------------------------
(* Type invariant.                                                         *)
TypeOK ==
    /\ \A c \in Range(m_stateChanges) :
          /\ c.state \in Active \cup Terminal
          /\ c.changeOver \in BOOLEAN
          /\ DOMAIN c.items \subseteq Suffix
          /\ c.items \in [DOMAIN c.items -> [target : Value, verified : Verify]]
    /\ Len(m_stateChanges) <= PutBound + 1
    /\ value \in [Suffix -> Value] /\ device \in [Suffix -> Value]
    /\ fromDevice \in [Suffix -> BOOLEAN]
    /\ told \in [Suffix -> Value] /\ heard \in [Suffix -> Value]
    /\ events \in Seq(Suffix)
    /\ busy \in BusyType
    /\ \A r \in air : r.id \in ReqId /\ r.to \in Address
    /\ reachable \in BOOLEAN
    /\ puts \in 0..PutBound /\ happened \in 0..FaultBound /\ lost \in 0..FaultBound

(* _DA_ApsUnconfirmedCount is the number of used slots, through timeouts   *)
(* of slots and overflows of the table, and as long as no confirm was lost *)
(* only requests that are really under way hold a slot.                    *)
UnconfirmedCounted ==
    LET used == {i \in Slot : busy.table[i] # Free}
    IN  /\ busy.count = Cardinality(used)
        /\ lost = 0 => \A i \in used : busy.table[i].id \in {r.id : r \in air}

(* "StateFinished: The target state has been verified" (state_change.h:62): *)
(* a change is finished on the word of the device alone.  The last thing    *)
(* each of its items heard from the device is the target, whatever the API  *)
(* wrote into the items meanwhile, other changes asked for, or was verified *)
(* before a later report said otherwise.                                    *)
FinishedIsTrue ==
    \A c \in Range(m_stateChanges) : c.state = "Finished" =>
        \A s \in DOMAIN c.items : heard[s] = c.items[s].target

(* Every change comes to an end, also when commands, reports and confirms  *)
(* are lost and the device was away for a time.                            *)
ChangesEnd == []<>(m_stateChanges = <<>>)
=============================================================================
