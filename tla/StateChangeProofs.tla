--------------------------- MODULE StateChangeProofs --------------------------
(***************************************************************************)
(* Proofs about StateChange: the counter of unconfirmed requests is the     *)
(* number of used slots of the busy table, and a change that is finished    *)
(* was seen on the device, for any items, table size and number of changes. *)
(***************************************************************************)
EXTENDS StateChange, FiniteSetTheorems, SequenceTheorems, WellFoundedInduction, TLAPS

Kind == {"write", "read", "other"}
Request == [id : ReqId, to : Address, kind : Kind,
            suffix : Suffix, target : Value]

Queues == [busy : BusyType, air : SUBSET Request]

Used(b) == {i \in Slot : b.table[i] # Free}

\* What the functions of the table rely on and keep: the counter is right, and no
\* two slots are for the same request.
TableOK(b) ==
  /\ b \in BusyType
  /\ b.count = Cardinality(Used(b))
  /\ \A i, j \in Used(b) : b.table[i].id = b.table[j].id => i = j

\* The table and the core's queue: ids tell requests apart, and a slot and a
\* request with the same id belong to the same device.
QueueOK(q) ==
  /\ q \in Queues
  /\ IsFiniteSet(q.air) /\ Cardinality(q.air) <= CoreQueue
  /\ TableOK(q.busy)
  /\ \A r, t \in q.air : r.id = t.id => r = t
  /\ \A i \in Used(q.busy), r \in q.air :
        q.busy.table[i].id = r.id => q.busy.table[i].ext = r.to

\* Every slot is held by a request that is under way.
AllUnderway(q) == \A i \in Used(q.busy) : \E r \in q.air : r.id = q.busy.table[i].id

\* The changes of a resource.
Item == [target : Value, verified : Verify]
Items == UNION {[D -> Item] : D \in SUBSET Suffix}
Change == [items : Items, state : Active \cup Terminal, changeOver : BOOLEAN]

Types ==
  /\ m_stateChanges \in Seq(Change)
  /\ value \in [Suffix -> Value] /\ device \in [Suffix -> Value]
  /\ fromDevice \in [Suffix -> BOOLEAN]
  /\ told \in [Suffix -> Value] /\ heard \in [Suffix -> Value]
  /\ events \in Seq(Suffix)
  /\ pass \in [at : Nat, items : SUBSET Suffix, apsEnqueued : Nat]
  /\ lost \in Nat

\* A round is about one item at most.
PassOK ==
  /\ \A s, t \in pass.items : s = t
  /\ pass.at = 0 => idle

\* An item that is the device's own has the value the device said last; the round
\* under way is about what was heard just now.
ToldOK ==
  /\ \A s \in Suffix : fromDevice[s] => value[s] = told[s]
  /\ \A s \in pass.items : fromDevice[s] => heard[s] = told[s]

\* The items that the round under way verifies.
Verified == {s \in pass.items : fromDevice[s]}

\* What was verified is what was heard last from the device, unless the round under
\* way has not come to this change (more).
SyncedOK(c, more) ==
  \A s \in DOMAIN c.items : c.items[s].verified = "Synced" =>
     heard[s] = c.items[s].target \/ s \in more

AllSynced(c) == \A s \in DOMAIN c.items : c.items[s].verified = "Synced"

\* A change comes to its end in the round that erases it.
ChangeOK(k) ==
  LET c == m_stateChanges[k]
  IN  /\ k >= pass.at => c.state \in Active
      /\ c.state = "Finished" => AllSynced(c)
      /\ SyncedOK(c, IF k >= pass.at THEN Verified ELSE {})

Changes == \A k \in DOMAIN m_stateChanges : ChangeOK(k)

Underway == QueueOK(queue) /\ (lost = 0 => AllUnderway(queue))

\* The inductive invariant.
Inv == Types /\ PassOK /\ ToldOK /\ Changes /\ Underway

-------------------------------------------------------------------------------
(* Sets of numbers.                                                          *)
LEMMA SmallestIn ==
  ASSUME NEW S \in SUBSET Nat, S # {}
  PROVE  \E x \in S : \A y \in S : x <= y
<1>1. PICK x \in S : \A y \in S : ~(<<y, x>> \in OpToRel(<, Nat))
  BY NatLessThanWellFounded, WFMin, Zenon
<1>2. \A y \in S : ~(y < x)
  BY <1>1 DEF OpToRel
<1> QED
  BY <1>2

LEMMA MinIn ==
  ASSUME NEW S \in SUBSET Nat, S # {}
  PROVE  Min(S) \in S
BY SmallestIn DEF Min

LEMMA UsedFinite ==
  ASSUME NEW b
  PROVE  IsFiniteSet(Used(b)) /\ Cardinality(Used(b)) \in Nat /\ Cardinality(Used(b)) <= TableSize
<1>1. IsFiniteSet(Slot) /\ Cardinality(Slot) = TableSize
  BY ApsBusyAssumption, FS_Interval DEF Slot
<1>2. Used(b) \in SUBSET Slot
  BY DEF Used
<1> QED
  BY <1>1, <1>2, FS_Subset, FS_CardinalityType

\* There is always an id that neither a slot nor a request has.
LEMMA FreshId ==
  ASSUME NEW q, QueueOK(q), Cardinality(q.air) + 1 <= CoreQueue
  PROVE  Min(ReqId \ UsedIds(q.busy, q.air)) \in ReqId \ UsedIds(q.busy, q.air)
<1> DEFINE A == {r.id : r \in q.air}
           B == {q.busy.table[i].id : i \in Used(q.busy)}
<1>1. UsedIds(q.busy, q.air) = A \cup B
  BY DEF UsedIds, Used
<1>2. IsFiniteSet(A) /\ Cardinality(A) \in Nat /\ Cardinality(A) <= Cardinality(q.air)
  <2>1. [r \in q.air |-> r.id] \in Surjection(q.air, A)
    BY DEF Surjection
  <2> HIDE DEF A
  <2> QED
    BY <2>1, FS_Surjection, FS_CardinalityType DEF QueueOK
<1>3. IsFiniteSet(B) /\ Cardinality(B) \in Nat /\ Cardinality(B) <= TableSize
  <2>1. [i \in Used(q.busy) |-> q.busy.table[i].id] \in Surjection(Used(q.busy), B)
    BY DEF Surjection
  <2>2. IsFiniteSet(B) /\ Cardinality(B) <= Cardinality(Used(q.busy))
    <3> HIDE DEF B
    <3> QED
      BY <2>1, UsedFinite, FS_Surjection
  <2> HIDE DEF B
  <2> QED
    BY <2>2, UsedFinite, FS_CardinalityType, ApsBusyAssumption
<1> HIDE DEF A, B
<1>4. IsFiniteSet(A \cup B) /\ Cardinality(A \cup B) \in Nat
      /\ Cardinality(A \cup B) <= Cardinality(A) + Cardinality(B)
  <2>1. IsFiniteSet(A \cap B) /\ Cardinality(A \cap B) \in Nat
    BY <1>2, FS_Intersection, FS_CardinalityType
  <2>2. IsFiniteSet(A \cup B)
        /\ Cardinality(A \cup B) = Cardinality(A) + Cardinality(B) - Cardinality(A \cap B)
    BY <1>2, <1>3, FS_Union, Zenon
  <2>3. Cardinality(A \cup B) \in Nat
    BY <2>2, FS_CardinalityType, Zenon
  <2> QED
    BY <1>2, <1>3, <2>1, <2>2, <2>3
<1>5. Cardinality(ReqId) = TableSize + CoreQueue
  BY ApsBusyAssumption, FS_Interval DEF ReqId
<1>6. ReqId \ (A \cup B) # {}
  <2>1. SUFFICES ASSUME ReqId \subseteq A \cup B PROVE FALSE
    OBVIOUS
  <2>2. Cardinality(ReqId) <= Cardinality(A \cup B)
    BY <1>4, <2>1, FS_Subset
  <2>3. Cardinality(q.air) \in Nat
    BY FS_CardinalityType DEF QueueOK
  <2> QED
    BY <1>2, <1>3, <1>4, <1>5, <2>2, <2>3, ApsBusyAssumption
<1>7. ReqId \ (A \cup B) \in SUBSET Nat
  BY ApsBusyAssumption DEF ReqId
<1> QED
  BY <1>1, <1>6, <1>7, MinIn

-------------------------------------------------------------------------------
(* The table.                                                                *)

LEMMA Enqueued ==
  ASSUME NEW b, TableOK(b), NEW a \in Address, NEW id \in ReqId,
         \A i \in Used(b) : b.table[i].id # id,
         NEW new, new = DA_ApsRequestEnqueued(b, a, id)
  PROVE  /\ TableOK(new)
         /\ \A i \in Used(new) :
               \/ new.table[i].id = id /\ new.table[i].ext = a
               \/ i \in Used(b) /\ new.table[i] = b.table[i]
<1> DEFINE usable == {i \in Slot : b.table[i] = Free \/ b.table[i].old}
           k == Min(usable)
           e == [ext |-> a, id |-> id, old |-> FALSE]
<1>1. CASE usable = {}
  <2>1. new = b
    BY <1>1 DEF DA_ApsRequestEnqueued
  <2> QED
    BY <2>1
<1>2. CASE usable # {}
  <2>1. k \in usable
    <3>1. usable \in SUBSET Nat
      BY ApsBusyAssumption DEF Slot
    <3> HIDE DEF usable
    <3> QED
      BY <3>1, <1>2, MinIn
  <2>2. new = [table |-> [b.table EXCEPT ![k] = e],
               count |-> IF b.table[k] = Free THEN b.count + 1 ELSE b.count]
    BY <1>2 DEF DA_ApsRequestEnqueued
  <2>3. k \in Slot
    BY <2>1
  <2> HIDE DEF k, usable
  <2>4. e \in Entry /\ e # Free /\ e.id = id /\ e.ext = a
    <3>1. e \in Entry
      BY DEF Entry
    <3>2. e # Free
      <4> HIDE DEF e
      <4> QED
        BY <3>1, ApsBusyAssumption
    <3> QED
      BY <3>1, <3>2
  <2> HIDE DEF e
  <2>5. b.table \in [Slot -> Entry \cup {Free}] /\ b.count \in 0..TableSize
    BY DEF TableOK, BusyType
  <2>6. new.table \in [Slot -> Entry \cup {Free}]
        /\ new.table[k] = e
        /\ \A i \in Slot \ {k} : new.table[i] = b.table[i]
    BY <2>2, <2>3, <2>4, <2>5
  <2>7. Used(new) = Used(b) \cup {k}
    BY <2>3, <2>4, <2>6 DEF Used
  <2>8. IsFiniteSet(Used(b)) /\ IsFiniteSet(Used(new)) /\ Cardinality(Used(b)) \in Nat
        /\ Cardinality(Used(new)) \in Nat /\ Cardinality(Used(new)) <= TableSize
    BY UsedFinite
  <2>9. new.count = Cardinality(Used(new))
    <3>3. b.count = Cardinality(Used(b))
      BY DEF TableOK
    <3>4. Cardinality(Used(new)) = Cardinality(Used(b) \cup {k})
      BY <2>7, Zenon
    <3>1. CASE b.table[k] = Free
      <4>1. k \notin Used(b)
        BY <3>1 DEF Used
      <4>2. Cardinality(Used(b) \cup {k}) = Cardinality(Used(b)) + 1
        BY <4>1, <2>8, FS_AddElement
      <4> QED
        BY <3>1, <3>3, <3>4, <4>2, <2>2
    <3>2. CASE b.table[k] # Free
      <4>1. Used(b) \cup {k} = Used(b)
        BY <3>2, <2>3 DEF Used
      <4>2. Cardinality(Used(b) \cup {k}) = Cardinality(Used(b))
        BY <4>1, Zenon
      <4> QED
        BY <3>2, <3>3, <3>4, <4>2, <2>2
    <3> QED
      BY <3>1, <3>2
  <2>10. new \in BusyType
    <3>1. new.count \in 0..TableSize
      BY <2>8, <2>9, ApsBusyAssumption
    <3> QED
      BY <3>1, <2>2, <2>6 DEF BusyType
  <2>11. \A i \in Used(new) : i = k \/ (i # k /\ i \in Used(b) /\ new.table[i] = b.table[i])
    BY <2>6, <2>7 DEF Used
  <2>12. \A i, j \in Used(new) : new.table[i].id = new.table[j].id => i = j
    BY <2>11, <2>4, <2>6 DEF TableOK
  <2> QED
    BY <2>4, <2>6, <2>9, <2>10, <2>11, <2>12 DEF TableOK
<1> QED
  BY <1>1, <1>2

LEMMA Confirmed ==
  ASSUME NEW b, TableOK(b), NEW a \in Address, NEW id \in ReqId,
         NEW new, new = DA_ApsRequestConfirmed(b, a, id)
  PROVE  /\ TableOK(new)
         /\ \A i \in Used(new) : i \in Used(b) /\ new.table[i] = b.table[i]
         /\ \A i \in Used(new) : ~(new.table[i].id = id /\ new.table[i].ext = a)
<1> DEFINE match == {i \in Slot : b.table[i] # Free /\ b.table[i].ext = a /\ b.table[i].id = id}
           k == Min(match)
<1>1. IsFiniteSet(Used(b)) /\ Cardinality(Used(b)) \in Nat /\ Cardinality(Used(b)) <= TableSize
  BY UsedFinite
<1>2. match \subseteq Used(b)
  BY DEF Used
<1>3. CASE match = {}
  <2>1. new = b
    BY <1>3 DEF DA_ApsRequestConfirmed
  <2>2. \A i \in Used(b) : ~(b.table[i].id = id /\ b.table[i].ext = a)
    BY <1>3 DEF Used
  <2> HIDE DEF match
  <2> QED
    BY <2>1, <2>2
<1>4. CASE match # {}
  <2>1. k \in match
    <3>1. match \in SUBSET Nat
      BY ApsBusyAssumption DEF Slot
    <3> HIDE DEF match
    <3> QED
      BY <3>1, <1>4, MinIn
  <2>2. b.count # 0
    <3>1. Used(b) # {}
      BY <2>1, <1>2
    <3> QED
      BY <3>1, <1>1, FS_EmptySet DEF TableOK
  <2>3. new = [table |-> [b.table EXCEPT ![k] = Free], count |-> b.count - 1]
    BY <1>4, <2>2 DEF DA_ApsRequestConfirmed
  <2>4. k \in Slot /\ k \in Used(b) /\ b.table[k].id = id
    BY <2>1, <1>2
  <2> HIDE DEF k, match
  <2>5. b.table \in [Slot -> Entry \cup {Free}] /\ b.count \in 0..TableSize
    BY DEF TableOK, BusyType
  <2>6. new.table \in [Slot -> Entry \cup {Free}]
        /\ new.table[k] = Free
        /\ \A i \in Slot \ {k} : new.table[i] = b.table[i]
    BY <2>3, <2>4, <2>5
  <2>7. Used(new) = Used(b) \ {k}
    BY <2>4, <2>6 DEF Used
  <2>8. new.count = Cardinality(Used(new))
    <3>1. Cardinality(Used(b) \ {k}) = Cardinality(Used(b)) - 1
      BY <2>4, <1>1, FS_RemoveElement
    <3>2. b.count = Cardinality(Used(b))
      BY DEF TableOK
    <3>3. Cardinality(Used(new)) = Cardinality(Used(b) \ {k})
      BY <2>7, Zenon
    <3> QED
      BY <3>1, <3>2, <3>3, <2>3
  <2>9. new \in BusyType
    <3>1. new.count \in 0..TableSize
      BY <2>2, <2>3, <2>5, ApsBusyAssumption
    <3> QED
      BY <3>1, <2>3, <2>6 DEF BusyType
  <2>10. \A i \in Used(new) : i # k /\ i \in Used(b) /\ new.table[i] = b.table[i]
    BY <2>6, <2>7 DEF Used
  <2>11. \A i \in Used(new) : new.table[i].id # id
    BY <2>4, <2>10 DEF TableOK
  <2>12. \A i, j \in Used(new) : new.table[i].id = new.table[j].id => i = j
    BY <2>10 DEF TableOK
  <2> QED
    BY <2>8, <2>9, <2>10, <2>11, <2>12 DEF TableOK
<1> QED
  BY <1>3, <1>4

-------------------------------------------------------------------------------
(* The core's queue and the table together.                                  *)
LEMMA EnqueueOK ==
  ASSUME NEW q, QueueOK(q), Cardinality(q.air) + 1 <= CoreQueue,
         NEW to \in Address, NEW kind \in Kind, NEW s \in Suffix, NEW v \in Value,
         NEW new, new = enqueue(q, to, kind, s, v)
  PROVE  /\ QueueOK(new)
         /\ Cardinality(new.air) = Cardinality(q.air) + 1
         /\ AllUnderway(q) => AllUnderway(new)
<1> DEFINE id == Min(ReqId \ UsedIds(q.busy, q.air))
           r == [id |-> id, to |-> to, kind |-> kind, suffix |-> s, target |-> v]
           b == DA_ApsRequestEnqueued(q.busy, to, id)
<1>1. id \in ReqId /\ id \notin UsedIds(q.busy, q.air)
  BY FreshId
<1>2. (\A i \in Used(q.busy) : q.busy.table[i].id # id) /\ (\A t \in q.air : t.id # id)
  BY <1>1 DEF UsedIds, Used
<1>3. q.busy \in BusyType /\ q.air \subseteq Request
      /\ q = [busy |-> q.busy, air |-> q.air]
  BY DEF QueueOK, Queues
<1>4. new = [busy |-> b, air |-> q.air \cup {r}]
  BY <1>3 DEF enqueue
<1> HIDE DEF id
<1>5. r \in Request /\ r.id = id /\ r.to = to
  BY <1>1 DEF Request
<1> HIDE DEF r
<1>6. TableOK(q.busy)
  BY DEF QueueOK
<1>7. /\ TableOK(b)
      /\ \A i \in Used(b) : \/ b.table[i].id = id /\ b.table[i].ext = to
                            \/ i \in Used(q.busy) /\ b.table[i] = q.busy.table[i]
  <2> HIDE DEF b
  <2>1. b = DA_ApsRequestEnqueued(q.busy, to, id)
    BY DEF b
  <2> QED
    BY <1>1, <1>2, <1>6, <2>1, Enqueued
<1> HIDE DEF b
<1>8. new.busy = b /\ new.air = q.air \cup {r}
  BY <1>4
<1>9. IsFiniteSet(new.air) /\ Cardinality(new.air) = Cardinality(q.air) + 1
  <2>1. r \notin q.air
    BY <1>2, <1>5
  <2>2. IsFiniteSet(q.air \cup {r}) /\ Cardinality(q.air \cup {r}) = Cardinality(q.air) + 1
    BY <2>1, FS_AddElement DEF QueueOK
  <2> QED
    BY <2>2, <1>8, Zenon
<1>10. new \in Queues
  BY <1>3, <1>4, <1>5, <1>7 DEF Queues, TableOK
<1>11. \A t, u \in new.air : t.id = u.id => t = u
  BY <1>2, <1>5, <1>8 DEF QueueOK
<1>12. \A i \in Used(new.busy), t \in new.air :
          new.busy.table[i].id = t.id => new.busy.table[i].ext = t.to
  BY <1>2, <1>5, <1>7, <1>8 DEF QueueOK
<1>13. AllUnderway(q) => AllUnderway(new)
  BY <1>5, <1>7, <1>8 DEF AllUnderway
<1> QED
  BY <1>7, <1>8, <1>9, <1>10, <1>11, <1>12, <1>13 DEF QueueOK

\* A request that is done leaves the queue, and its slot when it is confirmed.
LEMMA ConfirmOK ==
  ASSUME NEW q, QueueOK(q), NEW r \in q.air,
         NEW new, new = [busy |-> DA_ApsRequestConfirmed(q.busy, r.to, r.id), air |-> q.air \ {r}]
  PROVE  QueueOK(new) /\ (AllUnderway(q) => AllUnderway(new))
<1> DEFINE b == DA_ApsRequestConfirmed(q.busy, r.to, r.id)
<1>1. q.air \subseteq Request /\ r \in Request /\ r.to \in Address /\ r.id \in ReqId
  BY DEF QueueOK, Queues, Request
<1>2. TableOK(q.busy)
  BY DEF QueueOK
<1>3. /\ TableOK(b)
      /\ \A i \in Used(b) : i \in Used(q.busy) /\ b.table[i] = q.busy.table[i]
      /\ \A i \in Used(b) : ~(b.table[i].id = r.id /\ b.table[i].ext = r.to)
  <2> HIDE DEF b
  <2>1. b = DA_ApsRequestConfirmed(q.busy, r.to, r.id)
    BY DEF b
  <2> QED
    BY <1>1, <1>2, <2>1, Confirmed
<1>4. new.busy = b /\ new.air = q.air \ {r} /\ new = [busy |-> b, air |-> q.air \ {r}]
  OBVIOUS
<1> HIDE DEF b
<1>5. IsFiniteSet(new.air) /\ Cardinality(new.air) <= CoreQueue
  <2>1. new.air \in SUBSET q.air
    BY <1>4
  <2>2. IsFiniteSet(q.air) /\ Cardinality(q.air) <= CoreQueue
    BY DEF QueueOK
  <2>3. IsFiniteSet(new.air) /\ Cardinality(new.air) <= Cardinality(q.air)
    BY <2>1, <2>2, FS_Subset
  <2>4. Cardinality(new.air) \in Nat /\ Cardinality(q.air) \in Nat
    BY <2>2, <2>3, FS_CardinalityType
  <2> QED
    BY <2>2, <2>3, <2>4, ApsBusyAssumption
<1>6. new \in Queues
  BY <1>1, <1>3, <1>4 DEF Queues, TableOK
<1>7. \A t, u \in new.air : t.id = u.id => t = u
  BY <1>4 DEF QueueOK
<1>8. \A i \in Used(new.busy), t \in new.air :
         new.busy.table[i].id = t.id => new.busy.table[i].ext = t.to
  BY <1>3, <1>4 DEF QueueOK
<1>9. ASSUME AllUnderway(q) PROVE AllUnderway(new)
  <2> SUFFICES ASSUME NEW i \in Used(b)
               PROVE  \E t \in q.air \ {r} : t.id = b.table[i].id
    BY <1>4 DEF AllUnderway
  <2>1. i \in Used(q.busy) /\ b.table[i] = q.busy.table[i]
    BY <1>3
  <2>2. PICK t \in q.air : t.id = b.table[i].id
    BY <1>9, <2>1 DEF AllUnderway
  <2>3. b.table[i].ext = t.to
    BY <2>1, <2>2 DEF QueueOK
  <2>4. t # r
    BY <1>3, <2>2, <2>3
  <2> QED
    BY <2>2, <2>4
<1> QED
  BY <1>3, <1>4, <1>5, <1>6, <1>7, <1>8, <1>9 DEF QueueOK

LEMMA LostOK ==
  ASSUME NEW q, QueueOK(q), NEW r \in q.air, NEW new, new = [busy |-> q.busy, air |-> q.air \ {r}]
  PROVE  QueueOK(new)
<1>1. IsFiniteSet(new.air) /\ Cardinality(new.air) <= CoreQueue
  <2>1. new.air \in SUBSET q.air
    OBVIOUS
  <2>2. IsFiniteSet(q.air) /\ Cardinality(q.air) <= CoreQueue
    BY DEF QueueOK
  <2>3. IsFiniteSet(new.air) /\ Cardinality(new.air) <= Cardinality(q.air)
    BY <2>1, <2>2, FS_Subset
  <2>4. Cardinality(new.air) \in Nat /\ Cardinality(q.air) \in Nat
    BY <2>2, <2>3, FS_CardinalityType
  <2> QED
    BY <2>2, <2>3, <2>4, ApsBusyAssumption
<1>2. new \in Queues
  BY DEF QueueOK, Queues
<1> QED
  BY <1>1, <1>2 DEF QueueOK

LEMMA OldOK ==
  ASSUME NEW q, QueueOK(q), NEW k \in Slot, q.busy.table[k] # Free,
         NEW new, new = [busy |-> GrowsOld(q.busy, k), air |-> q.air]
  PROVE  QueueOK(new) /\ (AllUnderway(q) => AllUnderway(new))
<1> DEFINE b == GrowsOld(q.busy, k)
<1>1. q.busy.table \in [Slot -> Entry \cup {Free}] /\ q.busy.count \in 0..TableSize
      /\ q.air \subseteq Request
  BY DEF QueueOK, Queues, BusyType
<1>2. /\ b.table = [q.busy.table EXCEPT ![k] = [q.busy.table[k] EXCEPT !.old = TRUE]]
      /\ b.count = q.busy.count
      /\ b = [table |-> b.table, count |-> b.count]
  <2>1. q.busy = [table |-> q.busy.table, count |-> q.busy.count]
    BY DEF QueueOK, Queues, BusyType
  <2>2. b = [q.busy EXCEPT !.table = [q.busy.table EXCEPT ![k] = [q.busy.table[k] EXCEPT !.old = TRUE]]]
    BY DEF GrowsOld
  <2> HIDE DEF b
  <2> QED
    BY <2>1, <2>2
<1>3. new.busy = b /\ new.air = q.air /\ new = [busy |-> b, air |-> q.air]
  OBVIOUS
<1> HIDE DEF b
<1>4. b.table[k] \in Entry /\ b.table[k].id = q.busy.table[k].id
      /\ b.table[k].ext = q.busy.table[k].ext
  BY <1>1, <1>2 DEF Entry
<1>5. b.table \in [Slot -> Entry \cup {Free}] /\ \A i \in Slot \ {k} : b.table[i] = q.busy.table[i]
  BY <1>1, <1>2, <1>4
<1>6. b.table[k] # Free
  BY <1>4, ApsBusyAssumption
<1>7. Used(b) = Used(q.busy)
  BY <1>5, <1>6 DEF Used
<1>8. \A i \in Used(b) : /\ i \in Used(q.busy) /\ b.table[i].id = q.busy.table[i].id
                         /\ b.table[i].ext = q.busy.table[i].ext
  BY <1>4, <1>5, <1>7 DEF Used
<1>9. b \in BusyType
  BY <1>1, <1>2, <1>5 DEF BusyType
<1>10. b.count = Cardinality(Used(b))
  <2>1. Cardinality(Used(b)) = Cardinality(Used(q.busy))
    BY <1>7, Zenon
  <2> QED
    BY <2>1, <1>2 DEF QueueOK, TableOK
<1>11. TableOK(b)
  BY <1>8, <1>9, <1>10 DEF TableOK, QueueOK
<1>12. new \in Queues
  BY <1>1, <1>3, <1>9 DEF Queues
<1>13. AllUnderway(q) => AllUnderway(new)
  BY <1>3, <1>8 DEF AllUnderway
<1> QED
  BY <1>3, <1>8, <1>11, <1>12, <1>13 DEF QueueOK

-------------------------------------------------------------------------------
(* The writes of one change.                                                 *)
Write(g, acc, items, done) ==
  IF done = {} THEN acc
  ELSE LET s == CHOOSE x \in done : TRUE
       IN  enqueue(g[done \ {s}], Self, "write", s, items[s].target)

Writes(acc, items, sent) ==
  CHOOSE g : g = [done \in SUBSET sent |-> Write(g, acc, items, done)]

LEMMA WriteIs ==
  ASSUME NEW acc, NEW items, NEW sent
  PROVE  SC_WriteZclAttribute(acc, items, sent) = Writes(acc, items, sent)[sent]
BY DEF SC_WriteZclAttribute, Writes, Write

\* The function is defined by recursion on the number of requests sent.
LEMMA WritesDefined ==
  ASSUME NEW acc, NEW items, NEW sent, IsFiniteSet(sent)
  PROVE  \A done \in SUBSET sent :
            Writes(acc, items, sent)[done] = Write(Writes(acc, items, sent), acc, items, done)
<1> DEFINE Fam(n) == {T \in SUBSET sent : Cardinality(T) <= n}
           Good(n, g) == g = [done \in Fam(n) |-> Write(g, acc, items, done)]
           Bad == {n \in Nat : ~\E g : Good(n, g)}
<1>1. \A T \in SUBSET sent : IsFiniteSet(T) /\ Cardinality(T) \in Nat
  BY FS_Subset, FS_CardinalityType
<1>2. Bad = {}
  <2>1. SUFFICES ASSUME Bad # {} PROVE FALSE
    OBVIOUS
  <2>2. PICK n \in Bad : \A m \in Bad : n <= m
    <3>1. Bad \in SUBSET Nat
      OBVIOUS
    <3> HIDE DEF Bad
    <3> QED
      BY <2>1, <3>1, SmallestIn
  <2>3. CASE n = 0
    <3> DEFINE g == [done \in Fam(0) |-> acc]
    <3>1. \A done \in Fam(0) : done = {}
      BY <1>1, FS_EmptySet
    <3>2. \A done \in Fam(0) : Write(g, acc, items, done) = acc
      BY <3>1 DEF Write
    <3>3. Good(0, g)
      <4> HIDE DEF Fam
      <4> QED
        BY <3>2
    <3> HIDE DEF Good, g
    <3> QED
      BY <2>3, <3>3
  <2>4. CASE n # 0
    <3>1. n \in Nat /\ n - 1 \in Nat /\ n - 1 \notin Bad
      <4>1. Bad \in SUBSET Nat
        OBVIOUS
      <4> HIDE DEF Bad
      <4> QED
        BY <4>1, <2>2, <2>4
    <3>2. PICK g : Good(n - 1, g)
      BY <3>1
    <3> DEFINE h == [done \in Fam(n) |-> Write(g, acc, items, done)]
    <3>3. ASSUME NEW done \in Fam(n)
          PROVE  Write(h, acc, items, done) = Write(g, acc, items, done)
      <4>1. CASE done = {}
        BY <4>1 DEF Write
      <4>2. CASE done # {}
        <5> DEFINE s == CHOOSE x \in done : TRUE
                   rest == done \ {s}
        <5>1. s \in done
          BY <4>2
        <5>2. Cardinality(rest) = Cardinality(done) - 1
          BY <5>1, <1>1, FS_RemoveElement
        <5>3. rest \in Fam(n - 1) /\ rest \in Fam(n)
          BY <1>1, <3>1, <5>2
        <5>4. h[rest] = Write(g, acc, items, rest) /\ g[rest] = Write(g, acc, items, rest)
          <6> HIDE DEF Fam, rest
          <6> QED
            BY <3>2, <5>3
        <5> HIDE DEF h
        <5> QED
          BY <5>4 DEF Write
      <4> QED
        BY <4>1, <4>2
    <3>4. Good(n, h)
      <4> HIDE DEF Fam
      <4> QED
        BY <3>3
    <3> HIDE DEF Good, h
    <3> QED
      BY <3>4
  <2> QED
    BY <2>3, <2>4
<1>3. Cardinality(sent) \in Nat
  BY FS_CardinalityType
<1>4. PICK g : Good(Cardinality(sent), g)
  BY <1>2, <1>3
<1>5. Fam(Cardinality(sent)) = SUBSET sent
  BY FS_Subset
<1> HIDE DEF Fam
<1>6. g = [done \in SUBSET sent |-> Write(g, acc, items, done)]
  BY <1>4, <1>5
<1>7. Writes(acc, items, sent) =
        [done \in SUBSET sent |-> Write(Writes(acc, items, sent), acc, items, done)]
  BY <1>6 DEF Writes
<1> QED
  BY <1>7, Zenon

LEMMA WritesOK ==
  ASSUME NEW acc, QueueOK(acc), NEW sent \in SUBSET Suffix, IsFiniteSet(sent),
         NEW items, \A s \in sent : items[s].target \in Value,
         Cardinality(acc.air) + Cardinality(sent) <= CoreQueue,
         NEW new, new = SC_WriteZclAttribute(acc, items, sent)
  PROVE  QueueOK(new) /\ (AllUnderway(acc) => AllUnderway(new))
<1> DEFINE W == Writes(acc, items, sent)
           After(T, q) == /\ QueueOK(q)
                          /\ Cardinality(q.air) = Cardinality(acc.air) + Cardinality(T)
                          /\ AllUnderway(acc) => AllUnderway(q)
           Bad == {n \in Nat : \E T \in SUBSET sent : Cardinality(T) = n /\ ~After(T, W[T])}
<1>1. \A T \in SUBSET sent : IsFiniteSet(T) /\ Cardinality(T) \in Nat
                               /\ Cardinality(T) <= Cardinality(sent)
  BY FS_Subset, FS_CardinalityType
<1>2. \A T \in SUBSET sent : W[T] = Write(W, acc, items, T)
  BY WritesDefined
<1>3. Cardinality(acc.air) \in Nat /\ Cardinality(sent) \in Nat
  BY FS_CardinalityType DEF QueueOK
<1> HIDE DEF W
<1>4. Bad = {}
  <2>0. Bad \in SUBSET Nat
    OBVIOUS
  <2>1. SUFFICES ASSUME Bad # {} PROVE FALSE
    OBVIOUS
  <2>2. PICK n \in Bad : \A m \in Bad : n <= m
    <3> HIDE DEF Bad
    <3> QED
      BY <2>0, <2>1, SmallestIn
  <2>3. PICK T \in SUBSET sent : Cardinality(T) = n /\ ~After(T, W[T])
    BY <2>2
  <2>4. CASE T = {}
    <3>1. W[T] = acc
      BY <1>2, <2>4 DEF Write
    <3>2. Cardinality(T) = 0
      BY <2>4, FS_EmptySet
    <3>3. After(T, acc)
      BY <3>2, <1>3
    <3> QED
      BY <3>1, <3>3, <2>3
  <2>5. CASE T # {}
    <3> DEFINE s == CHOOSE x \in T : TRUE
               rest == T \ {s}
    <3>1. s \in T
      BY <2>5
    <3>2. rest \in SUBSET sent /\ Cardinality(rest) \in Nat /\ Cardinality(rest) = Cardinality(T) - 1
      BY <3>1, <1>1, FS_RemoveElement
    <3>3. W[T] = enqueue(W[rest], Self, "write", s, items[s].target)
      BY <1>2, <2>5 DEF Write
    <3> HIDE DEF s, rest
    <3>4. After(rest, W[rest])
      <4>1. SUFFICES ASSUME ~After(rest, W[rest]) PROVE FALSE
        OBVIOUS
      <4> HIDE DEF After
      <4>2. Cardinality(rest) \in Bad
        BY <4>1, <3>2
      <4>3. Cardinality(rest) < n /\ n \in Nat
        BY <3>2, <2>3, <1>1, <2>0, <2>2
      <4> HIDE DEF Bad
      <4> QED
        BY <4>2, <4>3, <3>2, <2>2
    <3>5. /\ QueueOK(W[rest])
          /\ Cardinality(W[rest].air) = Cardinality(acc.air) + Cardinality(rest)
          /\ AllUnderway(acc) => AllUnderway(W[rest])
      BY <3>4
    <3>6. Cardinality(W[rest].air) + 1 <= CoreQueue
      <4>1. Cardinality(T) <= Cardinality(sent) /\ Cardinality(T) \in Nat
        BY <1>1
      <4> QED
        BY <4>1, <3>2, <3>5, <1>3, ApsBusyAssumption
    <3>7. Self \in Address /\ "write" \in Kind /\ s \in Suffix /\ items[s].target \in Value
      BY <3>1, StateChangeAssumption DEF Kind
    <3>8. /\ QueueOK(W[T])
          /\ Cardinality(W[T].air) = Cardinality(W[rest].air) + 1
          /\ AllUnderway(W[rest]) => AllUnderway(W[T])
      BY <3>3, <3>5, <3>6, <3>7, EnqueueOK
    <3>9. Cardinality(W[T].air) = Cardinality(acc.air) + Cardinality(T)
      BY <1>1, <1>3, <3>2, <3>5, <3>8
    <3>10. After(T, W[T])
      BY <3>5, <3>8, <3>9
    <3> QED
      BY <3>10, <2>3
  <2> QED
    BY <2>4, <2>5
<1>5. After(sent, W[sent])
  <2>1. Cardinality(sent) \notin Bad
    BY <1>4
  <2> HIDE DEF After
  <2> QED
    BY <2>1, <1>3
<1>6. new = W[sent]
  BY WriteIs DEF W
<1> QED
  BY <1>5, <1>6

-------------------------------------------------------------------------------
(* A change.                                                                 *)
LEMMA ItemsType ==
  ASSUME NEW c \in Change
  PROVE  /\ DOMAIN c.items \in SUBSET Suffix /\ c.items \in [DOMAIN c.items -> Item]
         /\ IsFiniteSet(DOMAIN c.items)
         /\ c.state \in Active \cup Terminal /\ c.changeOver \in BOOLEAN
         /\ c = [items |-> c.items, state |-> c.state, changeOver |-> c.changeOver]
<1>1. c.items \in Items /\ c.state \in Active \cup Terminal /\ c.changeOver \in BOOLEAN
      /\ c = [items |-> c.items, state |-> c.state, changeOver |-> c.changeOver]
  BY DEF Change
<1>2. PICK D \in SUBSET Suffix : c.items \in [D -> Item]
  BY <1>1 DEF Items
<1>3. DOMAIN c.items = D
  BY <1>2
<1>4. IsFiniteSet(DOMAIN c.items)
  BY <1>3, FS_Subset, StateChangeAssumption
<1> QED
  BY <1>1, <1>2, <1>3, <1>4

LEMMA ChangeType ==
  ASSUME NEW D \in SUBSET Suffix, NEW f \in [D -> Item], NEW st \in Active \cup Terminal,
         NEW over \in BOOLEAN
  PROVE  [items |-> f, state |-> st, changeOver |-> over] \in Change
<1>1. f \in Items
  BY DEF Items
<1> QED
  BY <1>1 DEF Change

LEMMA OverIs ==
  ASSUME NEW c \in Change
  PROVE  [c EXCEPT !.changeOver = TRUE] = [items |-> c.items, state |-> c.state, changeOver |-> TRUE]
<1>1. ASSUME NEW over
      PROVE  [c EXCEPT !.changeOver = over]
               = [items |-> c.items, state |-> c.state, changeOver |-> over]
  BY DEF Change
<1> QED
  BY <1>1

\* What a tick leaves alone: it neither verifies an item nor finishes a change.
Keeps(c, d) ==
  /\ d \in Change
  /\ DOMAIN d.items = DOMAIN c.items
  /\ \A s \in DOMAIN c.items :
        /\ d.items[s].target = c.items[s].target
        /\ d.items[s].verified = "Synced" <=> c.items[s].verified = "Synced"
  /\ d.state = "Finished" => c.state = "Finished"

LEMMA KeepsState ==
  ASSUME NEW c \in Change, NEW st \in Active \cup Terminal, st = "Finished" => c.state = "Finished"
  PROVE  Keeps(c, [c EXCEPT !.state = st])
<1> DEFINE d == [c EXCEPT !.state = st]
<1>1. d = [items |-> c.items, state |-> st, changeOver |-> c.changeOver]
  BY ItemsType
<1>2. d \in Change
  BY <1>1, ItemsType, ChangeType
<1> HIDE DEF d
<1>3. d.items = c.items /\ d.state = st
  BY <1>1
<1> QED
  BY <1>2, <1>3 DEF Keeps, d

LEMMA KeepsCalled ==
  ASSUME NEW c \in Change
  PROVE  Keeps(c, called(c))
<1> DEFINE f == [s \in DOMAIN c.items |->
                   IF c.items[s].verified = "NotSynced" THEN [c.items[s] EXCEPT !.verified = "Unknown"]
                                                        ELSE c.items[s]]
           d == [items |-> f, state |-> "WaitSync", changeOver |-> c.changeOver]
<1>1. called(c) = d
  <2>1. c = [items |-> c.items, state |-> c.state, changeOver |-> c.changeOver]
    BY ItemsType
  <2>2. called(c) = [c EXCEPT !.items = f, !.state = "WaitSync"]
    BY DEF called
  <2> HIDE DEF f
  <2> QED
    BY <2>1, <2>2
<1>2. \A s \in DOMAIN c.items : c.items[s] \in Item
  BY ItemsType
<1>3. \A s \in DOMAIN c.items : /\ f[s] \in Item
                                /\ f[s].target = c.items[s].target
                                /\ f[s].verified = "Synced" <=> c.items[s].verified = "Synced"
  BY <1>2 DEF Item, Verify
<1>4. f \in [DOMAIN c.items -> Item]
  BY <1>3
<1> HIDE DEF f
<1>5. d \in Change
  BY <1>4, ItemsType, ChangeType DEF Active
<1>6. d.items = f /\ d.state = "WaitSync" /\ DOMAIN f = DOMAIN c.items
  BY <1>4
<1> HIDE DEF d
<1> QED
  BY <1>1, <1>3, <1>5, <1>6 DEF Keeps

LEMMA NewChangeOK ==
  ASSUME NEW p \in Puts \cup Defaults, NEW st \in Active, NEW c, c = newChange(p, st)
  PROVE  /\ c \in Change /\ c.state = st
         /\ \A s \in DOMAIN c.items : c.items[s].verified # "Synced"
<1> DEFINE f == [s \in DOMAIN p |-> [target |-> p[s], verified |-> "Unknown"]]
<1>1. DOMAIN p \in SUBSET Suffix /\ p \in [DOMAIN p -> Value]
  BY StateChangeAssumption
<1>2. c = [items |-> f, state |-> st, changeOver |-> FALSE]
  BY DEF newChange
<1>3. f \in [DOMAIN p -> Item] /\ DOMAIN f = DOMAIN p /\ \A s \in DOMAIN p : f[s].verified # "Synced"
  BY <1>1 DEF Item, Verify
<1> HIDE DEF f
<1>4. c \in Change
  BY <1>1, <1>2, <1>3, ChangeType
<1> QED
  BY <1>2, <1>3, <1>4

\* Verifying an item settles what a report of it left open.
LEMMA VerifyOK ==
  ASSUME NEW c \in Change, c.state \in Active, NEW s \in Suffix,
         SyncedOK(c, {t \in {s} : fromDevice[t]}), fromDevice[s] => heard[s] = value[s],
         value \in [Suffix -> Value], NEW d, d = verifyItemChange(c, s)
  PROVE  /\ d \in Change
         /\ d.state = "Finished" => AllSynced(d)
         /\ SyncedOK(d, {})
<1>1. CASE ~fromDevice[s]
  <2>1. d = c
    BY <1>1 DEF verifyItemChange
  <2>2. c.state # "Finished"
    BY DEF Active
  <2> QED
    BY <1>1, <2>1, <2>2 DEF SyncedOK
<1>2. CASE fromDevice[s]
  <2> DEFINE f == [k \in DOMAIN c.items |->
                     IF k # s THEN c.items[k]
                     ELSE [c.items[k] EXCEPT !.verified =
                              IF c.items[k].target = value[s] THEN "Synced" ELSE "NotSynced"]]
             st == IF \A k \in DOMAIN f : f[k].verified = "Synced" THEN "Finished" ELSE c.state
  <2>1. d = [items |-> f, state |-> st, changeOver |-> c.changeOver]
    <3>1. d = [c EXCEPT !.items = f, !.state = st]
      BY <1>2 DEF verifyItemChange
    <3>2. c = [items |-> c.items, state |-> c.state, changeOver |-> c.changeOver]
      BY ItemsType
    <3> HIDE DEF f, st
    <3> QED
      BY <3>1, <3>2
  <2>2. \A k \in DOMAIN c.items : c.items[k] \in Item
    BY ItemsType
  <2>3. \A k \in DOMAIN c.items :
           /\ f[k] \in Item /\ f[k].target = c.items[k].target
           /\ f[k].verified = "Synced" => c.items[k].target = value[s] \/ k # s
           /\ k # s => f[k] = c.items[k]
    BY <2>2 DEF Item, Verify
  <2>4. f \in [DOMAIN c.items -> Item]
    BY <2>3
  <2>5. st \in Active \cup Terminal /\ (st = "Finished" => \A k \in DOMAIN f : f[k].verified = "Synced")
    BY DEF Active, Terminal
  <2> HIDE DEF f, st
  <2>6. d \in Change
    BY <2>1, <2>4, <2>5, ItemsType, ChangeType
  <2>7. d.items = f /\ d.state = st /\ DOMAIN f = DOMAIN c.items
    BY <2>1, <2>4
  <2>8. SyncedOK(d, {})
    <3>1. \A k \in DOMAIN c.items : c.items[k].verified = "Synced" => heard[k] = c.items[k].target \/ k = s
      BY DEF SyncedOK
    <3>2. heard[s] = value[s]
      BY <1>2
    <3> QED
      BY <2>3, <2>7, <3>1, <3>2 DEF SyncedOK
  <2> QED
    BY <2>5, <2>6, <2>7, <2>8 DEF AllSynced
<1> QED
  BY <1>1, <1>2

-------------------------------------------------------------------------------
(* A tick.                                                                   *)

\* The step of a tick of change k, which is c when the tick begins.
TickStep(k, c) ==
  \E d \in Change, q \in Queues, n \in Nat :
     /\ ticked(k, d, q, n)
     /\ Keeps(c, d)
     /\ QueueOK(q) /\ (AllUnderway(queue) => AllUnderway(q))

LEMMA TickStepIs ==
  ASSUME NEW k, NEW c, NEW d, NEW q, NEW n \in Nat, ticked(k, d, q, n), Keeps(c, d),
         QueueOK(q), AllUnderway(queue) => AllUnderway(q)
  PROVE  TickStep(k, c)
<1>1. d \in Change /\ q \in Queues
  BY DEF Keeps, QueueOK
<1> QED
  BY <1>1 DEF TickStep

LEMMA WriteStep ==
  ASSUME NEW k, NEW c \in Change, QueueOK(queue), NEW part \in SUBSET (DOMAIN c.items),
         room(Cardinality(part)), NEW d, Keeps(c, d), NEW n \in Nat,
         ticked(k, d, SC_WriteZclAttribute(queue, c.items, part), n)
  PROVE  TickStep(k, c)
<1> DEFINE q == SC_WriteZclAttribute(queue, c.items, part)
<1>1. part \in SUBSET Suffix /\ IsFiniteSet(part) /\ \A s \in part : c.items[s].target \in Value
  BY ItemsType, FS_Subset DEF Item
<1>2. Cardinality(queue.air) + Cardinality(part) <= CoreQueue
  BY DEF room, queue
<1>3. QueueOK(q) /\ (AllUnderway(queue) => AllUnderway(q))
  <2>1. q = SC_WriteZclAttribute(queue, c.items, part)
    OBVIOUS
  <2> HIDE DEF q
  <2> QED
    BY <1>1, <1>2, <2>1, WritesOK
<1> HIDE DEF q
<1> QED
  BY <1>3, TickStepIs DEF q

LEMMA CallFunctionStep ==
  ASSUME NEW k, NEW c \in Change, c.state \in Active, QueueOK(queue), tickCallFunction(k, c)
  PROVE  TickStep(k, c)
<1> DEFINE all == DOMAIN c.items
<1>1. CASE /\ room(Cardinality(all))
           /\ ticked(k, called(c), SC_WriteZclAttribute(queue, c.items, all), 1)
  BY <1>1, KeepsCalled, WriteStep
<1>2. ASSUME NEW part \in SUBSET all, room(Cardinality(part)),
             ticked(k, [c EXCEPT !.state = "CallFunction"],
                    SC_WriteZclAttribute(queue, c.items, part), 0)
      PROVE  TickStep(k, c)
  <2>1. Keeps(c, [c EXCEPT !.state = "CallFunction"])
    BY KeepsState DEF Active
  <2> QED
    BY <1>2, <2>1, WriteStep
<1> QED
  BY <1>1, <1>2 DEF tickCallFunction

LEMMA ReadStep ==
  ASSUME NEW k, NEW c \in Change, QueueOK(queue), tickRead(k, c)
  PROVE  TickStep(k, c)
<1> DEFINE waits == [c EXCEPT !.state = "WaitSync"]
<1>1. CASE ticked(k, [c EXCEPT !.state = "Failed"], queue, 0)
  <2>1. Keeps(c, [c EXCEPT !.state = "Failed"])
    BY KeepsState DEF Terminal
  <2> QED
    BY <1>1, <2>1, TickStepIs
<1>2. Keeps(c, waits)
  BY KeepsState DEF Active
<1> HIDE DEF waits
<1>3. CASE ticked(k, waits, queue, 0)
  BY <1>2, <1>3, TickStepIs
<1>4. ASSUME room(1), NEW s \in Readable, NEW q, q = enqueue(queue, Self, "read", s, Initial),
             ticked(k, waits, q, 1)
      PROVE  TickStep(k, c)
  <2>1. Cardinality(queue.air) + 1 <= CoreQueue
    BY <1>4 DEF room, queue
  <2>2. Self \in Address /\ "read" \in Kind /\ s \in Suffix /\ Initial \in Value
    BY StateChangeAssumption DEF Kind
  <2>3. QueueOK(q) /\ (AllUnderway(queue) => AllUnderway(q))
    BY <1>4, <2>1, <2>2, EnqueueOK
  <2> QED
    BY <1>2, <1>4, <2>3, TickStepIs
<1> QED
  BY <1>1, <1>3, <1>4 DEF tickRead, waits

LEMMA TickOK ==
  ASSUME NEW k, NEW c \in Change, QueueOK(queue), NEW over \in BOOLEAN, tick(k, c, over)
  PROVE  TickStep(k, c)
<1> DEFINE state == afterWait(c, over)
<1>1. CASE ticked(k, [c EXCEPT !.state = "Failed"], queue, 0)
  <2>1. Keeps(c, [c EXCEPT !.state = "Failed"])
    BY KeepsState DEF Terminal
  <2> QED
    BY <1>1, <2>1, TickStepIs
<1>2. CASE c.state \in Active /\ tickCallFunction(k, c)
  BY <1>2, CallFunctionStep
<1>3. CASE tickRead(k, c)
  BY <1>3, ReadStep
<1>4. CASE ticked(k, [c EXCEPT !.state = state], queue, 0)
  <2>1. c.state \in Active \cup Terminal
    BY ItemsType
  <2>2. state \in Active \cup Terminal /\ (state = "Finished" => c.state = "Finished")
    BY <2>1 DEF afterWait, Active, Terminal
  <2> HIDE DEF state
  <2>3. Keeps(c, [c EXCEPT !.state = state])
    BY <2>2, KeepsState
  <2> QED
    BY <1>4, <2>3, TickStepIs
<1> QED
  BY <1>1, <1>2, <1>3, <1>4 DEF tick

-------------------------------------------------------------------------------
(* The sequence of changes.                                                  *)
\* There is an element with as many smaller ones as one wants.
LEMMA NthExists ==
  ASSUME NEW S \in SUBSET Nat, IsFiniteSet(S), NEW n \in Nat \ {0}, n <= Cardinality(S),
         NEW max \in Nat, \A j \in S : j <= max
  PROVE  \E i \in S : Cardinality({j \in S : j < i}) = n - 1
<1> DEFINE upTo(m) == {j \in S : j <= m}
           below(m) == {j \in S : j < m}
           M == {m \in Nat : Cardinality(upTo(m)) >= n}
<1>1. \A m \in Nat : /\ IsFiniteSet(upTo(m)) /\ Cardinality(upTo(m)) \in Nat
                     /\ IsFiniteSet(below(m)) /\ Cardinality(below(m)) \in Nat
  <2> TAKE m \in Nat
  <2>1. upTo(m) \in SUBSET S /\ below(m) \in SUBSET S
    OBVIOUS
  <2> QED
    BY <2>1, FS_Subset, FS_CardinalityType
<1>2. M # {}
  <2>1. upTo(max) = S
    OBVIOUS
  <2> QED
    BY <2>1
<1>3. PICK m \in M : \A k \in M : m <= k
  <2>1. M \in SUBSET Nat
    OBVIOUS
  <2> HIDE DEF M
  <2> QED
    BY <1>2, <2>1, SmallestIn
<1>4. m \in Nat /\ Cardinality(upTo(m)) >= n
  OBVIOUS
<1>5. m \in S
  <2>1. SUFFICES ASSUME m \notin S PROVE FALSE
    OBVIOUS
  <2>2. CASE m = 0
    <3>0. \A j \in S : ~(j <= m)
      BY <2>1, <2>2
    <3>1. upTo(m) = {}
      BY <3>0
    <3> QED
      BY <1>4, <3>1, FS_EmptySet
  <2>3. CASE m # 0
    <3>1. m - 1 \in Nat /\ \A j \in S : j <= m <=> j <= m - 1
      BY <1>4, <2>1, <2>3
    <3>a. upTo(m) = upTo(m - 1)
      BY <3>1
    <3>2. m - 1 \in M
      BY <1>4, <3>1, <3>a
    <3> HIDE DEF M
    <3> QED
      BY <1>3, <1>4, <3>2
  <2> QED
    BY <2>2, <2>3
<1>6. Cardinality(upTo(m)) = Cardinality(below(m)) + 1
  <2>0. \A j \in S : j <= m <=> j < m \/ j = m
    BY <1>4
  <2>a. ~(m < m)
    BY <1>4
  <2>1. upTo(m) = below(m) \cup {m} /\ m \notin below(m)
    BY <1>5, <2>0, <2>a
  <2> HIDE DEF upTo, below
  <2> QED
    BY <1>1, <1>4, <2>1, FS_AddElement
<1>7. Cardinality(below(m)) < n
  <2>1. SUFFICES ASSUME Cardinality(below(m)) >= n PROVE FALSE
    BY <1>1, <1>4
  <2>2. m # 0
    <3>1. SUFFICES ASSUME m = 0 PROVE FALSE
      OBVIOUS
    <3>2. \A j \in S : ~(j < m)
      BY <3>1
    <3>3. below(m) = {}
      BY <3>2
    <3> QED
      BY <2>1, <3>3, FS_EmptySet
  <2>3. m - 1 \in Nat /\ \A j \in S : j < m <=> j <= m - 1
    BY <1>4, <2>2
  <2>a. below(m) = upTo(m - 1)
    BY <2>3
  <2>4. m - 1 \in M
    BY <2>1, <2>3, <2>a
  <2> HIDE DEF M
  <2> QED
    BY <1>3, <1>4, <2>4
<1>8. Cardinality(below(m)) = n - 1
  <2> HIDE DEF upTo, below, M
  <2> QED
    BY <1>1, <1>4, <1>6, <1>7
<1> QED
  BY <1>5, <1>8

\* The changes that are kept are changes there were.
LEMMA KeptOK ==
  ASSUME m_stateChanges \in Seq(Change), NEW ks \in SUBSET (DOMAIN m_stateChanges),
         NEW new, new = kept(ks)
  PROVE  /\ new \in Seq(Change)
         /\ \A n \in DOMAIN new : \E k \in ks : new[n] = m_stateChanges[k]
<1> DEFINE N == Cardinality(ks)
           at(n) == CHOOSE k \in ks : Cardinality({j \in ks : j < k}) = n - 1
<1>1. DOMAIN m_stateChanges = 1..Len(m_stateChanges) /\ Len(m_stateChanges) \in Nat
  OBVIOUS
<1>2. ks \in SUBSET Nat /\ \A j \in ks : j <= Len(m_stateChanges)
  BY <1>1
<1>3. IsFiniteSet(ks) /\ N \in Nat
  <2>1. IsFiniteSet(1..Len(m_stateChanges))
    BY <1>1, FS_Interval
  <2> QED
    BY <1>1, <2>1, FS_Subset, FS_CardinalityType
<1>4. ASSUME NEW n \in 1..N PROVE at(n) \in ks
  <2>1. n \in Nat \ {0} /\ n <= Cardinality(ks)
    BY <1>3
  <2>2. \E k \in ks : Cardinality({j \in ks : j < k}) = n - 1
    BY <1>1, <1>2, <1>3, <2>1, NthExists
  <2> QED
    BY <2>2, Zenon
<1>5. new = [n \in 1..N |-> m_stateChanges[at(n)]]
  BY DEF kept
<1> HIDE DEF at, N
<1>6. \A n \in 1..N : new[n] = m_stateChanges[at(n)] /\ new[n] \in Change
  BY <1>4, <1>5
<1>7. new \in [1..N -> Change] /\ DOMAIN new = 1..N
  BY <1>5, <1>6
<1>8. new \in Seq(Change)
  BY <1>3, <1>7, SeqDef
<1> QED
  BY <1>4, <1>6, <1>7, <1>8

LEMMA ExceptOK ==
  ASSUME NEW S, NEW s \in Seq(S), NEW k \in DOMAIN s, NEW c \in S,
         NEW t, t = [s EXCEPT ![k] = c]
  PROVE  /\ t \in Seq(S) /\ DOMAIN t = DOMAIN s
         /\ t[k] = c /\ \A j \in DOMAIN s \ {k} : t[j] = s[j]
OBVIOUS

LEMMA TailOK ==
  ASSUME NEW S, NEW e \in Seq(S), e # <<>>
  PROVE  /\ Head(e) \in S /\ Tail(e) \in Seq(S)
         /\ \A s \in Range(e) : s = Head(e) \/ s \in Range(Tail(e))
<1>1. Head(e) = e[1] /\ Head(e) \in S /\ Tail(e) \in Seq(S) /\ Len(e) \in Nat
      /\ Len(Tail(e)) = Len(e) - 1
  OBVIOUS
<1>2. \A j \in 1..(Len(e) - 1) : Tail(e)[j] = e[j + 1]
  OBVIOUS
<1>3. ASSUME NEW j \in DOMAIN e, e[j] # Head(e) PROVE e[j] \in Range(Tail(e))
  <2>1. j \in 1..Len(e) /\ j # 1
    BY <1>1, <1>3
  <2>2. j - 1 \in 1..(Len(e) - 1) /\ (j - 1) + 1 = j
    BY <1>1, <2>1
  <2>3. Tail(e)[j - 1] = e[j] /\ j - 1 \in DOMAIN Tail(e)
    BY <1>1, <1>2, <2>2
  <2> QED
    BY <2>3 DEF Range
<1> QED
  BY <1>1, <1>3 DEF Range

LEMMA AppendOK ==
  ASSUME NEW S, NEW e \in Seq(S), NEW x \in S
  PROVE  /\ Append(e, x) \in Seq(S)
         /\ \A j \in DOMAIN Append(e, x) : Append(e, x)[j] = x \/ (j \in DOMAIN e /\ Append(e, x)[j] = e[j])
         /\ x \in Range(Append(e, x)) /\ \A s \in Range(e) : s \in Range(Append(e, x))
<1> DEFINE f == Append(e, x)
<1>1. f \in Seq(S) /\ Len(e) \in Nat /\ DOMAIN e = 1..Len(e) /\ DOMAIN f = 1..(Len(e) + 1)
      /\ f[Len(e) + 1] = x /\ \A j \in DOMAIN e : f[j] = e[j]
  OBVIOUS
<1> HIDE DEF f
<1>2. Len(e) + 1 \in DOMAIN f /\ \A j \in DOMAIN e : j \in DOMAIN f
  BY <1>1
<1>3. \A j \in DOMAIN f : f[j] = x \/ (j \in DOMAIN e /\ f[j] = e[j])
  BY <1>1
<1>4. x \in Range(f) /\ \A s \in Range(e) : s \in Range(f)
  BY <1>1, <1>2 DEF Range
<1> QED
  BY <1>1, <1>3, <1>4 DEF f

-------------------------------------------------------------------------------
(* Each action keeps the invariant.                                          *)

\* Steps between two rounds may do what they like to a change that goes on, as long
\* as nothing counts as verified that was not.
LEMMA BetweenRounds ==
  ASSUME Inv, idle, pass' = pass,
         \A s \in Suffix : fromDevice'[s] => value'[s] = told'[s], m_stateChanges' \in Seq(Change),
         \A k \in DOMAIN m_stateChanges' :
            /\ m_stateChanges'[k].state \in Active
            /\ \A s \in DOMAIN m_stateChanges'[k].items :
                  m_stateChanges'[k].items[s].verified = "Synced" =>
                     heard'[s] = m_stateChanges'[k].items[s].target
  PROVE  PassOK' /\ ToldOK' /\ Changes'
<1>1. PassOK' /\ ToldOK'
  BY DEF Inv, PassOK, ToldOK, idle, NoPass
<1>2. ASSUME NEW k \in DOMAIN m_stateChanges' PROVE ChangeOK(k)'
  <2>1. m_stateChanges'[k].state # "Finished"
    BY DEF Active
  <2> QED
    BY <2>1 DEF ChangeOK, SyncedOK
<1> QED
  BY <1>1, <1>2 DEF Changes

\* What holds of the changes between two rounds.
LEMMA Idle ==
  ASSUME Inv, idle, NEW k \in DOMAIN m_stateChanges
  PROVE  /\ m_stateChanges[k] \in Change /\ m_stateChanges[k].state \in Active
         /\ SyncedOK(m_stateChanges[k], {})
<1>1. m_stateChanges[k] \in Change
  BY DEF Inv, Types
<1>2. ChangeOK(k) /\ k \in Nat
  BY DEF Inv, Changes, Types
<1>3. pass.at = 0 /\ pass.items = {} /\ Verified = {}
  BY DEF idle, NoPass, Verified
<1>4. k >= pass.at
  BY <1>2, <1>3
<1> QED
  BY <1>1, <1>2, <1>3, <1>4 DEF ChangeOK

\* Values may change as the device says; the changes have not heard of it yet.
LEMMA ValuesChange ==
  ASSUME Inv, idle, UNCHANGED <<pass, m_stateChanges, heard>>,
         \A s \in Suffix : fromDevice'[s] => value'[s] = told'[s]
  PROVE  PassOK' /\ ToldOK' /\ Changes'
<1>1. ASSUME NEW k \in DOMAIN m_stateChanges'
      PROVE  /\ m_stateChanges'[k].state \in Active
             /\ \A s \in DOMAIN m_stateChanges'[k].items :
                   m_stateChanges'[k].items[s].verified = "Synced" =>
                     heard'[s] = m_stateChanges'[k].items[s].target
  <2>1. k \in DOMAIN m_stateChanges /\ m_stateChanges' = m_stateChanges
    OBVIOUS
  <2>2. m_stateChanges[k] \in Change /\ m_stateChanges[k].state \in Active
        /\ SyncedOK(m_stateChanges[k], {})
    BY <2>1, Idle
  <2>3. DOMAIN m_stateChanges[k].items \subseteq Suffix
    BY <2>2, ItemsType
  <2> QED
    BY <2>1, <2>2, <2>3 DEF SyncedOK
<1>2. m_stateChanges' \in Seq(Change)
  BY DEF Inv, Types
<1> QED
  BY <1>1, <1>2, BetweenRounds

LEMMA InitInv == ASSUME Init PROVE Inv
<1>1. Types
  <2>1. m_stateChanges \in Seq(Change)
    <3>1. ASSUME NEW p \in Defaults PROVE <<newChange(p, "WaitSync")>> \in Seq(Change)
      <4>1. newChange(p, "WaitSync") \in Change
        BY NewChangeOK DEF Active
      <4> QED
        BY <4>1
    <3>2. <<>> \in Seq(Change)
      OBVIOUS
    <3>3. m_stateChanges = <<>> \/ \E p \in Defaults : m_stateChanges = <<newChange(p, "WaitSync")>>
      BY DEF Init
    <3> QED
      BY <3>1, <3>2, <3>3, Zenon
  <2>2. value \in [Suffix -> Value] /\ device \in [Suffix -> Value]
        /\ fromDevice \in [Suffix -> BOOLEAN]
        /\ told \in [Suffix -> Value] /\ heard \in [Suffix -> Value]
    BY StateChangeAssumption DEF Init
  <2> QED
    BY <2>1, <2>2 DEF Init, Types
<1>2. PassOK /\ ToldOK
  BY DEF Init, PassOK, ToldOK, idle, NoPass
<1>3. Changes
  <2>1. ASSUME NEW k \in DOMAIN m_stateChanges
        PROVE  \E p \in Defaults : m_stateChanges[k] = newChange(p, "WaitSync")
    BY DEF Init
  <2>2. ASSUME NEW k \in DOMAIN m_stateChanges
        PROVE  /\ m_stateChanges[k].state = "WaitSync"
               /\ \A s \in DOMAIN m_stateChanges[k].items : m_stateChanges[k].items[s].verified # "Synced"
    <3>1. PICK p \in Defaults : m_stateChanges[k] = newChange(p, "WaitSync")
      BY <2>1
    <3> QED
      BY <3>1, NewChangeOK DEF Active
  <2> QED
    BY <2>2 DEF Changes, ChangeOK, SyncedOK, Active
<1>4. Underway
  <2>1. Used(busy) = {}
    BY DEF Init, EmptyTable, Used
  <2>2. Cardinality({}) = 0 /\ IsFiniteSet({})
    BY FS_EmptySet
  <2>3. busy.count = Cardinality(Used(busy))
    <3>1. Cardinality(Used(busy)) = Cardinality({})
      BY <2>1, Zenon
    <3> QED
      BY <2>2, <3>1 DEF Init, EmptyTable
  <2>4. busy \in BusyType
    BY ApsBusyAssumption DEF Init, EmptyTable, BusyType
  <2>5. queue.busy = busy /\ queue.air = {} /\ queue \in Queues
    BY <2>4 DEF queue, Init, Queues
  <2>6. IsFiniteSet(queue.air) /\ Cardinality(queue.air) <= CoreQueue
    <3>1. IsFiniteSet(queue.air) /\ Cardinality(queue.air) = Cardinality({})
      BY <2>2, <2>5, Zenon
    <3> QED
      BY <2>2, <3>1, ApsBusyAssumption
  <2> QED
    BY <2>1, <2>3, <2>4, <2>5, <2>6 DEF Underway, QueueOK, TableOK, AllUnderway
<1> QED
  BY <1>1, <1>2, <1>3, <1>4 DEF Inv

LEMMA CheckStep == ASSUME Inv, CheckChange PROVE Inv'
<1> DEFINE k == pass.at
           c0 == m_stateChanges[k]
           c == IF pass.items = {} THEN c0 ELSE verifyItemChange(c0, CHOOSE s \in pass.items : TRUE)
<1>1. /\ k \in DOMAIN m_stateChanges /\ k \in Nat /\ c0 \in Change
      /\ pass \in [at : Nat, items : SUBSET Suffix, apsEnqueued : Nat]
  BY DEF CheckChange, Inv, Types
<1>2. c0.state \in Active /\ SyncedOK(c0, Verified)
  BY <1>1 DEF Inv, Changes, ChangeOK
<1>3. c \in Change /\ (c.state = "Finished" => AllSynced(c)) /\ SyncedOK(c, {})
  <2>1. CASE pass.items = {}
    <3>1. c = c0 /\ c0.state # "Finished" /\ Verified = {}
      BY <1>2, <2>1 DEF Active, Verified
    <3> QED
      BY <1>1, <1>2, <2>1, <3>1 DEF SyncedOK
  <2>2. CASE pass.items # {}
    <3> DEFINE s == CHOOSE s \in pass.items : TRUE
    <3>1. s \in pass.items
      BY <2>2
    <3>2. s \in Suffix /\ pass.items = {s}
      BY <1>1, <3>1 DEF Inv, PassOK
    <3>3. c = verifyItemChange(c0, s)
      BY <2>2
    <3> HIDE DEF s, c
    <3>4. SyncedOK(c0, {t \in {s} : fromDevice[t]})
      BY <1>2, <3>2 DEF SyncedOK, Verified
    <3>5. value \in [Suffix -> Value] /\ (fromDevice[s] => heard[s] = value[s])
      BY <3>1, <3>2 DEF Inv, Types, ToldOK
    <3> HIDE DEF c0
    <3> QED
      BY <1>1, <1>2, <3>2, <3>3, <3>4, <3>5, VerifyOK
  <2> QED
    BY <2>1, <2>2
<1>4. QueueOK(queue)
  BY DEF Inv, Underway
<1>5. TickStep(k, c)
  <2>1. (\E over \in BOOLEAN : tick(k, c, over)) \/ ticked(k, c, queue, 0)
    BY DEF CheckChange
  <2> HIDE DEF c
  <2>2. Keeps(c, c)
    BY <1>3 DEF Keeps
  <2> QED
    BY <1>3, <1>4, <2>1, <2>2, TickOK, TickStepIs
<1> HIDE DEF c
<1>6. PICK d \in Change, q \in Queues, n \in Nat :
        /\ ticked(k, d, q, n)
        /\ Keeps(c, d)
        /\ QueueOK(q) /\ (AllUnderway(queue) => AllUnderway(q))
  BY <1>5 DEF TickStep
<1>7. /\ m_stateChanges' = [m_stateChanges EXCEPT ![k] = d]
      /\ busy' = q.busy /\ air' = q.air
      /\ pass' = [pass EXCEPT !.at = k + 1, !.apsEnqueued = @ + n]
      /\ UNCHANGED <<value, fromDevice, told, heard, events, device, reachable, puts, lost>>
  BY <1>6 DEF ticked, CheckChange, item
<1>8. m_stateChanges' \in Seq(Change) /\ DOMAIN m_stateChanges' = DOMAIN m_stateChanges
      /\ m_stateChanges'[k] = d
      /\ \A j \in DOMAIN m_stateChanges \ {k} : m_stateChanges'[j] = m_stateChanges[j]
  <2>1. m_stateChanges \in Seq(Change)
    BY DEF Inv, Types
  <2>2. k \in DOMAIN m_stateChanges /\ m_stateChanges' = [m_stateChanges EXCEPT ![k] = d]
    BY <1>1, <1>7
  <2> HIDE DEF k
  <2> QED
    BY <2>1, <2>2, ExceptOK
<1>9. pass'.at = k + 1 /\ pass'.items = pass.items
      /\ pass' \in [at : Nat, items : SUBSET Suffix, apsEnqueued : Nat]
  <2>1. pass = [at |-> k, items |-> pass.items, apsEnqueued |-> pass.apsEnqueued]
        /\ pass.items \in SUBSET Suffix /\ pass.apsEnqueued \in Nat /\ k \in Nat
    BY <1>1
  <2>2. pass' = [at |-> k + 1, items |-> pass.items, apsEnqueued |-> pass.apsEnqueued + n]
    BY <2>1, <1>7
  <2>3. k + 1 \in Nat /\ pass.apsEnqueued + n \in Nat
    BY <2>1
  <2> QED
    BY <2>1, <2>2, <2>3
<1>10. Types'
  BY <1>7, <1>8, <1>9 DEF Inv, Types
<1>11. PassOK' /\ ToldOK' /\ Verified' = Verified
  BY <1>1, <1>7, <1>9 DEF Inv, PassOK, ToldOK, Verified
<1>12. Underway'
  <2>1. q = [busy |-> q.busy, air |-> q.air]
    BY DEF Queues
  <2>2. queue' = q
    BY <1>7, <2>1 DEF queue
  <2> QED
    BY <1>6, <1>7, <2>2 DEF Inv, Underway
<1>13. ASSUME NEW j \in DOMAIN m_stateChanges' PROVE ChangeOK(j)'
  <2>1. CASE j = k
    <3>1. ~(j >= pass'.at)
      BY <1>1, <1>9, <2>1
    <3>2. SyncedOK(d, {})'
      BY <1>3, <1>6, <1>7 DEF Keeps, SyncedOK
    <3>3. d.state = "Finished" => AllSynced(d)
      BY <1>3, <1>6 DEF Keeps, AllSynced
    <3> QED
      BY <1>8, <2>1, <3>1, <3>2, <3>3 DEF ChangeOK, AllSynced, SyncedOK
  <2>2. CASE j # k
    <3>1. j \in DOMAIN m_stateChanges /\ j \in Nat /\ m_stateChanges'[j] = m_stateChanges[j]
      BY <1>8, <2>2 DEF Inv, Types
    <3>2. ChangeOK(j)
      BY <3>1 DEF Inv, Changes
    <3>3. j >= pass'.at <=> j >= pass.at
      BY <1>1, <1>9, <2>2, <3>1
    <3> QED
      BY <1>7, <1>9, <1>11, <3>1, <3>2, <3>3 DEF ChangeOK, SyncedOK, AllSynced
  <2> QED
    BY <2>1, <2>2
<1> QED
  BY <1>10, <1>11, <1>12, <1>13 DEF Inv, Changes

LEMMA EventStep == ASSUME Inv, HandleItemEvent PROVE Inv'
<1> DEFINE h == Head(events)
<1>1. /\ idle /\ events # <<>> /\ events' = Tail(events)
      /\ pass' = [at |-> 1, items |-> {h}, apsEnqueued |-> 0]
      /\ heard' = IF fromDevice[h] THEN [heard EXCEPT ![h] = told[h]] ELSE heard
      /\ UNCHANGED <<m_stateChanges, value, fromDevice, told, busy, air, device, reachable, puts,
                     happened, lost>>
  BY DEF HandleItemEvent, environment, item
<1>2. h \in Suffix /\ Tail(events) \in Seq(Suffix)
  BY <1>1, TailOK DEF Inv, Types
<1> HIDE DEF h
<1>3. pass'.at = 1 /\ pass'.items = {h}
      /\ pass' \in [at : Nat, items : SUBSET Suffix, apsEnqueued : Nat]
  BY <1>1, <1>2
<1>a. /\ heard' \in [Suffix -> Value]
      /\ \A s \in Suffix : s = h \/ heard'[s] = heard[s]
      /\ IF fromDevice[h] THEN heard'[h] = told[h] ELSE heard' = heard
  BY <1>1, <1>2 DEF Inv, Types
<1>4. Types'
  BY <1>1, <1>2, <1>3, <1>a DEF Inv, Types
<1>5. PassOK' /\ ToldOK'
  BY <1>1, <1>3, <1>a DEF PassOK, Inv, ToldOK
<1>6. Underway'
  BY <1>1 DEF Inv, Underway, queue
<1>b. Verified' = {s \in {h} : fromDevice[s]}
  BY <1>1, <1>3 DEF Verified
<1>7. ASSUME NEW k \in DOMAIN m_stateChanges' PROVE ChangeOK(k)'
  <2>1. k \in DOMAIN m_stateChanges /\ m_stateChanges' = m_stateChanges
    BY <1>1
  <2>2. m_stateChanges[k] \in Change /\ m_stateChanges[k].state \in Active
        /\ SyncedOK(m_stateChanges[k], {})
    BY <1>1, <2>1, Idle
  <2>3. k >= pass'.at
    BY <2>1, <1>3 DEF Inv, Types
  <2> DEFINE c == m_stateChanges[k]
  <2>a. m_stateChanges'[k] = c /\ c.state \in Active /\ SyncedOK(c, {}) /\ DOMAIN c.items \subseteq Suffix
    BY <1>1, <2>2, ItemsType
  <2> HIDE DEF c
  <2>4. \A s \in DOMAIN c.items : c.items[s].verified = "Synced" =>
          heard'[s] = c.items[s].target \/ s \in Verified'
    BY <2>a, <1>a, <1>b DEF SyncedOK
  <2>5. c.state # "Finished"
    BY <2>a DEF Active
  <2> QED
    BY <2>a, <2>3, <2>4, <2>5 DEF ChangeOK, SyncedOK
<1> QED
  BY <1>4, <1>5, <1>6, <1>7 DEF Inv, Changes

LEMMA PollStep == ASSUME Inv, Poll PROVE Inv'
<1>1. /\ idle
      /\ pass' = [at |-> 1, items |-> {}, apsEnqueued |-> 0]
      /\ UNCHANGED <<m_stateChanges, value, fromDevice, told, heard, events, busy, air, device,
                    reachable, puts, happened, lost>>
  BY DEF Poll, environment, item
<1>2. pass'.at = 1 /\ pass'.items = {}
      /\ pass' \in [at : Nat, items : SUBSET Suffix, apsEnqueued : Nat]
  BY <1>1
<1>3. Types' /\ Underway'
  BY <1>1, <1>2 DEF Inv, Types, Underway, queue
<1>4. PassOK' /\ ToldOK'
  BY <1>1, <1>2 DEF PassOK, Inv, ToldOK
<1>5. ASSUME NEW k \in DOMAIN m_stateChanges' PROVE ChangeOK(k)'
  <2>1. k \in DOMAIN m_stateChanges /\ m_stateChanges' = m_stateChanges
    BY <1>1
  <2>2. m_stateChanges[k].state \in Active /\ SyncedOK(m_stateChanges[k], {})
    BY <1>1, <2>1, Idle
  <2>3. m_stateChanges[k].state # "Finished"
    BY <2>2 DEF Active
  <2> QED
    BY <1>1, <1>2, <2>1, <2>2, <2>3 DEF ChangeOK, SyncedOK
<1> QED
  BY <1>3, <1>4, <1>5 DEF Inv, Changes

LEMMA CleanupStep == ASSUME Inv, cleanupStateChanges PROVE Inv'
<1> DEFINE ks == {k \in DOMAIN m_stateChanges : m_stateChanges[k].state \in Active}
<1>1. /\ pass.at = Len(m_stateChanges) + 1 /\ m_stateChanges' = kept(ks) /\ pass' = NoPass
      /\ UNCHANGED <<value, fromDevice, told, heard, events, busy, air, device, reachable, puts,
                     happened, lost>>
  BY DEF cleanupStateChanges, environment, item
<1>2. m_stateChanges \in Seq(Change) /\ ks \in SUBSET (DOMAIN m_stateChanges)
  BY DEF Inv, Types
<1>3. \A k \in ks : m_stateChanges[k].state \in Active
  OBVIOUS
<1> HIDE DEF ks
<1>4. /\ m_stateChanges' \in Seq(Change)
      /\ \A n \in DOMAIN m_stateChanges' : \E k \in ks : m_stateChanges'[n] = m_stateChanges[k]
  BY <1>1, <1>2, KeptOK
<1>5. pass'.at = 0 /\ pass'.items = {}
      /\ pass' \in [at : Nat, items : SUBSET Suffix, apsEnqueued : Nat]
  BY <1>1 DEF NoPass
<1>6. Types' /\ Underway'
  BY <1>1, <1>4, <1>5 DEF Inv, Types, Underway, queue
<1>7. PassOK' /\ ToldOK'
  BY <1>1, <1>5 DEF PassOK, idle, Inv, ToldOK
<1>8. ASSUME NEW n \in DOMAIN m_stateChanges' PROVE ChangeOK(n)'
  <2>1. PICK k \in ks : m_stateChanges'[n] = m_stateChanges[k]
    BY <1>4
  <2>2. k \in DOMAIN m_stateChanges /\ k \in Nat /\ k < pass.at
    BY <1>1, <1>2
  <2>3. SyncedOK(m_stateChanges[k], {})
    <3>1. ChangeOK(k) /\ ~(k >= pass.at)
      BY <2>2 DEF Inv, Changes, Types
    <3> QED
      BY <3>1 DEF ChangeOK
  <2>4. m_stateChanges[k].state \in Active /\ m_stateChanges[k].state # "Finished"
    BY <1>3 DEF Active
  <2> QED
    BY <1>1, <1>5, <2>1, <2>3, <2>4 DEF ChangeOK, SyncedOK
<1> QED
  BY <1>6, <1>7, <1>8 DEF Inv, Changes

LEMMA RemoveStep ==
  ASSUME Inv, NEW s \in Suffix, removeStateChangesForItem(s)
  PROVE  Inv'
<1> DEFINE ks == {k \in DOMAIN m_stateChanges : s \notin DOMAIN m_stateChanges[k].items}
<1>1. /\ idle /\ m_stateChanges' = kept(ks) /\ pass' = pass
      /\ UNCHANGED <<value, fromDevice, told, heard, events, busy, air, device, reachable, puts,
                     happened, lost>>
  BY DEF removeStateChangesForItem, environment, item
<1>2. m_stateChanges \in Seq(Change) /\ ks \in SUBSET (DOMAIN m_stateChanges)
  BY DEF Inv, Types
<1> HIDE DEF ks
<1>3. /\ m_stateChanges' \in Seq(Change)
      /\ \A n \in DOMAIN m_stateChanges' : \E k \in ks : m_stateChanges'[n] = m_stateChanges[k]
  BY <1>1, <1>2, KeptOK
<1>4. Types' /\ Underway'
  BY <1>1, <1>3 DEF Inv, Types, Underway, queue
<1>5. ASSUME NEW n \in DOMAIN m_stateChanges'
      PROVE  /\ m_stateChanges'[n].state \in Active
             /\ \A t \in DOMAIN m_stateChanges'[n].items :
                   m_stateChanges'[n].items[t].verified = "Synced" =>
                     heard'[t] = m_stateChanges'[n].items[t].target
  <2>1. PICK k \in ks : m_stateChanges'[n] = m_stateChanges[k]
    BY <1>3
  <2>2. m_stateChanges[k].state \in Active /\ SyncedOK(m_stateChanges[k], {})
    BY <1>1, <1>2, Idle
  <2> QED
    BY <1>1, <2>1, <2>2 DEF SyncedOK
<1>6. PassOK' /\ ToldOK' /\ Changes'
  <2>1. \A t \in Suffix : fromDevice'[t] => value'[t] = told'[t]
    BY <1>1 DEF Inv, ToldOK
  <2> QED
    BY <1>1, <1>3, <1>5, <2>1, BetweenRounds
<1> QED
  BY <1>4, <1>6 DEF Inv

LEMMA TimeoutStep ==
  ASSUME Inv, NEW k, ChangeTimeout(k)
  PROVE  Inv'
<1> DEFINE c == m_stateChanges[k]
           d == [c EXCEPT !.changeOver = TRUE]
<1>1. /\ idle /\ k \in DOMAIN m_stateChanges /\ pass' = pass
      /\ m_stateChanges' = [m_stateChanges EXCEPT ![k] = d]
      /\ UNCHANGED <<value, fromDevice, told, heard, events, busy, air, device, reachable, puts,
                     happened, lost>>
  BY DEF ChangeTimeout, environment, item
<1>2. c \in Change /\ m_stateChanges \in Seq(Change)
  BY <1>1 DEF Inv, Types
<1>3. d \in Change /\ d.items = c.items /\ d.state = c.state
  <2> HIDE DEF c
  <2>2. d = [items |-> c.items, state |-> c.state, changeOver |-> TRUE]
    BY <1>2, OverIs, Zenon
  <2> HIDE DEF d
  <2>3. d \in Change
    BY <1>2, <2>2, ItemsType, ChangeType
  <2> QED
    BY <2>2, <2>3
<1> HIDE DEF d
<1>4. m_stateChanges' \in Seq(Change) /\ DOMAIN m_stateChanges' = DOMAIN m_stateChanges
      /\ m_stateChanges'[k] = d
      /\ \A j \in DOMAIN m_stateChanges \ {k} : m_stateChanges'[j] = m_stateChanges[j]
  BY <1>1, <1>2, <1>3, ExceptOK
<1>5. Types' /\ Underway'
  BY <1>1, <1>4 DEF Inv, Types, Underway, queue
<1>6. ASSUME NEW n \in DOMAIN m_stateChanges'
      PROVE  /\ m_stateChanges'[n].state \in Active
             /\ \A t \in DOMAIN m_stateChanges'[n].items :
                   m_stateChanges'[n].items[t].verified = "Synced" =>
                     heard'[t] = m_stateChanges'[n].items[t].target
  <2>1. n \in DOMAIN m_stateChanges
        /\ m_stateChanges'[n].items = m_stateChanges[n].items
        /\ m_stateChanges'[n].state = m_stateChanges[n].state
    BY <1>3, <1>4
  <2>2. m_stateChanges[n].state \in Active /\ SyncedOK(m_stateChanges[n], {})
    BY <1>1, <2>1, Idle
  <2> QED
    BY <1>1, <2>1, <2>2 DEF SyncedOK
<1>7. PassOK' /\ ToldOK' /\ Changes'
  <2>1. \A t \in Suffix : fromDevice'[t] => value'[t] = told'[t]
    BY <1>1 DEF Inv, ToldOK
  <2> QED
    BY <1>1, <1>4, <1>6, <2>1, BetweenRounds
<1> QED
  BY <1>5, <1>7 DEF Inv

LEMMA AddStep == ASSUME Inv, addStateChange PROVE Inv'
<1>1. PICK targets \in Puts, state \in {"CallFunction", "WaitSync"} :
        LET ss   == DOMAIN targets
            c    == newChange(targets, state)
            same == {k \in DOMAIN m_stateChanges : equal(m_stateChanges[k], c)}
        IN  /\ idle
            /\ m_stateChanges' = IF same # {} THEN [m_stateChanges EXCEPT ![Min(same)] = c]
                                              ELSE Append(m_stateChanges, c)
            /\ value' = [s \in Suffix |-> IF s \in ss \cap Local THEN targets[s] ELSE value[s]]
            /\ fromDevice' = [s \in Suffix |-> fromDevice[s] /\ value'[s] = value[s]]
            /\ UNCHANGED <<pass, told, heard, events, busy, air, device, lost>>
  BY DEF addStateChange
<1> DEFINE ss == DOMAIN targets
           c == newChange(targets, state)
           same == {k \in DOMAIN m_stateChanges : equal(m_stateChanges[k], c)}
<1>2. /\ idle
      /\ m_stateChanges' = IF same # {} THEN [m_stateChanges EXCEPT ![Min(same)] = c]
                                        ELSE Append(m_stateChanges, c)
      /\ UNCHANGED <<pass, told, heard, events, busy, air, device, lost>>
  BY <1>1
<1>3. /\ value' = [s \in Suffix |-> IF s \in ss \cap Local THEN targets[s] ELSE value[s]]
      /\ fromDevice' = [s \in Suffix |-> fromDevice[s] /\ value'[s] = value[s]]
  BY <1>1
<1>4. ss \subseteq Suffix /\ \A s \in ss : targets[s] \in Value
  BY StateChangeAssumption
<1>5. value' \in [Suffix -> Value] /\ fromDevice' \in [Suffix -> BOOLEAN]
  BY <1>3, <1>4 DEF Inv, Types
<1>6. \A s \in Suffix : fromDevice'[s] => value'[s] = told'[s]
  BY <1>2, <1>3 DEF Inv, ToldOK
<1>7. /\ c \in Change /\ c.state \in Active
      /\ \A s \in DOMAIN c.items : c.items[s].verified # "Synced"
  <2>1. state \in Active /\ targets \in Puts \cup Defaults
    BY DEF Active
  <2>2. c = newChange(targets, state)
    OBVIOUS
  <2> HIDE DEF c
  <2> QED
    BY <2>1, <2>2, NewChangeOK
<1>8. same \subseteq DOMAIN m_stateChanges
  OBVIOUS
<1> HIDE DEF c, same
<1>9. /\ m_stateChanges' \in Seq(Change)
      /\ \A k \in DOMAIN m_stateChanges' :
           \/ m_stateChanges'[k] = c
           \/ k \in DOMAIN m_stateChanges /\ m_stateChanges'[k] = m_stateChanges[k]
  <2>0. m_stateChanges \in Seq(Change)
    BY DEF Inv, Types
  <2>1. CASE same # {}
    <3>1. same \in SUBSET Nat
      BY <1>8, <2>0
    <3>2. Min(same) \in DOMAIN m_stateChanges
      BY <2>1, <3>1, <1>8, MinIn
    <3>3. m_stateChanges' = [m_stateChanges EXCEPT ![Min(same)] = c]
      BY <1>2, <2>1
    <3> QED
      BY <1>7, <2>0, <3>2, <3>3, ExceptOK
  <2>2. CASE same = {}
    <3>1. m_stateChanges' = Append(m_stateChanges, c)
      BY <1>2, <2>2
    <3> QED
      BY <1>7, <2>0, <3>1, AppendOK
  <2> QED
    BY <2>1, <2>2
<1>10. ASSUME NEW n \in DOMAIN m_stateChanges'
       PROVE  /\ m_stateChanges'[n].state \in Active
              /\ \A t \in DOMAIN m_stateChanges'[n].items :
                    m_stateChanges'[n].items[t].verified = "Synced" =>
                     heard'[t] = m_stateChanges'[n].items[t].target
  <2>1. CASE m_stateChanges'[n] = c
    BY <1>7, <2>1
  <2>2. CASE n \in DOMAIN m_stateChanges /\ m_stateChanges'[n] = m_stateChanges[n]
    <3>1. /\ m_stateChanges[n] \in Change /\ m_stateChanges[n].state \in Active
          /\ SyncedOK(m_stateChanges[n], {})
      BY <1>2, <2>2, Idle
    <3>2. DOMAIN m_stateChanges[n].items \subseteq Suffix
      BY <3>1, ItemsType
    <3>3. heard' = heard
      BY <1>2
    <3> QED
      BY <2>2, <3>1, <3>2, <3>3 DEF SyncedOK
  <2> QED
    BY <1>9, <2>1, <2>2
<1>11. Types'
  BY <1>2, <1>5, <1>9 DEF Inv, Types
<1>12. Underway'
  BY <1>2 DEF Inv, Underway, queue
<1>13. PassOK' /\ ToldOK' /\ Changes'
  BY <1>2, <1>6, <1>9, <1>10, BetweenRounds
<1> QED
  BY <1>11, <1>12, <1>13 DEF Inv

\* The device says its value of an item.
LEMMA Heard ==
  ASSUME value \in [Suffix -> Value], told \in [Suffix -> Value], fromDevice \in [Suffix -> BOOLEAN],
         \A s \in Suffix : fromDevice[s] => value[s] = told[s],
         NEW x \in Suffix, NEW v \in Value,
         value' = [value EXCEPT ![x] = v], told' = [told EXCEPT ![x] = v],
         fromDevice' = [fromDevice EXCEPT ![x] = TRUE]
  PROVE  /\ value' \in [Suffix -> Value] /\ told' \in [Suffix -> Value]
         /\ fromDevice' \in [Suffix -> BOOLEAN]
         /\ \A s \in Suffix : fromDevice'[s] => value'[s] = told'[s]
<1>1. value' \in [Suffix -> Value] /\ told' \in [Suffix -> Value] /\ fromDevice' \in [Suffix -> BOOLEAN]
  OBVIOUS
<1>2. \A s \in Suffix \ {x} : value'[s] = value[s] /\ told'[s] = told[s] /\ fromDevice'[s] = fromDevice[s]
  OBVIOUS
<1>3. value'[x] = v /\ told'[x] = v
  OBVIOUS
<1> QED
  BY <1>1, <1>2, <1>3

\* A request that got through may have been answered.
LEMMA DeliveredOK ==
  ASSUME Inv, NEW r \in air, delivered(r)
  PROVE  /\ value' \in [Suffix -> Value] /\ device' \in [Suffix -> Value]
         /\ told' \in [Suffix -> Value]
         /\ fromDevice' \in [Suffix -> BOOLEAN] /\ events' \in Seq(Suffix)
         /\ \A s \in Suffix : fromDevice'[s] => value'[s] = told'[s]
<1>1. r.suffix \in Suffix /\ r.target \in Value
  BY DEF Inv, Underway, QueueOK, Queues, queue, Request
<1>2. /\ value \in [Suffix -> Value] /\ device \in [Suffix -> Value] /\ told \in [Suffix -> Value]
      /\ fromDevice \in [Suffix -> BOOLEAN] /\ events \in Seq(Suffix)
      /\ \A s \in Suffix : fromDevice[s] => value[s] = told[s]
  BY DEF Inv, Types, ToldOK
<1>3. device' \in [Suffix -> Value]
  BY <1>1, <1>2 DEF delivered
<1>4. CASE r.kind = "read"
  <2>1. /\ value' = [value EXCEPT ![r.suffix] = device[r.suffix]]
        /\ fromDevice' = [fromDevice EXCEPT ![r.suffix] = TRUE]
        /\ told' = [told EXCEPT ![r.suffix] = device[r.suffix]]
        /\ events' = Append(events, r.suffix)
    BY <1>4 DEF delivered
  <2>2. events' \in Seq(Suffix)
    BY <1>1, <1>2, <2>1, AppendOK
  <2> QED
    BY <1>1, <1>2, <1>3, <2>1, <2>2, Heard
<1>5. CASE r.kind # "read"
  <2>1. UNCHANGED <<value, fromDevice, told, events>>
    BY <1>5 DEF delivered, item
  <2> QED
    BY <1>2, <1>3, <2>1
<1> QED
  BY <1>4, <1>5

LEMMA ConfirmStep ==
  ASSUME Inv, NEW r \in air, Confirm(r)
  PROVE  Inv'
<1>1. /\ idle /\ air' = air \ {r} /\ busy' = DA_ApsRequestConfirmed(busy, r.to, r.id)
      /\ UNCHANGED <<pass, m_stateChanges, heard>>
  BY DEF Confirm
<1>2. lost' \in Nat /\ (lost' = 0 => lost = 0)
  BY DEF Confirm, Inv, Types
<1>3. /\ value' \in [Suffix -> Value] /\ device' \in [Suffix -> Value]
      /\ told' \in [Suffix -> Value]
      /\ fromDevice' \in [Suffix -> BOOLEAN] /\ events' \in Seq(Suffix)
      /\ \A s \in Suffix : fromDevice'[s] => value'[s] = told'[s]
  <2>1. CASE delivered(r)
    BY <2>1, DeliveredOK
  <2>2. CASE UNCHANGED <<device, item, events>>
    BY <2>2 DEF Inv, Types, ToldOK, item
  <2> QED
    BY <2>1, <2>2 DEF Confirm
<1>4. Types'
  BY <1>1, <1>2, <1>3 DEF Inv, Types
<1>5. PassOK' /\ ToldOK' /\ Changes'
  BY <1>1, <1>3, ValuesChange
<1>6. Underway'
  <2>1. queue' = [busy |-> DA_ApsRequestConfirmed(queue.busy, r.to, r.id), air |-> queue.air \ {r}]
        /\ r \in queue.air
    BY <1>1 DEF queue
  <2>2. QueueOK(queue) /\ (lost = 0 => AllUnderway(queue))
    BY DEF Inv, Underway
  <2>3. QueueOK(queue') /\ (AllUnderway(queue) => AllUnderway(queue'))
    BY <2>1, <2>2, ConfirmOK
  <2> QED
    BY <1>2, <2>2, <2>3 DEF Underway
<1> QED
  BY <1>4, <1>5, <1>6 DEF Inv

LEMMA ConfirmLostStep ==
  ASSUME Inv, NEW r \in air, ConfirmLost(r)
  PROVE  Inv'
<1>1. /\ idle /\ air' = air \ {r} /\ busy' = busy /\ delivered(r) /\ lost' = lost + 1
      /\ UNCHANGED <<pass, m_stateChanges, heard>>
  BY DEF ConfirmLost
<1>2. lost' \in Nat /\ lost' # 0
  BY <1>1 DEF Inv, Types
<1>3. Types'
  BY <1>1, <1>2, DeliveredOK DEF Inv, Types
<1>4. PassOK' /\ ToldOK' /\ Changes'
  BY <1>1, DeliveredOK, ValuesChange
<1>5. Underway'
  <2>1. queue' = [busy |-> queue.busy, air |-> queue.air \ {r}] /\ r \in queue.air
    BY <1>1 DEF queue
  <2>2. QueueOK(queue)
    BY DEF Inv, Underway
  <2>3. QueueOK(queue')
    BY <2>1, <2>2, LostOK
  <2> QED
    BY <1>2, <2>3 DEF Underway
<1> QED
  BY <1>3, <1>4, <1>5 DEF Inv

LEMMA SlotTimeoutStep ==
  ASSUME Inv, NEW i \in Slot, SlotTimeout(i)
  PROVE  Inv'
<1>1. /\ idle /\ busy.table[i] # Free /\ busy' = GrowsOld(busy, i)
      /\ UNCHANGED <<pass, m_stateChanges, value, fromDevice, told, heard, events, air, device, lost>>
  BY DEF SlotTimeout, environment, item
<1>2. Types'
  BY <1>1 DEF Inv, Types
<1>3. PassOK' /\ ToldOK' /\ Changes'
  BY <1>1, ValuesChange DEF Inv, ToldOK
<1>4. Underway'
  <2>1. queue' = [busy |-> GrowsOld(queue.busy, i), air |-> queue.air] /\ queue.busy.table[i] # Free
    BY <1>1 DEF queue
  <2>2. QueueOK(queue) /\ (lost = 0 => AllUnderway(queue))
    BY DEF Inv, Underway
  <2>3. QueueOK(queue') /\ (AllUnderway(queue) => AllUnderway(queue'))
    BY <2>1, <2>2, OldOK
  <2> QED
    BY <1>1, <2>2, <2>3 DEF Underway
<1> QED
  BY <1>2, <1>3, <1>4 DEF Inv

LEMMA OtherStep == ASSUME Inv, OtherRequest PROVE Inv'
<1> DEFINE s == CHOOSE x \in Suffix : TRUE
           q == enqueue(queue, Other, "other", s, Initial)
<1>1. /\ idle /\ air = {} /\ busy' = q.busy /\ air' = q.air
      /\ UNCHANGED <<pass, m_stateChanges, value, fromDevice, told, heard, events, device, lost>>
  BY DEF OtherRequest, environment, item
<1>2. s \in Suffix /\ Other \in Address /\ "other" \in Kind /\ Initial \in Value
  BY StateChangeAssumption DEF Kind
<1>3. QueueOK(queue) /\ (lost = 0 => AllUnderway(queue))
  BY DEF Inv, Underway
<1>4. Cardinality(queue.air) + 1 <= CoreQueue
  <2>1. queue.air = {}
    BY <1>1 DEF queue
  <2>2. Cardinality(queue.air) = 0
    BY <2>1, FS_EmptySet, Zenon
  <2> QED
    BY <2>2, ApsBusyAssumption
<1>5. q = enqueue(queue, Other, "other", s, Initial)
  OBVIOUS
<1> HIDE DEF s, q
<1>6. QueueOK(q) /\ (AllUnderway(queue) => AllUnderway(q))
  BY <1>2, <1>3, <1>4, <1>5, EnqueueOK
<1>7. Types'
  BY <1>1 DEF Inv, Types
<1>8. PassOK' /\ ToldOK' /\ Changes'
  BY <1>1, ValuesChange DEF Inv, ToldOK
<1>9. Underway'
  <2>1. q = [busy |-> q.busy, air |-> q.air]
    BY <1>6 DEF QueueOK, Queues
  <2>2. queue' = q
    BY <1>1, <2>1 DEF queue
  <2> QED
    BY <1>1, <1>3, <1>6, <2>2 DEF Underway
<1> QED
  BY <1>7, <1>8, <1>9 DEF Inv

LEMMA ReportStep ==
  ASSUME Inv, NEW s \in Suffix, Report(s)
  PROVE  Inv'
<1>1. /\ idle
      /\ value' = [value EXCEPT ![s] = device[s]]
      /\ fromDevice' = [fromDevice EXCEPT ![s] = TRUE]
      /\ told' = [told EXCEPT ![s] = device[s]]
      /\ events' = Append(events, s)
      /\ UNCHANGED <<pass, m_stateChanges, heard, busy, air, device, lost>>
  BY DEF Report, environment
<1>2. /\ value \in [Suffix -> Value] /\ device \in [Suffix -> Value] /\ told \in [Suffix -> Value]
      /\ fromDevice \in [Suffix -> BOOLEAN] /\ events \in Seq(Suffix)
      /\ \A t \in Suffix : fromDevice[t] => value[t] = told[t]
  BY DEF Inv, Types, ToldOK
<1>3. events' \in Seq(Suffix)
  BY <1>1, <1>2, AppendOK
<1>4. /\ value' \in [Suffix -> Value] /\ told' \in [Suffix -> Value]
      /\ fromDevice' \in [Suffix -> BOOLEAN]
      /\ \A t \in Suffix : fromDevice'[t] => value'[t] = told'[t]
  BY <1>1, <1>2, Heard
<1>5. Types' /\ Underway'
  BY <1>1, <1>3, <1>4 DEF Inv, Types, Underway, queue
<1>6. PassOK' /\ ToldOK' /\ Changes'
  BY <1>1, <1>4, ValuesChange
<1> QED
  BY <1>5, <1>6 DEF Inv

\* The device changes, goes away or comes back: the gateway does not know.
LEMMA DeviceStep ==
  ASSUME Inv, idle, device' \in [Suffix -> Value],
         UNCHANGED <<pass, m_stateChanges, value, fromDevice, told, heard, events, busy, air, lost>>
  PROVE  Inv'
<1>1. Types' /\ Underway'
  BY DEF Inv, Types, Underway, queue
<1>2. PassOK' /\ ToldOK' /\ Changes'
  BY ValuesChange DEF Inv, ToldOK
<1> QED
  BY <1>1, <1>2 DEF Inv

LEMMA NextStep == ASSUME Inv, [Next]_vars PROVE Inv'
<1>1. CASE \E s \in Suffix : DeviceChanges(s)
  <2>1. PICK s \in Suffix : DeviceChanges(s)
    BY <1>1
  <2>2. /\ idle /\ \E v \in Value : device' = [device EXCEPT ![s] = v]
        /\ UNCHANGED <<pass, m_stateChanges, value, fromDevice, told, heard, events, busy, air, lost>>
    BY <2>1 DEF DeviceChanges, item
  <2>3. device' \in [Suffix -> Value]
    BY <2>2 DEF Inv, Types
  <2> QED
    BY <2>2, <2>3, DeviceStep
<1>2. CASE Unreachable
  <2>1. /\ idle /\ device' = device
        /\ UNCHANGED <<pass, m_stateChanges, value, fromDevice, told, heard, events, busy, air, lost>>
    BY <1>2 DEF Unreachable, item
  <2>2. device' \in [Suffix -> Value]
    BY <2>1 DEF Inv, Types
  <2> QED
    BY <2>1, <2>2, DeviceStep
<1>3. CASE ReachableAgain
  <2>1. /\ idle /\ device' = device
        /\ UNCHANGED <<pass, m_stateChanges, value, fromDevice, told, heard, events, busy, air, lost>>
    BY <1>3 DEF ReachableAgain, item
  <2>2. device' \in [Suffix -> Value]
    BY <2>1 DEF Inv, Types
  <2> QED
    BY <2>1, <2>2, DeviceStep
<1>4. CASE UNCHANGED vars
  BY <1>4 DEF vars, item, Inv, Types, PassOK, ToldOK, Verified, idle, Changes, ChangeOK, SyncedOK, AllSynced, Underway, queue
<1> QED
  BY <1>1, <1>2, <1>3, <1>4, AddStep, RemoveStep, EventStep, PollStep, CheckStep, CleanupStep,
     TimeoutStep, ConfirmStep, ConfirmLostStep, SlotTimeoutStep, OtherStep, ReportStep DEF Next

-------------------------------------------------------------------------------
\* Inv is an invariant: the busy table and its counter agree with the requests under
\* way, and every change, its items and what was read of them stay in step
\* (StateChange::tick(), Resource::cleanupStateChanges(), DA_ApsRequestConfirmed()).
THEOREM InvHolds == Spec => []Inv
<1>1. Init => Inv
  BY InitInv
<1>2. Inv /\ [Next]_vars => Inv'
  BY NextStep
<1> QED
  BY <1>1, <1>2, PTL DEF Spec

\* _DA_ApsUnconfirmedCount (device_access_fn.cpp) is the number of used slots, and
\* without a lost confirm every used slot is for a request under way: for any table
\* size, queue length, number of items and order of requests and confirms.
THEOREM CountersRight == Spec => []UnconfirmedCounted
<1>1. ASSUME Inv PROVE UnconfirmedCounted
  <2>1. QueueOK(queue) /\ (lost = 0 => AllUnderway(queue)) /\ queue.busy = busy /\ queue.air = air
    BY <1>1 DEF Inv, Underway, queue
  <2>2. busy.count = Cardinality(Used(busy))
    BY <2>1 DEF QueueOK, TableOK
  <2>3. lost = 0 => \A i \in Used(busy) : busy.table[i].id \in {r.id : r \in air}
    BY <2>1 DEF AllUnderway
  <2> QED
    BY <2>2, <2>3 DEF UnconfirmedCounted, Used
<1> QED
  BY <1>1, InvHolds, PTL

\* StateChange::verifyItemChange() finishes a change on the word of the device alone:
\* the last thing its items heard from the device is the target of each, for any
\* items, values written by the API, changes of the same items, losses and repeats.
THEOREM FinishedTrue == Spec => []FinishedIsTrue
<1>1. ASSUME Inv, NEW k \in DOMAIN m_stateChanges, m_stateChanges[k].state = "Finished",
             NEW s \in DOMAIN m_stateChanges[k].items
      PROVE  heard[s] = m_stateChanges[k].items[s].target
  <2>1. ChangeOK(k)
    BY <1>1 DEF Inv, Changes
  <2>2. ~(k >= pass.at)
    BY <1>1, <2>1 DEF ChangeOK, Active
  <2> QED
    BY <1>1, <2>1, <2>2 DEF ChangeOK, AllSynced, SyncedOK
<1>2. Inv => FinishedIsTrue
  BY <1>1 DEF FinishedIsTrue, Range
<1> QED
  BY <1>2, InvHolds, PTL

===============================================================================
