---------------------------- MODULE SaveQueueProofs ---------------------------
(***************************************************************************)
(* What the delayed saving may lose and what not, and that an import is     *)
(* what the next start works with, for any data and any course of failing   *)
(* statements, refused transactions, exports, imports, restarts and crashes.*)
(***************************************************************************)
EXTENDS SaveQueue, TLAPS

(* Without an open transaction the connection shows what is committed.      *)
StoreGood(s) == s \in StoreType /\ (s.autocommit => s.view = s.disk)

(* Flagged, or lost by a failing statement or a closed connection.         *)
Marked(s) ==
    (s.items \ Devices) \cup s.needSave \cup s.needStore \cup s.failed \cup s.undone

(* What memory m has of datum x is what the connection has, unless x is     *)
(* marked.  It is the connection that counts, not the database: a value     *)
(* that was changed and changed back is in the database again, but not in   *)
(* an open transaction.                                                     *)
KeptAt(s, m, x) == x \notin Marked(s) => m[x] = s.view[x]

Kept(s, m) == \A x \in Data : KeptAt(s, m, x)

(* After an import: memory's sections stay out of the database.             *)
Protected(s) ==
    s.nosave /\ \A x \in Section : s.view[x] = Imported /\ s.disk[x] = Imported

StoreInv ==
    /\ mem \in Content /\ delayed \in BOOLEAN /\ imported \in BOOLEAN
    /\ StoreGood(st)
    /\ ~imported => Kept(st, mem)
    /\ imported => Protected(st)

-----------------------------------------------------------------------------
(* What the operators on the store preserve.                               *)

LEMMA OpenDbKeeps ==
  ASSUME NEW s, StoreGood(s), NEW m
  PROVE  /\ StoreGood(openDb(s))
         /\ Kept(s, m) => Kept(openDb(s), m)
         /\ Protected(s) => Protected(openDb(s))
BY DEF StoreGood, StoreType, openDb, Kept, KeptAt, Marked, Protected

LEMMA QueueKeeps ==
  ASSUME NEW s, StoreGood(s), NEW m, NEW xs \in SUBSET Section
  PROVE  /\ StoreGood(queSaveDb(s, xs))
         /\ Kept(s, m) => Kept(queSaveDb(s, xs), m)
BY DEF StoreGood, StoreType, queSaveDb, Kept, KeptAt, Marked

LEMMA CommitKeeps ==
  ASSUME NEW s, s \in StoreType, NEW m, NEW c \in commits(s)
  PROVE  /\ StoreGood(c)
         /\ c.items = s.items
         /\ c.nosave = s.nosave
         /\ Kept(s, m) => Kept(c, m)
BY DEF StoreGood, StoreType, commits, commit, Kept, KeptAt, Marked, Content

(* A direct store of the items xs, of which memory may have changed just    *)
(* now: what else was kept remains so.                                     *)
LEMMA StoredKeeps ==
  ASSUME NEW s, StoreGood(s), NEW m \in Content, NEW xs \in SUBSET Item,
         \A x \in Data \ xs : KeptAt(s, m, x)
  PROVE  Kept(stored(s, xs, m), m)
<1> DEFINE s1 == [s EXCEPT !.view = [x \in Data |-> IF x \in xs THEN m[x] ELSE @[x]],
                           !.needStore = @ \ xs, !.undone = @ \ xs]
<1>1. SUFFICES ASSUME NEW x \in Data PROVE KeptAt(stored(s, xs, m), m, x)
  BY DEF Kept
<1>2. s1 \in StoreType /\ s1.view = [y \in Data |-> IF y \in xs THEN m[y] ELSE s.view[y]]
      /\ s1.needStore = s.needStore \ xs /\ s1.undone = s.undone \ xs
      /\ s1.disk = s.disk /\ s1.items = s.items /\ s1.needSave = s.needSave
      /\ s1.failed = s.failed
      /\ s1.autocommit = s.autocommit
  BY DEF StoreGood, StoreType, Content
<1>3. CASE s.autocommit
  <2>1. stored(s, xs, m) = commit(s1)
    BY <1>3 DEF stored
  <2>2. commit(s1).view[x] = IF x \in xs THEN m[x] ELSE s.view[x]
    BY <1>2, <1>3 DEF commit, StoreGood, StoreType, Content
  <2>3. x \notin xs => (x \in Marked(commit(s1)) <=> x \in Marked(s))
    BY <1>2 DEF Marked, commit, StoreType
  <2> QED
    BY <2>1, <2>2, <2>3 DEF KeptAt
<1>4. CASE ~s.autocommit
  <2>1. stored(s, xs, m) = s1
    BY <1>4 DEF stored
  <2> QED
    BY <1>2, <1>4, <2>1 DEF KeptAt, Marked
<1> QED
  BY <1>3, <1>4

LEMMA StoredType ==
  ASSUME NEW s, StoreGood(s), NEW m \in Content, NEW xs \in SUBSET Item
  PROVE  /\ StoreGood(stored(s, xs, m))
         /\ Protected(s) => Protected(stored(s, xs, m))
         /\ stored(s, xs, m).autocommit = s.autocommit
BY SaveQueueAssumption DEF StoreGood, StoreType, stored, commit, Content, Protected, Data

-----------------------------------------------------------------------------
(* saveDb(): the former transaction, then one for what is flagged.         *)
LEMMA ExecutedType ==
  ASSUME NEW s, StoreGood(s), mem \in Content, NEW failing \in SUBSET toSave(s)
  PROVE  StoreGood(executed(s, failing)) /\ ~executed(s, failing).autocommit
BY SaveQueueAssumption DEF StoreGood, StoreType, Content, executed, toSave, Data

(* An object's own flag is only cleared with its section's, and the section  *)
(* that is skipped has no object that needs saving.                          *)
LEMMA ExecutedKeeps ==
  ASSUME NEW s, StoreGood(s), mem \in Content, NEW failing \in SUBSET toSave(s), Kept(s, mem)
  PROVE  Kept(executed(s, failing), mem)
<1>1. SUFFICES ASSUME NEW x \in Data, x \notin Marked(executed(s, failing))
               PROVE  mem[x] = executed(s, failing).view[x]
  BY DEF Kept, KeptAt
<1>2. executed(s, failing).view[x] = IF x \in toSave(s) \ failing THEN mem[x] ELSE s.view[x]
  BY DEF executed, StoreGood, StoreType, Content
<1>3. x \notin failing /\ x \notin s.needSave \ s.items /\ x \notin s.needStore
      /\ (x \in toSave(s) \/ x \notin s.failed \cup s.undone)
  BY <1>1 DEF Marked, executed, StoreGood, StoreType
<1>4. CASE x \in toSave(s)
  BY <1>2, <1>3, <1>4
<1>5. CASE x \notin toSave(s)
  <2>1. x \notin Marked(s)
    BY <1>3, <1>5 DEF Marked, toSave
  <2> QED
    BY <1>2, <1>5, <2>1 DEF Kept, KeptAt
<1> QED
  BY <1>4, <1>5

LEMMA WrittenKeeps ==
  ASSUME NEW s, StoreGood(s), s.autocommit, mem \in Content, NEW w \in written(s)
  PROVE  /\ StoreGood(w) /\ ~w.autocommit
         /\ Kept(s, mem) => Kept(w, mem)
<1>1. PICK failing \in SUBSET toSave(s), xs \in SUBSET Item :
        w = stored(executed(s, failing), xs, mem)
  <2>1. (IF s.items \cap s.needSave = {} THEN {} ELSE s.needStore) \subseteq Item
    BY DEF StoreGood, StoreType
  <2> QED
    BY <2>1 DEF written
<1> DEFINE begun == executed(s, failing)
<1>2. StoreGood(begun) /\ ~begun.autocommit
  BY ExecutedType
<1>3. StoreGood(w) /\ ~w.autocommit
  BY <1>1, <1>2, StoredType
<1>4. ASSUME Kept(s, mem) PROVE Kept(begun, mem)
  BY <1>4, ExecutedKeeps
<1>5. ASSUME Kept(s, mem) PROVE Kept(w, mem)
  BY <1>1, <1>2, <1>4, <1>5, StoredKeeps DEF Kept
<1> QED
  BY <1>3, <1>5

LEMMA SaveDbKeeps ==
  ASSUME NEW s, StoreGood(s), mem \in Content, NEW r \in saveDb(s)
  PROVE  /\ StoreGood(r)
         /\ Kept(s, mem) => Kept(r, mem)
         /\ s.nosave => r = s
<1> DEFINE former == IF s.autocommit THEN {s} ELSE commits(s)
<1>1. CASE s.items = {} \/ s.nosave \/ ~s.open
  BY <1>1 DEF saveDb
<1>2. CASE ~(s.items = {} \/ s.nosave \/ ~s.open)
  <2>1. ASSUME NEW f \in former
        PROVE  StoreGood(f) /\ (Kept(s, mem) => Kept(f, mem))
    <3>1. CASE s.autocommit
      BY <2>1, <3>1
    <3>2. CASE ~s.autocommit
      <4>1. s \in StoreType
        BY DEF StoreGood
      <4> QED
        BY <2>1, <3>2, <4>1, CommitKeeps
    <3> QED
      BY <3>1, <3>2
  <2>2. CASE \E f \in former : r = queSaveDb(f, f.items)
    <3>1. PICK f \in former : r = queSaveDb(f, f.items)
      BY <2>2
    <3>2. f.items \in SUBSET Section
      BY <2>1 DEF StoreGood, StoreType
    <3> QED
      BY <1>2, <2>1, <3>1, <3>2, QueueKeeps
  <2>3. CASE \E f \in former : f.autocommit /\ \E w \in written(f) : r \in commits(w)
    <3>1. PICK f \in former : f.autocommit /\ \E w \in written(f) : r \in commits(w)
      BY <2>3
    <3>0. PICK w \in written(f) : r \in commits(w)
      BY <3>1
    <3>2. StoreGood(w) /\ ~w.autocommit /\ (Kept(s, mem) => Kept(w, mem))
      BY <2>1, <3>1, <3>0, WrittenKeeps
    <3>3. w \in StoreType
      BY <3>2 DEF StoreGood
    <3> QED
      BY <1>2, <3>0, <3>2, <3>3, CommitKeeps
  <2> QED
    BY <1>2, <2>2, <2>3 DEF saveDb
<1> QED
  BY <1>1, <1>2

(* Closing rolls an open transaction back; what was in it is undone.       *)
LEMMA ClosedKeeps ==
  ASSUME NEW s, StoreGood(s), NEW m
  PROVE  /\ StoreGood(closed(s))
         /\ Kept(s, m) => Kept(closed(s), m)
         /\ Protected(s) => Protected(closed(s))
BY DEF StoreGood, StoreType, closed, Kept, KeptAt, Marked, Protected

(* With a change of x, all but x is as it was.                             *)
LEMMA ChangedKeeps ==
  ASSUME StoreInv, NEW x \in Data, NEW m,
         \A y \in Data \ {x} : m[y] = mem[y]
  PROVE  /\ StoreGood(changed(st, x))
         /\ imported => Protected(changed(st, x))
         /\ ~imported => \A y \in Data \ {x} : KeptAt(changed(st, x), m, y)
BY DEF StoreInv, StoreGood, StoreType, changed, Protected, Kept, KeptAt, Marked

(* A start finds memory and database equal.                                *)
LEMMA StartGood ==
  ASSUME NEW disk \in Content
  PROVE  StoreGood(Started(disk)) /\ Kept(Started(disk), disk)
BY DEF StoreGood, StoreType, Started, Kept, KeptAt, Marked

-----------------------------------------------------------------------------
(* The old process saves with DB_NOSAVE in force: nothing but items.       *)
LEMMA RestartKeeps ==
  ASSUME StoreInv, Restart
  PROVE  /\ \E disk \in Content : StartsWith(disk)
         /\ imported => \A x \in Section : mem'[x] = Imported
<1> DEFINE q == [openDb(st) EXCEPT !.items = @ \cup Devices]
<1>0. PICK s \in saveDb(q) :
         \E xs \in SUBSET s.needStore : StartsWith(stored(s, xs, mem).disk)
  BY DEF Restart
<1>1. PICK xs \in SUBSET s.needStore : StartsWith(stored(s, xs, mem).disk)
  BY <1>0
<1>2. StoreGood(q) /\ (imported => Protected(q))
  BY SaveQueueAssumption
     DEF StoreInv, StoreGood, StoreType, openDb, Protected
<1>3. StoreGood(s) /\ (imported => Protected(s))
  <2>1. mem \in Content
    BY DEF StoreInv
  <2>2. StoreGood(s) /\ (q.nosave => s = q)
    BY <1>2, <2>1, SaveDbKeeps
  <2> QED
    BY <1>2, <2>2 DEF Protected
<1>4. xs \in SUBSET Item /\ mem \in Content
  BY <1>3 DEF StoreGood, StoreType, StoreInv
<1>5. StoreGood(stored(s, xs, mem)) /\ (imported => Protected(stored(s, xs, mem)))
  BY <1>3, <1>4, StoredType
<1> QED
  BY <1>1, <1>5 DEF StoreGood, StoreType, Protected, StartsWith

LEMMA StartsWithGood ==
  ASSUME StoreInv, NEW disk \in Content, StartsWith(disk)
  PROVE  StoreInv'
BY StartGood DEF StoreInv, StartsWith

LEMMA StoreInvInit == Init => StoreInv
<1> SUFFICES ASSUME Init PROVE StoreInv
  OBVIOUS
<1>1. mem \in Content
  BY SaveQueueAssumption DEF Init, Content
<1> QED
  BY <1>1, StartGood DEF Init, StoreInv

LEMMA StoreInvNext == StoreInv /\ [Next]_vars => StoreInv'
<1> SUFFICES ASSUME StoreInv, [Next]_vars PROVE StoreInv'
  OBVIOUS
<1> USE DEF StoreInv
<1>1. ASSUME NEW s \in Section, Change(s) PROVE StoreInv'
  <2>1. mem' \in Content /\ \A x \in Data \ {s} : mem'[x] = mem[x]
    BY <1>1 DEF Change, Content, Data
  <2>2. StoreGood(changed(st, s)) /\ (imported => Protected(changed(st, s)))
        /\ (~imported => \A y \in Data \ {s} : KeptAt(changed(st, s), mem', y))
    BY <2>1, ChangedKeeps DEF Data
  <2>3. StoreGood(st') /\ (imported => Protected(st'))
    BY <1>1, <2>2 DEF Change, queSaveDb, setNeedSaveDatabase, StoreGood, StoreType, Protected
  <2>4. ~imported => Kept(st', mem')
    BY <1>1, <2>2 DEF Change, queSaveDb, setNeedSaveDatabase, Kept, KeptAt, Marked,
       StoreGood, StoreType
  <2> QED
    BY <1>1, <2>1, <2>3, <2>4 DEF Change
<1>2. ASSUME NEW s \in Devices, ChangeUnqueued(s) PROVE StoreInv'
  <2>0. s \in Section
    BY SaveQueueAssumption
  <2>1. mem' \in Content /\ \A x \in Data \ {s} : mem'[x] = mem[x]
    BY <1>2, <2>0 DEF ChangeUnqueued, Content, Data
  <2>2. StoreGood(changed(st, s)) /\ (imported => Protected(changed(st, s)))
        /\ (~imported => \A y \in Data \ {s} : KeptAt(changed(st, s), mem', y))
    BY <2>0, <2>1, ChangedKeeps DEF Data
  <2>3. PICK flagged \in {{}, {s}} :
          st' = [setNeedSaveDatabase(changed(st, s), s) EXCEPT !.items = @ \cup flagged]
    BY <1>2 DEF ChangeUnqueued
  <2>4. StoreGood(st') /\ (imported => Protected(st'))
    BY <2>0, <2>2, <2>3 DEF setNeedSaveDatabase, StoreGood, StoreType, Protected
  <2>5. ~imported => Kept(st', mem')
    BY <2>0, <2>2, <2>3 DEF setNeedSaveDatabase, Kept, KeptAt, Marked, StoreGood, StoreType
  <2> QED
    BY <1>2, <2>1, <2>4, <2>5 DEF ChangeUnqueued
<1>3. ASSUME NEW x \in Item, ItemChanges(x) PROVE StoreInv'
  <2>1. mem' \in Content /\ \A y \in Data \ {x} : mem'[y] = mem[y]
    BY <1>3 DEF ItemChanges, Content, Data
  <2> DEFINE q == openDb(changed(st, x))
  <2>2. StoreGood(q) /\ (imported => Protected(q))
        /\ (~imported => \A y \in Data \ {x} : KeptAt(q, mem', y))
    <3>1. StoreGood(changed(st, x)) /\ (imported => Protected(changed(st, x)))
          /\ (~imported => \A y \in Data \ {x} : KeptAt(changed(st, x), mem', y))
      BY <2>1, ChangedKeeps DEF Data
    <3> QED
      BY <3>1 DEF openDb, StoreGood, StoreType, Protected, KeptAt, Marked
  <2>3. CASE st' = stored(q, {x}, mem')
    BY <1>3, <2>1, <2>2, <2>3, StoredKeeps, StoredType DEF ItemChanges
  <2>4. CASE st' = [q EXCEPT !.needStore = @ \cup {x}]
    <3>1. StoreGood(st') /\ (imported => Protected(st'))
      BY <1>3, <2>2, <2>4 DEF StoreGood, StoreType, Protected
    <3>2. ~imported => Kept(st', mem')
      BY <1>3, <2>2, <2>4 DEF Kept, KeptAt, Marked, StoreGood, StoreType
    <3> QED
      BY <1>3, <2>1, <3>1, <3>2 DEF ItemChanges
  <2> QED
    BY <1>3, <2>3, <2>4 DEF ItemChanges
<1>4. CASE Delay
  BY <1>4 DEF Delay
<1>5. CASE saveDatabaseTimerFired
  <2> DEFINE q == [openDb(st) EXCEPT !.timer = FALSE]
  <2>1. StoreGood(q) /\ (~imported => Kept(q, mem))
    BY DEF StoreGood, StoreType, openDb, Kept, KeptAt, Marked
  <2>2. st' \in saveDb(q) /\ ~imported
    BY <1>5 DEF saveDatabaseTimerFired, Protected
  <2>3. StoreGood(st') /\ Kept(st', mem)
    BY <2>1, <2>2, SaveDbKeeps
  <2> QED
    BY <1>5, <2>2, <2>3 DEF saveDatabaseTimerFired
<1>6. CASE exportConfig
  BY <1>6, ClosedKeeps DEF exportConfig
<1>7. CASE importConfig
  <2> DEFINE s   == [closed(st) EXCEPT !.nosave = TRUE]
             new == [x \in Data |-> Imported]
  <2>1. new \in Content
    BY DEF Content
  <2>2. StoreGood(s) /\ (imported => Protected(s))
        /\ (~imported => Kept(s, mem))
    <3>1. StoreGood(closed(st)) /\ (imported => Protected(closed(st)))
          /\ (~imported => Kept(closed(st), mem))
      BY ClosedKeeps
    <3> QED
      BY <3>1 DEF StoreGood, StoreType, Protected, Kept, KeptAt, Marked
  <2>3. CASE st' = [openDb(s) EXCEPT !.view = new, !.disk = new] /\ imported' = TRUE
    <3>1. StoreGood(st') /\ Protected(st')
      BY <2>1, <2>2, <2>3 DEF StoreGood, StoreType, openDb, Protected, Data
    <3> QED
      BY <1>7, <2>1, <2>3, <3>1 DEF importConfig
  <2>4. CASE st' = s /\ UNCHANGED imported
    BY <1>7, <2>1, <2>2, <2>4 DEF importConfig
  <2> QED
    BY <1>7, <2>3, <2>4 DEF importConfig
<1>8. CASE Restart
  BY <1>8, RestartKeeps, StartsWithGood
<1>9. CASE Crash
  BY <1>9, StartsWithGood DEF Crash, StoreGood, StoreType
<1>10. CASE UNCHANGED vars
  BY <1>10 DEF vars
<1> QED
  BY <1>1, <1>2, <1>3, <1>4, <1>5, <1>6, <1>7, <1>8, <1>9, <1>10 DEF Next

-----------------------------------------------------------------------------
(* saveDb() clears the flags before it commits, and an item's or an object's *)
(* flag without its section's, and loses nothing by either: what differs from *)
(* the database is marked to be saved or in the transaction that is committed *)
(* next.  What it does lose are statements of a section that fail, which it   *)
(* only logs, and what closeDb() rolls back (both until it is saved again).   *)
THEOREM LossesAreExplained == Spec => [](TypeOK /\ LossesExplained)
<1>1. StoreInv => TypeOK /\ LossesExplained
  BY DEF StoreInv, TypeOK, StoreGood, Kept, KeptAt, Marked, LossesExplained
<1> QED
  BY <1>1, StoreInvInit, StoreInvNext, PTL DEF Spec

(* importConfig(): the next start finds the imported sections, although the  *)
(* old process flags data and saves once more when it quits.                 *)
THEOREM ImportSurvivesRestart == Spec => ImportTakesEffect
<1>1. ASSUME StoreInv, [Next]_vars
      PROVE  [imported /\ ~imported' => \A s \in Section : mem'[s] = Imported]_vars
  <2>1. SUFFICES ASSUME Next, imported, ~imported'
                 PROVE  \A s \in Section : mem'[s] = Imported
    BY <1>1
  <2>2. CASE Restart
    BY <1>1, <2>1, <2>2, RestartKeeps
  <2>3. CASE Crash
    BY <1>1, <2>1, <2>3 DEF Crash, StartsWith, StoreInv, Protected
  <2> QED
    BY <2>1, <2>2, <2>3 DEF Next, Change, ChangeUnqueued, ItemChanges, Delay,
       saveDatabaseTimerFired, exportConfig, importConfig
<1> QED
  BY <1>1, StoreInvInit, StoreInvNext, PTL DEF Spec, ImportTakesEffect
=============================================================================
