------------------------------ MODULE SaveQueue ------------------------------
(***************************************************************************)
(* The delayed saving of the plugin's data (database.cpp: queSaveDb(),      *)
(* saveDatabaseTimerFired(), saveDb(), openDb(), closeDb()), the stores     *)
(* that write at once (DB_StoreSubDeviceItem() and its relatives), and the  *)
(* replacement of the database by a backup (rest_configuration.cpp).        *)
(*                                                                         *)
(* SQLite is what the code uses of it: one connection that outlives its     *)
(* writes (each openDb() prolongs it), a transaction that a refused COMMIT  *)
(* leaves open, a close that rolls an open transaction back, and statements *)
(* of which any may fail while another process has the database.            *)
(***************************************************************************)
EXTENDS Naturals

CONSTANTS
    Section,    \* what saveDatabaseItems has a flag for (DB_LIGHTS, DB_GROUPS, ...)
    Devices,    \* DB_LIGHTS, DB_SENSORS: each object has a flag of its own, set without
                \* queSaveDb() too, and is saved with its items
    Item,       \* resource items that are stored when they change
    Value,      \* values of the data
    Initial,    \* value in a new database
    Imported    \* value in the backup that is imported

ASSUME SaveQueueAssumption ==
    /\ Devices \subseteq Section
    /\ Section \cap Item = {}
    /\ Initial \in Value
    /\ Imported \notin Value

VARIABLES
    mem,        \* what the plugin works with
    st,         \* flags, timer and connection, see StoreType
    delayed,    \* permit join is on, or an OTA update needs the radio
    imported    \* the database was replaced since the start

vars == <<mem, st, delayed, imported>>

Data == Section \cup Item
Content == [Data -> Value \cup {Imported}]

StoreType ==
    [items      : SUBSET Section,   \* saveDatabaseItems
     needSave   : SUBSET Devices,   \* with objects that have needSaveDatabase()
     nosave     : BOOLEAN,          \* DB_NOSAVE
     timer      : BOOLEAN,          \* databaseTimer is active
     needStore  : SUBSET Item,      \* items with needStore()
     open       : BOOLEAN,          \* db # 0
     autocommit : BOOLEAN,          \* sqlite3_get_autocommit(): no open transaction
     view       : Content,          \* what the connection has written
     disk       : Content,          \* what is committed
     failed     : SUBSET Section,   \* history: the statement for the last change failed
     undone     : SUBSET Data]      \* history: closeDb() rolled the last change back

Started(disk) ==
    [items |-> {}, needSave |-> {}, nosave |-> FALSE, timer |-> FALSE, needStore |-> {},
     open |-> TRUE, autocommit |-> TRUE, view |-> disk, disk |-> disk,
     failed |-> {}, undone |-> {}]

Init ==
    /\ mem = [x \in Data |-> Initial]
    /\ st = Started(mem)
    /\ delayed = FALSE
    /\ imported = FALSE

-----------------------------------------------------------------------------
(* Operators on the store: the state a call leaves, or the set of states    *)
(* it may leave.                                                           *)

(* Mutated form: an active timer is taken for granted.                     *)
queSaveDbNoTimer(s, items) == [s EXCEPT !.items = @ \cup items]

queSaveDb(s, items) == [s EXCEPT !.items = @ \cup items, !.timer = TRUE]

setNeedSaveDatabase(s, x) == [s EXCEPT !.needSave = @ \cup ({x} \cap Devices)]

openDb(s) == [s EXCEPT !.open = TRUE]

commit(s) == [s EXCEPT !.disk = s.view, !.autocommit = TRUE]

(* A COMMIT is refused as long as somebody else reads the database.         *)
commits(s) == {commit(s), [s EXCEPT !.autocommit = FALSE]}

(* closeDb() with ttlDataBaseConnection = 0; after openDb() it does nothing, *)
(* since the connection then has another 15 minutes.                        *)
closed(s) == [s EXCEPT !.open = FALSE, !.autocommit = TRUE, !.view = s.disk,
                       !.undone = @ \cup {x \in Data : s.view[x] # s.disk[x]}]

(* DB_StoreSubDeviceItem() and the like succeed for the items xs, with v in  *)
(* memory: written at once, into the transaction that happens to be open.   *)
(* An item keeps its flag when it was written lately or its statement fails. *)
stored(s, xs, v) ==
    LET s1 == [s EXCEPT !.view = [x \in Data |-> IF x \in xs THEN v[x] ELSE @[x]],
                        !.needStore = @ \ xs, !.undone = @ \ xs]
    IN  IF s.autocommit THEN commit(s1) ELSE s1

(* The flagged sections, of lights and sensors the objects that need it.     *)
toSave(s) == (s.items \ Devices) \cup (s.items \cap s.needSave)

(* The statements for toSave(s), of which those of failing fail: this is     *)
(* logged, and the flags are cleared all the same.                          *)
executed(s, failing) ==
    LET ok == toSave(s) \ failing
    IN  [s EXCEPT !.autocommit = FALSE, !.items = {}, !.needSave = @ \ s.items,
                  !.view = [x \in Data |-> IF x \in ok THEN mem[x] ELSE @[x]],
                  !.failed = (@ \ ok) \cup failing, !.undone = @ \ ok]

(* What a BEGIN that succeeds is followed by: the statements of the sections, *)
(* and of the items that need it, if their objects are saved, those which    *)
(* are not written too often.                                               *)
written(s) ==
    {stored(executed(s, failing), xs, mem) :
        failing \in SUBSET toSave(s),
        xs \in SUBSET (IF s.items \cap s.needSave = {} THEN {} ELSE s.needStore)}

(* Mutated form: the flags are cleared although BEGIN was refused.          *)
saveDbClearsEarly(s) ==
    IF s.items = {} \/ s.nosave \/ ~s.open THEN {s}
    ELSE LET former == IF s.autocommit THEN {s} ELSE commits(s)
             retry(r) == [queSaveDb(r, r.items) EXCEPT !.items = {}]
         IN  {retry(r) : r \in former}
             \cup UNION {commits(w) : w \in UNION {written(f) : f \in {f \in former : f.autocommit}}}

(* Mutated form: DB_NOSAVE is not looked at.                                *)
saveDbAlways(s) ==
    IF s.items = {} \/ ~s.open THEN {s}
    ELSE LET former == IF s.autocommit THEN {s} ELSE commits(s)
             retry(r) == queSaveDb(r, r.items)
         IN  {retry(r) : r \in former}
             \cup UNION {commits(w) : w \in UNION {written(f) : f \in {f \in former : f.autocommit}}}

(* A transaction left open by the last run is committed first; if that is   *)
(* refused, or BEGIN, the timer tries again.  The last COMMIT is not tried   *)
(* again by anybody: its flags are cleared.                                 *)
saveDb(s) ==
    IF s.items = {} \/ s.nosave \/ ~s.open THEN {s}
    ELSE LET former == IF s.autocommit THEN {s} ELSE commits(s)
             retry(r) == queSaveDb(r, r.items)
         IN  {retry(r) : r \in former}
             \cup UNION {commits(w) : w \in UNION {written(f) : f \in {f \in former : f.autocommit}}}

(* The history starts anew with a change of x.                               *)
changed(s, x) == [s EXCEPT !.failed = @ \ {x}, !.undone = @ \ {x}]

-----------------------------------------------------------------------------
(* A REST request or a report changes data and queues the save.            *)
Change(s) ==
    /\ \E v \in Value \ {mem[s]} : mem' = [mem EXCEPT ![s] = v]
    /\ st' = queSaveDb(setNeedSaveDatabase(changed(st, s), s), {s})
    /\ UNCHANGED <<delayed, imported>>

(* saveDatabaseItems |= DB_LIGHTS without queSaveDb(), or not even that      *)
(* (LightNode::didSetValue()): saved along with something else, or when the  *)
(* application quits.                                                       *)
ChangeUnqueued(s) ==
    /\ \E v \in Value \ {mem[s]} : mem' = [mem EXCEPT ![s] = v]
    /\ \E flagged \in {{}, {s}} :
          st' = [setNeedSaveDatabase(changed(st, s), s) EXCEPT !.items = @ \cup flagged]
    /\ UNCHANGED <<delayed, imported>>

(* An item changes.  It is stored at once, or (state items too often        *)
(* changed) with a later change or when the application quits.              *)
ItemChanges(x) ==
    /\ \E v \in Value \ {mem[x]} : mem' = [mem EXCEPT ![x] = v]
    /\ \/ st' = stored(openDb(changed(st, x)), {x}, mem')
       \/ st' = [openDb(changed(st, x)) EXCEPT !.needStore = @ \cup {x}]
    /\ UNCHANGED <<delayed, imported>>

(* Permit join and OTA updates put off saving (the latter for half an hour  *)
(* after the last save).                                                    *)
Delay ==
    /\ delayed' = ~delayed
    /\ UNCHANGED <<mem, st, imported>>

(* While it is put off or DB_NOSAVE is set the timer only restarts itself.  *)
saveDatabaseTimerFired ==
    /\ st.timer /\ ~delayed /\ ~st.nosave
    /\ st' \in saveDb([openDb(st) EXCEPT !.timer = FALSE])
    /\ UNCHANGED <<mem, delayed, imported>>

(* The connection is closed so that the database file can be copied.        *)
exportConfig ==
    /\ st' = closed(st)
    /\ UNCHANGED <<mem, delayed, imported>>

(* importConfig() and resetConfig(): the database is replaced, or the        *)
(* backup cannot be read and DB_NOSAVE stays until the next start.           *)
importConfig ==
    /\ LET s == [closed(st) EXCEPT !.nosave = TRUE]
           new == [x \in Data |-> Imported]
       IN  \/ /\ st' = [openDb(s) EXCEPT !.view = new, !.disk = new]
              /\ imported' = TRUE
           \/ /\ st' = s
              /\ UNCHANGED imported
    /\ UNCHANGED <<mem, delayed>>

StartsWith(disk) ==
    /\ mem' = disk
    /\ st' = Started(disk)
    /\ imported' = FALSE
    /\ UNCHANGED delayed

(* appAboutToQuit() of the old process and the start of the next.           *)
Restart ==
    \E s \in saveDb([openDb(st) EXCEPT !.items = @ \cup Devices]) :
        \E xs \in SUBSET s.needStore : StartsWith(stored(s, xs, mem).disk)

(* The process is killed, or the power fails.                               *)
Crash == StartsWith(st.disk)

Next ==
    \/ \E s \in Section : Change(s)
    \/ \E s \in Devices : ChangeUnqueued(s)
    \/ \E x \in Item : ItemChanges(x)
    \/ Delay
    \/ saveDatabaseTimerFired
    \/ exportConfig
    \/ importConfig
    \/ Restart
    \/ Crash

Spec == Init /\ [][Next]_vars

(* Another reader of the database lets go of it now and then.               *)
Saves(s) == saveDatabaseTimerFired /\ s \in st.items /\ s \notin st'.items

(* Joining and updates end, the timer fires, and a save is not refused for   *)
(* ever.                                                                    *)
FairSpec ==
    /\ Spec
    /\ WF_vars(delayed /\ Delay)
    /\ \A s \in Section \ Devices : SF_vars(Saves(s))

-----------------------------------------------------------------------------
(* Types of the flags, the connection and the data.                        *)
TypeOK ==
    /\ mem \in Content
    /\ st \in StoreType
    /\ delayed \in BOOLEAN
    /\ imported \in BOOLEAN

(* What memory has and the database has not is still flagged, or it is in    *)
(* the transaction that the next save commits first: refused BEGINs and      *)
(* COMMITs, flags cleared before the COMMIT, direct stores into a leftover    *)
(* transaction and objects flagged without their section lose nothing.        *)
(* Two things do: a statement of a section that fails, until the section is   *)
(* written again (an item is only flagged off once its statement succeeded),  *)
(* and closing the connection in a transaction.  (An imported database        *)
(* differs from memory on purpose.)                                          *)
LossesExplained ==
    \A x \in Data : mem[x] # st.disk[x] =>
        \/ x \in (st.items \ Devices) \cup st.needSave \cup st.needStore
        \/ ~st.autocommit /\ st.view[x] = mem[x]
        \/ x \in st.failed
        \/ x \in st.undone
        \/ imported

(* What is queued is written: the timer keeps running through postponed and  *)
(* refused saves, until the flag is cleared.  (With DB_NOSAVE nothing is      *)
(* saved any more until the next start.)                                     *)
QueuedIsSaved ==
    \A s \in Section \ Devices :
        (s \in st.items) ~> (s \notin st.items \/ st.nosave)

(* The start after an import works with the imported data: DB_NOSAVE keeps    *)
(* what the old process has flagged, by then or when it quits, from being     *)
(* saved over it.                                                            *)
ImportTakesEffect ==
    [][imported /\ ~imported' => \A s \in Section : mem'[s] = Imported]_vars
=============================================================================
