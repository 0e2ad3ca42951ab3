---------------------------- MODULE AlarmSystem -----------------------------
(***************************************************************************)
(* The alarm system (alarm_system.cpp), the table of devices that belong   *)
(* to it (alarm_system_device_table.cpp), the events it exchanges with     *)
(* sensors, keypads and websocket clients (alarm_system_event_handler.cpp, *)
(* ias_ace.cpp) and its REST operations (rest_alarmsystems.cpp).           *)
(*                                                                         *)
(* One system, the "default" one: POST /alarmsystems is not implemented.   *)
(* Every event goes through the event queue, of which `queue' holds the    *)
(* normal events still to be notified (module EventBus).  A callback of    *)
(* the event loop is one step: REST request, keypad command, timer, or the *)
(* notification of one event with everything its handlers do.              *)
(*                                                                         *)
(* The database connection is shared with the delayed saving (module       *)
(* SaveQueue): any statement may fail, and one that succeeds is part of    *)
(* the transaction that a refused COMMIT of saveDb() may have left open.   *)
(***************************************************************************)
EXTENDS Naturals, Sequences, FiniteSets

CONSTANTS
    Device,         \* devices that can be added to the alarm system
    Keypad,         \* those with an IAS ACE cluster (keypads, keyfobs)
    Code,           \* PIN codes
    NoCode,         \* "no code0 secret in the database"
    RequestMode,    \* bound: arm modes requested by clients
    Mask,           \* bound: arm masks a device is added with
    DefaultDelay,   \* delays of a new system, by parameter and arm mode
    ConfigChange,   \* bound: <<parameter, arm mode, seconds>> of PUT config
    Command,        \* bound: emergency, fire and panic commands of keypads
    Fault,          \* bound: what goes wrong with the database
    MaxLost,        \* bound: rows with a lost change, at which faults pause
    MaxStep,        \* bound: seconds between two calls of timerFired()
    QueueBound      \* bound: pending events at which inputs pause

ArmMode == {"disarmed", "armed_stay", "armed_night", "armed_away"}
ArmedMode == ArmMode \ {"disarmed"}
Parameter == {"entry_delay", "exit_delay", "trigger_duration"}
NoEntry == {"none"}     \* in place of a mask: device is not in the table
Delays == [Parameter -> [ArmMode -> Nat]]

Emergency == 2          \* IAS_ACE_CMD_EMERGENCY
Panic     == 4          \* IAS_ACE_CMD_PANIC

ASSUME AlarmAssumption ==
    /\ Keypad \subseteq Device
    /\ NoCode \notin Code
    /\ RequestMode \subseteq ArmMode
    /\ Mask \subseteq SUBSET ArmedMode
    /\ DefaultDelay \in Delays
    /\ ConfigChange \subseteq Parameter \X ArmMode \X Nat
    /\ Command \subseteq Emergency..Panic
    /\ Fault \subseteq {"statement", "commit", "close"}
    /\ MaxLost \in Nat
    /\ MaxStep \in Nat \ {0}
    /\ QueueBound \in Nat

State == {"Disarmed", "Armed", "ExitDelay", "EntryDelay", "InAlarm", "Arming"}

VARIABLES
    (* AlarmSystemPrivate *)
    curState, targetState, exitDelay, entryDelay, triggerDuration, armMask,
    timer,          \* the 1 s timer is active
    dt,             \* seconds since startStateTimer()
    (* resource items of the alarm system *)
    armState,       \* state/armstate
    seconds,        \* state/seconds_remaining
    armMode,        \* config/armmode, the requested mode
    config,         \* config/<mode>_<parameter>
    needPush,       \* items set and not yet sent to the websocket
    (* its environment *)
    queue,          \* normal events still to be notified
    table,          \* AS_DeviceTable: arm mask of a device, or NoEntry
    keypad,         \* state/panel and state/seconds_remaining of a keypad
    pushed,         \* last state/* and config/* broadcast to the websocket
    dbOpen,         \* the database connection is open
    autocommit,     \* no transaction is open
    db,             \* what the connection reads
    disk,           \* what is committed: what a restart loads
    (* history *)
    acked,          \* last arm mode a client was told to be accepted
    mirrored,       \* keypads updated since they were added to the table
    lost            \* why the last change of a row is not in the database

machine == <<curState, targetState, exitDelay, entryDelay, triggerDuration,
             armMask, timer, dt>>
items   == <<armState, seconds, armMode, config, needPush>>
clients == <<keypad, pushed, mirrored>>
store   == <<dbOpen, autocommit, db, disk, lost>>
vars    == <<machine, items, clients, store, queue, table, acked>>

-----------------------------------------------------------------------------
(* Events, equal iff EventEmitter takes them for duplicates.               *)
ArmModeEvent         == <<"armmode">>            \* config/armmode
ConfigEvent(p, m, n) == <<"config", p, m, n>>    \* config/<mode>_<parameter>
ArmStateEvent(st)    == <<"armstate", st>>       \* state/armstate
SecondsEvent(n)      == <<"seconds", n>>         \* state/seconds_remaining
SensorEvent(d)       == <<"sensor", d>>          \* state/presence, open, ...
ActionEvent(k, n)    == <<"action", k, n>>       \* state/action of a keypad
DeviceAlarm(mask)    == <<"devicealarm", mask>>  \* REventDeviceAlarm

StateItem  == {<<"armstate">>, <<"seconds">>}
ConfigItem == {<<"armmode">>} \cup (Parameter \X ArmMode)

(* Rows of the database that mirror memory, and what becomes of a change.  *)
ModeRow         == <<"mode">>
ConfigRow(p, m) == <<"config", p, m>>
DeviceRow(d)    == <<"device", d>>
Row == {ModeRow} \cup ({"config"} \X Parameter \X ArmMode) \cup ({"device"} \X Device)
Fate == {"stored", "failed", "closed", "undone"}

Queued(q, e) == \E k \in 1..Len(q) : q[k] = e
enqueueEvent(q, e) == IF Queued(q, e) THEN q ELSE Append(q, e)

PanelStatus == ArmedMode \cup {"disarmed", "not_ready", "exit_delay",
    "entry_delay", "in_alarm", "arming_stay", "arming_night", "arming_away"}

Arming == [armed_stay |-> "arming_stay", armed_night |-> "arming_night",
           armed_away |-> "arming_away"]

(* updateArmStateAndPanelStatus(): the status of a state and target.       *)
panelStatus(st, target) ==
    CASE st = "Disarmed"   -> "disarmed"
      [] st = "ExitDelay"  -> "exit_delay"
      [] st = "EntryDelay" -> "entry_delay"
      [] st = "InAlarm"    -> "in_alarm"
      [] st = "Armed" /\ target \in ArmedMode  -> target
      [] st = "Arming" /\ target \in ArmedMode -> Arming[target]
      [] OTHER -> armState

(* setSecondsRemaining() followed by setState(): both items, the events    *)
(* for those that changed, and their push flags on top of `push'.          *)
SetSecondsAndState(q, push, secs, st, target) ==
    LET status == panelStatus(st, target)
        q1 == IF secs # seconds THEN enqueueEvent(q, SecondsEvent(secs)) ELSE q
    IN  /\ curState' = st
        /\ seconds' = secs
        /\ armState' = status
        /\ queue' = IF status # armState
                    THEN enqueueEvent(q1, ArmStateEvent(status)) ELSE q1
        /\ needPush' = push
               \cup {it \in StateItem : \/ it = <<"seconds">> /\ secs # seconds
                                        \/ it = <<"armstate">> /\ status # armState}

(* Mutated forms: the timer is not started, not stopped.                   *)
startStateTimerNot == dt' = 0 /\ UNCHANGED timer
stopTimerNot == dt' = 0 /\ UNCHANGED timer

(* dt is only read while the timer runs: 0 stands for every other value.   *)
startStateTimer == timer' = TRUE /\ dt' = 0
stopTimer       == timer' = FALSE /\ dt' = 0

targetArmMask(mode) == {mode} \ {"disarmed"}

(* updateTargetStateValues(), with the item it reads for each duration.    *)
triggerParameter(mode) ==
    IF mode = "armed_away" THEN "trigger_duration" ELSE "exit_delay"

updateTargetStateValues(mode) ==
    /\ exitDelay' = config["exit_delay"][mode]
    /\ entryDelay' = config["entry_delay"][mode]
    /\ triggerDuration' = IF mode = "disarmed" THEN 0
                          ELSE config[triggerParameter(mode)][mode]
    /\ armMask' = targetArmMask(mode)

-----------------------------------------------------------------------------
(* First start: AS_InitDefaultAlarmSystem() creates the system and stores  *)
(* its name, so that the next start loads it; start() is not called.       *)
Init ==
    /\ curState = "Disarmed"
    /\ targetState = "disarmed"
    /\ exitDelay = DefaultDelay["exit_delay"]["disarmed"]
    /\ entryDelay = DefaultDelay["entry_delay"]["disarmed"]
    /\ triggerDuration = 0
    /\ armMask = {}
    /\ timer = FALSE
    /\ dt = 0
    /\ armState = "not_ready"
    /\ seconds = 0
    /\ armMode = "disarmed"
    /\ config = DefaultDelay
    /\ needPush = StateItem \cup ConfigItem
    /\ queue = <<>>
    /\ table = [d \in Device |-> NoEntry]
    /\ keypad = [k \in Keypad |-> <<"not_ready", 0>>]
    /\ pushed = [state |-> <<>>, config |-> <<>>]
    /\ dbOpen = TRUE
    /\ autocommit = TRUE
    /\ db = [mode |-> "disarmed", config |-> DefaultDelay,
             table |-> [d \in Device |-> NoEntry], code |-> NoCode]
    /\ disk = db
    /\ lost = [row \in Row |-> "stored"]
    /\ acked = "disarmed"
    /\ mirrored = {}

(* The process ends at any time; the next one loads the database (openDb,  *)
(* DB_LoadAlarmSystemDevices, DB_LoadAlarmSystems) and calls start().      *)
Restart ==
    LET mode == disk.mode
        st   == IF mode = "disarmed" THEN "Disarmed" ELSE "Armed"
        status == panelStatus(st, mode)
    IN  /\ curState' = st
        /\ targetState' = mode
        /\ exitDelay' = disk.config["exit_delay"][mode]
        /\ entryDelay' = disk.config["entry_delay"][mode]
        /\ triggerDuration' = IF mode = "disarmed" THEN 0
                              ELSE disk.config[triggerParameter(mode)][mode]
        /\ armMask' = targetArmMask(mode)
        /\ stopTimer
        /\ armState' = status
        /\ seconds' = 0
        /\ armMode' = mode
        /\ config' = disk.config
        /\ needPush' = StateItem \cup ConfigItem
        /\ queue' = <<ArmStateEvent(status)>>
        /\ table' = disk.table
        /\ pushed' = [state |-> <<>>, config |-> <<>>]
        /\ dbOpen' = TRUE
        /\ autocommit' = TRUE
        /\ db' = disk
        /\ lost' = [row \in Row |-> "stored"]
        /\ mirrored' = {}
        /\ UNCHANGED <<keypad, disk, acked>>

-----------------------------------------------------------------------------
(* The 1 s timer.  timerFired() runs `step' seconds after its last run     *)
(* (more than one when the event loop was busy), and a coarse timer is     *)
(* `late' when a fraction of a second has passed on top.                   *)
elapsed(delay, sec, late) == delay < sec \/ (delay = sec /\ late)
(* Mutated form: rounded down even if no fraction of a second has passed.  *)
remainingRounded(delay, sec, late) == delay - sec - 1

remaining(delay, sec, late) == delay - sec - (IF late THEN 1 ELSE 0)

(* Mutated form: disarming ends in the armed state.                        *)
stateAfterExitArms == "Arming"

stateAfterExit == IF targetState = "disarmed" THEN "Disarmed" ELSE "Arming"

stateExitDelay(sec, late) ==
    /\ curState = "ExitDelay"
    /\ IF elapsed(exitDelay, sec, late)
       THEN /\ SetSecondsAndState(queue, needPush, 0, stateAfterExit, targetState)
            /\ IF stateAfterExit = "Disarmed" THEN stopTimer ELSE startStateTimer
       ELSE /\ SetSecondsAndState(queue, needPush, remaining(exitDelay, sec, late),
                                  curState, targetState)
            /\ dt' = sec
            /\ UNCHANGED timer

stateEntryDelay(sec, late) ==
    /\ curState = "EntryDelay"
    /\ IF elapsed(entryDelay, sec, late)
       THEN startStateTimer /\ SetSecondsAndState(queue, needPush, 0, "InAlarm", targetState)
       ELSE /\ SetSecondsAndState(queue, needPush, remaining(entryDelay, sec, late),
                                  curState, targetState)
            /\ dt' = sec
            /\ UNCHANGED timer

stateInAlarm(sec, late) ==
    /\ curState = "InAlarm"
    /\ IF elapsed(triggerDuration, sec, late)
       THEN stopTimer /\ SetSecondsAndState(queue, needPush, seconds, "Armed", targetState)
       ELSE /\ dt' = sec
            /\ UNCHANGED <<curState, timer, seconds, armState, needPush, queue>>

stateArming ==
    /\ curState = "Arming"
    /\ stopTimer
    /\ SetSecondsAndState(queue, needPush, seconds, "Armed", targetState)

timerFired(step, late) ==
    /\ timer
    /\ \/ stateExitDelay(dt + step, late)
       \/ stateEntryDelay(dt + step, late)
       \/ stateInAlarm(dt + step, late)
       \/ stateArming
       \/ /\ curState \in {"Disarmed", "Armed"}
          /\ UNCHANGED <<curState, timer, dt, seconds, armState, needPush, queue>>
    /\ UNCHANGED <<targetState, exitDelay, entryDelay, triggerDuration, armMask,
                   armMode, config, clients, store, table, acked>>

-----------------------------------------------------------------------------
(* REST requests and keypad commands.  Inputs pause while QueueBound       *)
(* events are pending.                                                     *)
HasRoom == Len(queue) < QueueBound

(* Mutated form: the code is verified without the database.                *)
isValidCodeCached(code) == db.code = code

(* isValidCode(): the secret is read from the database each time.          *)
isValidCode(code) == dbOpen /\ db.code = code

(* A statement that makes the database `new', and what becomes of it.  Only  *)
(* erase() and setCode() look at the return value.                          *)
MayLose == Cardinality({row \in Row : lost[row] # "stored"}) < MaxLost

executes(new, fate) ==
    /\ \/ fate = "stored" /\ dbOpen
       \/ fate = "failed" /\ dbOpen /\ "statement" \in Fault /\ MayLose
       \/ fate = "closed" /\ ~dbOpen /\ MayLose
    /\ db' = IF fate = "stored" THEN new ELSE db
    /\ disk' = IF fate = "stored" /\ autocommit THEN new ELSE disk
    /\ UNCHANGED <<dbOpen, autocommit>>

stores(row, new) ==
    \E fate \in Fate : executes(new, fate) /\ lost' = [lost EXCEPT ![row] = fate]

(* setTargetArmMode(): a mode other than the current target is written to  *)
(* config/armmode (no effect if it is already there); didSetValue() stores *)
(* it and enqueues the event that makes the state machine pick it up.      *)
setsArmMode(mode) == mode # targetState /\ mode # armMode

setTargetArmMode(call, mode) ==
    LET sets == call /\ setsArmMode(mode)
    IN  /\ armMode' = IF sets THEN mode ELSE armMode
        /\ needPush' = IF sets THEN needPush \cup {<<"armmode">>} ELSE needPush
        /\ IF sets THEN stores(ModeRow, [db EXCEPT !.mode = mode]) ELSE UNCHANGED store
        /\ acked' = IF call THEN mode ELSE acked

(* Mutated form: didSetValue() does not enqueue the event.                 *)
armModeQueueSilent(call, mode) == queue

armModeQueue(call, mode) ==
    IF call /\ setsArmMode(mode) THEN enqueueEvent(queue, ArmModeEvent) ELSE queue

putAlarmSystemArmMode(mode, code) ==
    /\ HasRoom
    /\ isValidCode(code)
    /\ setTargetArmMode(TRUE, mode)
    /\ queue' = armModeQueue(TRUE, mode)
    /\ UNCHANGED <<machine, armState, seconds, config, clients, table>>

(* Arm command of a keypad: handleArmCommand(), then the state/action      *)
(* event, whose number is the arm mode of the command.                     *)
ModeNumber == [disarmed |-> 0, armed_stay |-> 1, armed_night |-> 2, armed_away |-> 3]

handleArmCommand(k, mode, code) ==
    LET accepted == /\ table[k] # NoEntry
                    /\ isValidCode(code)
                    /\ ~(targetState = "disarmed" /\ mode = "disarmed")
    IN  /\ HasRoom
        /\ setTargetArmMode(accepted, mode)
        /\ queue' = enqueueEvent(armModeQueue(accepted, mode),
                                 ActionEvent(k, ModeNumber[mode]))
        /\ UNCHANGED <<machine, armState, seconds, config, clients, table>>

(* Emergency, fire and panic commands of a keypad.                         *)
emergencyCommand(k, n) ==
    /\ HasRoom
    /\ queue' = enqueueEvent(queue, ActionEvent(k, n))
    /\ UNCHANGED <<machine, items, clients, store, table, acked>>

(* A sensor reports presence, opening, vibration, a button or a light on.  *)
sensorReports(d) ==
    /\ HasRoom
    /\ queue' = enqueueEvent(queue, SensorEvent(d))
    /\ UNCHANGED <<machine, items, clients, store, table, acked>>

(* PUT config with a changed value: setValue() and didSetValue().          *)
putAlarmSystemConfig(p, m, n) ==
    /\ HasRoom
    /\ config[p][m] # n
    /\ config' = [config EXCEPT ![p][m] = n]
    /\ needPush' = needPush \cup {<<p, m>>}
    /\ queue' = enqueueEvent(queue, ConfigEvent(p, m, n))
    /\ stores(ConfigRow(p, m), [db EXCEPT !.config[p][m] = n])
    /\ UNCHANGED <<machine, armState, seconds, armMode, clients, table, acked>>

(* setCode(): the secret goes to the database only.                        *)
setCode(code) ==
    /\ executes([db EXCEPT !.code = code], "stored")
    /\ UNCHANGED <<lost, machine, items, clients, queue, table, acked>>

(* addDevice() -> put(): changed in memory even if it cannot be stored.    *)
put(d, mask) ==
    /\ mask = {} => d \in Keypad
    /\ table' = [table EXCEPT ![d] = mask]
    /\ IF table[d] # mask THEN stores(DeviceRow(d), [db EXCEPT !.table[d] = mask])
       ELSE UNCHANGED store
    /\ mirrored' = IF table[d] = NoEntry THEN mirrored \ {d} ELSE mirrored
    /\ UNCHANGED <<machine, items, keypad, pushed, queue, acked>>

(* Mutated form: the device leaves the table whatever becomes of its row.   *)
eraseAnyway(d) ==
    /\ table[d] # NoEntry
    /\ table' = [table EXCEPT ![d] = NoEntry]
    /\ stores(DeviceRow(d), [db EXCEPT !.table[d] = NoEntry])
    /\ UNCHANGED <<machine, items, clients, queue, acked>>

(* removeDevice() -> erase(): only if the database row is deleted.         *)
erase(d) ==
    /\ table[d] # NoEntry
    /\ table' = [table EXCEPT ![d] = NoEntry]
    /\ executes([db EXCEPT !.table[d] = NoEntry], "stored")
    /\ lost' = [lost EXCEPT ![DeviceRow(d)] = "stored"]
    /\ UNCHANGED <<machine, items, clients, queue, acked>>

(* saveDb() has written its own data: its COMMIT is refused and leaves the  *)
(* transaction open, or a later one commits it.                             *)
commitRefused ==
    /\ dbOpen /\ autocommit /\ "commit" \in Fault /\ MayLose
    /\ autocommit' = FALSE
    /\ UNCHANGED <<machine, items, clients, dbOpen, db, disk, lost, queue, table, acked>>

committed ==
    /\ dbOpen /\ ~autocommit
    /\ autocommit' = TRUE
    /\ disk' = db
    /\ UNCHANGED <<machine, items, clients, dbOpen, db, lost, queue, table, acked>>

(* What database d has of a row.                                            *)
InRow(d, row) ==
    CASE row = ModeRow -> d.mode
      [] row[1] = "config" -> d.config[row[2]][row[3]]
      [] row[1] = "device" -> d.table[row[2]]

(* Exporting, importing or resetting the configuration closes the          *)
(* database, which rolls an open transaction back; the next component that  *)
(* needs it calls openDb().                                                *)
closeDb ==
    /\ dbOpen /\ "close" \in Fault
    /\ dbOpen' = FALSE
    /\ autocommit' = TRUE
    /\ db' = disk
    /\ lost' = [row \in Row |-> IF InRow(db, row) # InRow(disk, row) THEN "undone" ELSE lost[row]]
    /\ UNCHANGED <<machine, items, clients, disk, queue, table, acked>>

openDb ==
    /\ ~dbOpen
    /\ dbOpen' = TRUE
    /\ UNCHANGED <<machine, items, clients, autocommit, db, disk, lost, queue, table, acked>>

-----------------------------------------------------------------------------
(* Notification of the event at the head of the queue.                     *)

(* pushEventToWebsocket(): an item with its flag set is sent together with *)
(* all items of its class, whose flags are cleared.                        *)
pushEventToWebsocket(item) ==
    pushed' = [state  |-> IF item \in needPush \cap StateItem
                          THEN <<armState, seconds>> ELSE pushed.state,
               config |-> IF item \in needPush \cap ConfigItem
                          THEN <<armMode, config>> ELSE pushed.config]

(* Mutated form: flags of the other class are cleared as well.             *)
flagsAfterPushAll(item) == IF item \notin needPush THEN needPush ELSE {}

flagsAfterPush(item) ==
    IF item \notin needPush THEN needPush
    ELSE needPush \ (IF item \in StateItem THEN StateItem ELSE ConfigItem)

(* AlarmSystem::handleEvent() of config/armmode: the mode is read from the *)
(* item, not from the event; the exit delay applies to disarming too.      *)
handleArmModeEvent ==
    /\ Head(queue) = ArmModeEvent
    /\ targetState' = armMode
    /\ updateTargetStateValues(armMode)
    /\ IF armMode = targetState
       THEN /\ queue' = Tail(queue)
            /\ needPush' = flagsAfterPush(<<"armmode">>)
            /\ UNCHANGED <<curState, timer, dt, seconds, armState>>
       ELSE /\ SetSecondsAndState(Tail(queue), flagsAfterPush(<<"armmode">>),
                                  config["exit_delay"][armMode], "ExitDelay", armMode)
            /\ startStateTimer
    /\ pushEventToWebsocket(<<"armmode">>)
    /\ UNCHANGED <<armMode, config, keypad, mirrored, store, table, acked>>

(* stateArmed(): a device alarm whose mask has the armed mode; every other *)
(* state ignores device alarms.                                            *)
handleDeviceAlarm ==
    /\ Head(queue)[1] = "devicealarm"
    /\ IF curState = "Armed" /\ Head(queue)[2] \cap armMask # {}
       THEN /\ SetSecondsAndState(Tail(queue), needPush, entryDelay, "EntryDelay",
                                  targetState)
            /\ startStateTimer
       ELSE /\ queue' = Tail(queue)
            /\ UNCHANGED <<curState, timer, dt, seconds, armState, needPush>>
    /\ UNCHANGED <<targetState, exitDelay, entryDelay, triggerDuration, armMask,
                   armMode, config, clients, store, table, acked>>

(* secondsRemaining(): 0 outside of the entry and exit delay.              *)
secondsRemaining == IF curState \in {"EntryDelay", "ExitDelay"} THEN seconds ELSE 0

(* Mutated form: only the seconds of the keypad are updated.               *)
mirrorKeypadSecondsOnly ==
    LET shown == {k \in Keypad : table[k] # NoEntry}
    IN  /\ keypad' = [k \in Keypad |-> IF k \in shown
                                       THEN <<keypad[k][1], secondsRemaining>> ELSE keypad[k]]
        /\ mirrored' = mirrored \cup shown

(* mirrorKeypadAlarmSystemState(): every keypad of the table.              *)
mirrorKeypadAlarmSystemState ==
    LET shown == {k \in Keypad : table[k] # NoEntry}
    IN  /\ keypad' = [k \in Keypad |-> IF k \in shown
                                       THEN <<armState, secondsRemaining>> ELSE keypad[k]]
        /\ mirrored' = mirrored \cup shown

(* AS_HandleAlarmSystemEvent() of state/armstate, state/seconds_remaining. *)
handleStateEvent ==
    LET item == <<Head(queue)[1]>>
    IN  /\ item \in StateItem
        /\ mirrorKeypadAlarmSystemState
        /\ pushEventToWebsocket(item)
        /\ needPush' = flagsAfterPush(item)
        /\ queue' = Tail(queue)
        /\ UNCHANGED <<machine, armState, seconds, armMode, config, store, table,
                       acked>>

handleConfigEvent ==
    LET e == Head(queue)
    IN  /\ e[1] = "config"
        /\ pushEventToWebsocket(<<e[2], e[3]>>)
        /\ needPush' = flagsAfterPush(<<e[2], e[3]>>)
        /\ queue' = Tail(queue)
        /\ UNCHANGED <<machine, armState, seconds, armMode, config, keypad, mirrored,
                       store, table, acked>>

(* Mutated form: > in place of >= IAS_ACE_CMD_EMERGENCY.                    *)
isAlarmSystemDeviceEventHigh(e) ==
    \/ e[1] = "sensor"
    \/ e[1] = "action" /\ e[3] \in (Emergency + 1)..Panic

(* isAlarmSystemDeviceEvent(): sensor events, and keypad actions whose     *)
(* number is that of the emergency, fire or panic command: also an arm      *)
(* command for the night or away mode.                                      *)
isAlarmSystemDeviceEvent(e) ==
    \/ e[1] = "sensor"
    \/ e[1] = "action" /\ e[3] \in Emergency..Panic

(* AS_HandleAlarmSystemDeviceEvent(): the device's mask as it is now goes  *)
(* into the alarm event.                                                   *)
AS_HandleAlarmSystemDeviceEvent ==
    LET e == Head(queue)
    IN  /\ e[1] \in {"sensor", "action"}
        /\ queue' = IF isAlarmSystemDeviceEvent(e) /\ table[e[2]] # NoEntry
                    THEN enqueueEvent(Tail(queue), DeviceAlarm(table[e[2]]))
                    ELSE Tail(queue)
        /\ UNCHANGED <<machine, items, clients, store, table, acked>>

handleEvent ==
    /\ queue # <<>>
    /\ \/ handleArmModeEvent
       \/ handleDeviceAlarm
       \/ handleStateEvent
       \/ handleConfigEvent
       \/ AS_HandleAlarmSystemDeviceEvent

-----------------------------------------------------------------------------
TimerStep == \E step \in 1..MaxStep, late \in BOOLEAN : timerFired(step, late)

Input ==
    \/ \E mode \in RequestMode, code \in Code : putAlarmSystemArmMode(mode, code)
    \/ \E k \in Keypad, mode \in RequestMode, code \in Code :
           handleArmCommand(k, mode, code)
    \/ \E k \in Keypad, n \in Command : emergencyCommand(k, n)
    \/ \E d \in Device \ Keypad : sensorReports(d)
    \/ \E c \in ConfigChange : putAlarmSystemConfig(c[1], c[2], c[3])
    \/ \E code \in Code : setCode(code)
    \/ \E d \in Device, mask \in Mask : put(d, mask)
    \/ \E d \in Device : erase(d)
    \/ commitRefused
    \/ committed
    \/ closeDb
    \/ openDb
    \/ Restart

Next == handleEvent \/ TimerStep \/ Input

Spec == Init /\ [][Next]_vars

(* The event loop runs: queued events are notified, a running timer fires. *)
FairSpec == Spec /\ WF_vars(handleEvent) /\ WF_vars(TimerStep)

-----------------------------------------------------------------------------
Events ==
    {ArmModeEvent}
    \cup ({"config"} \X Parameter \X ArmMode \X Nat)
    \cup ({"armstate"} \X PanelStatus)
    \cup ({"seconds"} \X Nat)
    \cup ({"sensor"} \X Device)
    \cup ({"action"} \X Keypad \X Nat)
    \cup ({"devicealarm"} \X SUBSET ArmedMode)

Entry == (SUBSET ArmedMode) \cup {NoEntry}

Database == [mode : ArmMode, config : Delays, table : [Device -> Entry],
             code : Code \cup {NoCode}]

(* Type invariant.                                                         *)
TypeOK ==
    /\ curState \in State
    /\ targetState \in ArmMode
    /\ exitDelay \in Nat
    /\ entryDelay \in Nat
    /\ triggerDuration \in Nat
    /\ armMask \in SUBSET ArmedMode
    /\ timer \in BOOLEAN
    /\ dt \in Nat
    /\ armState \in PanelStatus
    /\ seconds \in Nat
    /\ armMode \in ArmMode
    /\ config \in Delays
    /\ needPush \subseteq StateItem \cup ConfigItem
    /\ queue \in Seq(Events)
    /\ table \in [Device -> Entry]
    /\ keypad \in [Keypad -> PanelStatus \X Nat]
    /\ DOMAIN pushed = {"state", "config"}
    /\ dbOpen \in BOOLEAN
    /\ autocommit \in BOOLEAN
    /\ db \in Database
    /\ disk \in Database
    /\ lost \in [Row -> Fate]
    /\ acked \in ArmMode
    /\ mirrored \subseteq Keypad

(* A disarmed system is never armed, delayed towards an alarm or in alarm, *)
(* and the mask that filters device alarms is that of the target mode.     *)
StateMatchesTarget ==
    /\ curState = "Disarmed" => targetState = "disarmed"
    /\ curState \in {"Armed", "Arming", "EntryDelay", "InAlarm"}
           => targetState # "disarmed"
    /\ armMask = targetArmMask(targetState)

(* The 1 s timer runs exactly in the states that only it can end: no state *)
(* is stuck, and no stray tick reaches Disarmed or Armed.                  *)
TimerMatchesState ==
    timer <=> curState \in {"ExitDelay", "EntryDelay", "InAlarm", "Arming"}

(* setTargetArmMode(): "The state machine will pick up a changed mode":    *)
(* a requested mode that is not yet the target has its event in the queue, *)
(* although equal events are merged and the mode may change again; and an  *)
(* event in the queue always finds such a mode when it is notified.        *)
ModePickedUp == armMode # targetState <=> Queued(queue, ArmModeEvent)

(* state/armstate is the panel status of the state and target, except on   *)
(* a new system that was never armed.                                      *)
PanelShowsState ==
    /\ armState = "disarmed"    => curState = "Disarmed"
    /\ armState = "exit_delay"  <=> curState = "ExitDelay"
    /\ armState = "entry_delay" <=> curState = "EntryDelay"
    /\ armState = "in_alarm"    <=> curState = "InAlarm"
    /\ armState = "not_ready"   => curState = "Disarmed"
    /\ armState \in ArmedMode   <=> curState = "Armed"
    /\ curState = "Armed"       => armState = targetState
    /\ curState = "Arming"      => armState = Arming[targetState]

(* state/seconds_remaining counts down from the delay that is running and  *)
(* is 0 in all other states.                                               *)
CountdownBounded ==
    /\ curState = "ExitDelay"  => seconds <= exitDelay
    /\ curState = "EntryDelay" => seconds <= entryDelay
    /\ curState \notin {"ExitDelay", "EntryDelay"} => seconds = 0

(* The machine as a whole: AlarmSystemPrivate relies on each of these when *)
(* a tick, a request or an event meets a state that an earlier one entered.*)
MachineConsistent ==
    /\ StateMatchesTarget
    /\ TimerMatchesState
    /\ PanelShowsState
    /\ CountdownBounded

(* A row has what memory has, or its change is in the open transaction, or  *)
(* it is lost for one of the reasons.                                       *)
RowStored(row, value, reasons) ==
    \/ InRow(disk, row) = value
    \/ ~autocommit /\ InRow(db, row) = value
    \/ lost[row] \in reasons

(* What a restart forgets, and why.  A mode is acknowledged, a configuration *)
(* changed and a device added although the statement failed, or a           *)
(* transaction with it is rolled back; the configuration and devices, but no *)
(* mode, also without a connection.  A removed device only returns when its  *)
(* removal is rolled back: a failing DELETE refuses the removal.  Nothing    *)
(* else is lost, and no longer than until the row is stored again.           *)
OnlyLostIsForgotten ==
    /\ RowStored(ModeRow, armMode, {"failed", "undone"})
    /\ \A p \in Parameter, m \in ArmMode :
          RowStored(ConfigRow(p, m), config[p][m], {"failed", "closed", "undone"})
    /\ \A d \in Device :
          RowStored(DeviceRow(d), table[d],
                    IF table[d] = NoEntry THEN {"undone"} ELSE {"failed", "closed", "undone"})

StateEventQueued ==
    \E k \in 1..Len(queue) : queue[k][1] \in {"armstate", "seconds"}

ConfigEventQueued ==
    \E k \in 1..Len(queue) : queue[k][1] \in {"armmode", "config"}

(* Once the state events are processed each keypad shows the panel status  *)
(* and the seconds of the alarm system.                                    *)
KeypadShowsPanel ==
    \A k \in mirrored :
        table[k] # NoEntry /\ ~StateEventQueued
            => keypad[k] = <<armState, secondsRemaining>>

(* Once the events are processed the websocket clients know every value.   *)
WebsocketUpToDate ==
    /\ pushed.state # <<>> /\ ~StateEventQueued
           => pushed.state = <<armState, seconds>>
    /\ pushed.config # <<>> /\ ~ConfigEventQueued
           => pushed.config = <<armMode, config>>

(* A mode whose acceptance was reported to the client is the one the       *)
(* system will apply.                                                      *)
AcceptedModeIsSet == acked = armMode

(* A requested mode becomes the target of the state machine, however many  *)
(* requests, events and restarts come in between (setTargetArmMode(): "The *)
(* state machine will pick up a changed mode").                            *)
ModeEventuallyApplied ==
    (armMode # targetState) ~> (armMode = targetState)

(* The device reported something, or a keypad sent a command, that raises    *)
(* an alarm and is not processed yet.                                       *)
ReportQueued(d) ==
    \/ Queued(queue, SensorEvent(d))
    \/ \E n \in {2, 3, 4} : Queued(queue, ActionEvent(d, n))

(* No report is missed by an armed system: although equal events are merged  *)
(* on both queues it passes, the mask is read late and the mode may change,  *)
(* it starts the entry delay, unless the system left the armed state, the    *)
(* device its mask, or the process restarted (nothing pushed since).         *)
ReportRaisesAlarm ==
    \A d \in Device :
        (curState = "Armed" /\ ReportQueued(d) /\ table[d] \cap armMask # {})
            ~> (curState # "Armed" \/ table[d] \cap armMask = {} \/ pushed.state = <<>>)

(* Disarming completes: the exit delay of the disarmed mode ends.          *)
DisarmCompletes ==
    (targetState = "disarmed") ~> (curState = "Disarmed" \/ targetState # "disarmed")

(* Entry delay, alarm and arming end; an alarm is not endless.             *)
DelaysEnd ==
    \A st \in {"EntryDelay", "InAlarm", "Arming"} : (curState = st) ~> (curState # st)
=============================================================================
