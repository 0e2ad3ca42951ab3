# A TLA+ model of the deCONZ REST plugin

The plugin turns a Zigbee network, driven by the deCONZ core, into a REST API
with websocket notifications. It is a single threaded Qt program: everything
happens in callbacks of one event loop (timers, confirms and indications of the
core, HTTP requests). What makes it hard is not parallelism but the order of
callbacks: a request is confirmed, answered, timed out and repeated in any
order, handlers enqueue events while events are being processed, and state read
in one callback is used in a later one.

All paths are relative to `src/`.

## 1. Inventory

| Component | State | Operations | Interacts with | Hard behaviour | What makes it correct |
|---|---|---|---|---|---|
| **Event emitter** (`event_emitter.cpp`, `event_queue.cpp`) | urgent vector, normal vector with a cursor, a timer | `enqueueEvent`, `process`, `timerFired` | every component posts to it and is called by it | handlers enqueue while the vectors are walked; a pass stops after 10 ms | urgent first, an equal waiting event merged, nothing lost, the timer runs while events wait |
| **Alarm systems** (`alarm_system*.cpp`, `ias_ace.cpp`, `rest_alarmsystems.cpp`) | state handler, target mode, delays, panel status, device table, secrets in the database | arm and disarm by REST and keypad, sensors, timer, configuration, restart | event emitter, database, keypads, websocket | requests overtaken by their own events, failing statements, a transaction left open, a closed database, a restart in a delay | the requested mode is applied and shown, forgotten only with its statement or transaction; no report is missed |
| **Device, levels 0 and 2** (`device.cpp`) | parallel state handlers with locks and timers, poll queue, results of running requests | interview, polling; `handleEvent`, `timerEvent` | event emitter, DDFs, DeviceTick, the core, the device widget | events between a state change and its StateEnter, lost confirms and answers, reload at any time | no state waits for ever, no timer outlives its state, sub states end with their parent |
| **Device, level 1** (`device.cpp`) | iterators over bindings, reports and frames, what was bound and checked when | read the binding table, verify, bind, unbind, read and configure reports, idle | ZDP and ZCL, the core's binding table, DDF, legacy code | lost and late answers, iterators across events, DDF and group change | the device ends up with the bindings and reports of its DDF and no others |
| **DeviceTick** (`device_tick.cpp`) | one state, cursor, joining devices | poll the next idle device, follow joining devices | Device by `REventPoll` and `REventPollDone`, permit join | PollDone of another device, joining switched off and on | every reachable device is polled again and again |
| **Permit join** (`permitJoin.cpp`, searches in `rest_lights.cpp`, `rest_sensors.cpp`) | time left, last broadcast, searches with timers | countdown, resend, search | DeviceTick, the core | REST and timer race, overlapping searches | routers are open as long as the gateway, all is closed in the end |
| **Channel change** (`change_channel.cpp`) | state, retries, attempts, one timer | announce, leave, join, verify | core network state | the core is late, the confirm late or lost | ends in idle |
| **Touchlink** (`rest_touchlink.cpp`) | state, action, channel, scan count, timer | scan, identify, reset | core, inter-PAN mode | requests without timeout | ends, and the network is joined again |
| **Reconnect and restart** (`de_web_plugin.cpp`, `rest_configuration.cpp`) | network state, attempts, timers | reconnect, restart the application | the two above | three machines on one network | none of them waits for nothing |
| **StateChange** (`state_change.cpp`, `resource.cpp`) | per change: items with targets, state, two timers, retries | tick, verify, read back, retry | resources, APS requests, events | confirm, report, read back, timeouts and values the API writes itself race | a change is finished on the word of the device alone, every change ends |
| **APS busy table** (`device_access_fn.cpp`) | slots and their count | begin, confirm | StateChange, bindings, polling | full table, lost confirms | the count is the number of used slots |
| **Task queue** (`de_web_plugin.cpp`) | waiting and running tasks | `addTask`, `processTasks`, `apsdeDataConfirm` | core, REST, PollManager | replacement, limits, lost confirms, ordered tasks | order is kept and requests to devices leave |
| **PollManager** (`poll_manager.cpp`) | devices that wait, one item, state, timer | `poll`, `pollTimerFired`, `apsdeDataConfirm` | task queue | timeout and confirm race, confirms of dropped tasks and reused ids | every device gets its turn |
| **Database and save queue** (`database.cpp`, `rest_configuration.cpp`) | flags, timer, connection with its transaction | `queSaveDb`, `saveDb`, stores, export, import | all stores | BEGIN and COMMIT refused, statements fail, connection closed in a transaction, crash | only a failed statement or a rollback loses a change, an import takes effect |
| Rules, schedules | conditions, time stamps, status | trigger, execute | resources | rule events while items change | a rule fires once per change |
| IAS zone, firmware update, gateways, reset, legacy bindings | one state machine each | | core, processes, HTTP | timeouts and late answers | each ends in idle |
| Groups, scenes, OTA, websocket, authorisation, DDF parsing, cluster handlers | | | | mostly parsing and I/O | |

Components in bold are modelled, wholly or in part. `PROJECT.json` lists every component with its
status and, under `hazards`, each place where something can go wrong that a test
would hardly reach. Left aside as third-party or data: `device_js/duktape.c`,
`cj/`, `devices/`.

How the parts hang together: callbacks of the core and of HTTP clients post
events; the emitter hands them to devices, alarm systems, rules and the
websocket. DeviceTick posts a poll to one device at a time; the device's three
levels answer to it, to confirms and to answers. State changes hang on resources
and move with the same events. Older devices are reached through the task queue
and the poll manager instead. Permit join, channel change, touchlink and
reconnect act on the core's network. Everything that is kept goes through the
save queue or directly into the same database connection.

## 2. Plan

The order follows the flow of control: everything is driven by the event
emitter, and the machines with most consequences come next.

1. **Event emitter**: `EventBus` (abstract), `EventEmitter`, refinement, proofs. *Done.*
2. **Alarm system**: `AlarmSystem`, proofs. *Done.*
3. **Device**: `Device` with interview and polling, proofs. *Done.*
4. **Device bindings**: `DeviceBinding`, the level 1 machine, proofs. *Done.*
5. **DeviceTick** with **permit join**: `DeviceTick`, `PermitJoin`, composed in `Joining`; proof about permit join. *Done.*
6. **StateChange** over `ApsBusy`; **PollManager** over `TaskQueue`; proofs. *Done.*
7. **Channel change**, **touchlink**, reconnect: composed in `Network`, proofs. *Done.*
8. **Save queue** of the database with crashes, import and export, proofs. *Done.*
9. IAS zone, firmware update, gateways, reset of deleted devices: machines with
   timeouts of the same shape as those above. *Left.*
10. Rules and schedules, with conditions as operators checked against a reference
    definition; groups and scenes with their retries. *Left.*

Abstract specifications stated: the event bus. Worth stating next: "request,
confirm, answer or timeout" for the many machines that ask a device something.
Every safety property of the passing runs is proved (`RoutersStayOpen` for permit join
by itself). Theorems worth proving next are those
of machines still to be modelled, and refinements of that abstract request.

## 3. Modules

| Module | Models | State | Actions |
|---|---|---|---|
| `EventBus` | what the emitter promises | the events that wait in each of two queues, and the last event posted, so that a lost one is visible | post (merging), notify urgent first, handler returns |
| `EventEmitter` | `event_emitter.cpp` with all its control | both vectors, cursors `i` and `m_pos`, timer, program counter of `process()` | `EnqueueUrgent`, `EnqueueNormal` (also from handlers), `TimerFired`, the steps of the loops, `LeaveLoop` |
| `AlarmSystem` | alarm systems with keypads, sensors, database | machine, items, queue, device table, what the connection reads (`db`) and what is committed (`disk`) | one per REST request, keypad command, report, timer and event; `commitRefused`, `committed`, `closeDb`, `openDb`, `Restart` |
| `Device` | `device.cpp` of one device, levels 0 and 2 | `sm` (handlers, `stateEnterLock`, timers, urgent events), `dev` (members and items), `core`, `queue` | `StateEnter`, `Notify`, `timerEvent`, `reloadTimerFired`, and what arrives |
| `DeviceBinding` | level 1 of the same device | `sm`, `tick` (REventBindingTick), `ctx` (BindingContext), `checked` (report trackers), the requests under way, the core's `table`, the `device` itself | per state what is done on StateEnter and tick, one per answer, `ApsConfirm`, `StateTimeout`; reload, group change, device forgets |
| `DeviceTick`, `PermitJoin` | the files of these names and the searches | state, cursor, joining devices; countdown, last broadcast, events, searches | `Tick`, `Second`, `SearchTimer`, open and close |
| `Joining` | the two together | and a count of requests | `Request`, `Notify`, `NetworkBack` |
| `NetworkCore` | the core's network as the machines below use it (external) | connected, channel, mode | leave, join, the core is late or loses the network |
| `ChannelChange`, `Touchlink` | the files of these names | one machine, its timer, its confirm | timer, confirm, request |
| `Network` | both with reconnect and restart on one network | reconnect machine, restart | all of the above, `Watchdog`, settings, `ConnectEnds`, `NetworkLost` |
| `ApsBusy` | the table of unconfirmed requests | slots with address, id and age, the count | begin, confirm |
| `StateChange` | changes of one resource with two items, over `ApsBusy` | changes, items and their source, events, device, requests in the air | put, events, poll, read back, timeouts, confirms, losses |
| `TaskQueue` | `addTask()`, `processTasks()` | waiting and running tasks | add, send, age, group delay |
| `PollManager` | `poll_manager.cpp` over the task queue | devices that wait, item, state, timer, request id | idle timer, poll timer, every confirm of the core, API requests |
| `SaveQueue` | saving, export and import | memory, flags of sections and of objects, timer, connection (`view`, `autocommit`), `disk` | change, store, save, export, import, `Restart`, `Crash` |
| `*Proofs` | the theorems | | |
| `MC*` | constants for TLC | | |

`AlarmSystem`, `Device`, `StateChange` and the others use the emitter by its
promise: a normal queue that merges equal events, urgent events first.
`EventEmitter` is shown to implement it. `DeviceBinding` gives the detail of what `Device`
has as the single state `Binding` of level 1: `Device` shows that the level lives
exactly as long as Idle, `DeviceBinding` takes this as its `IdleEnter` and `Reload`.

Definitions have the names of the code (`setState`, `DEV_PollNextStateHandler`,
`updateTargetStateValues`). In `Device` a handler takes the event, the machine,
the members and the queue as they are at the call, and says by `Becomes` what it
leaves: so nested calls (Idle passing an event to its sub states) remain one step,
as in the code. `setState()` runs the StateLeave branch of the old handler at
once and queues StateEnter: `leave` and `urgent`; in `DeviceBinding`, `entering`.
`SaveQueue` has an operator for each function, from the store before to the store
after, or to the set of those a refused BEGIN or COMMIT may leave.

Abstractions:

- Events are names; a confirm says whether it belongs to the running ZDP request,
  the running read, or another one. A new request renames what is queued for the
  one before (`forget`), since its id no longer matches.
- In `Device` only the last poll item is ever tried, so the poll queue is a
  length and the retry counter of that item. Which items a round collects is
  nondeterministic. Time is reduced to "the timer may fire" and "awake expires".
- In `AlarmSystem` a code is right or wrong; seconds are counted, bounded by the
  delays. Saving by `SaveQueue` uses the same connection: what it does to an alarm
  system is that its COMMIT is refused (`commitRefused`) or a later one succeeds
  (`committed`). Setting a code either succeeds or changes nothing. In `PermitJoin` and `DeviceTick` a step of a timer is a second.
- In `DeviceBinding` a report is a binding and a position, with a manufacturer
  code; whether a time stamp is older than the half hour or hour it is compared
  with is one flag, set when BindingIdle ends. A DDF has at most one binding to
  groups. Merging reports of equal bindings (`mergeBindingReportConfigs()`) and
  `supportsMgmtBind` of a DDF are left out.
- In `PermitJoin`, `sendFailed` remembers that a broadcast was due and could not be
  sent (no network, or the core refused it) since the last one that was.
- In `TaskQueue` ids of requests come from a pool (`IdPool`) that is large enough
  for a new id to differ from those of all tasks that wait or run and of the tasks
  these refer to; in the code ids count up and wrap far beyond that.
- In `StateChange` and `TaskQueue` requests are the commands, reads and scene
  requests that differ in how they are queued, retried and read back. In
  `StateChange` `told` and `heard` are history: what the device said last of an item,
  and what of it the changes have been told of by an event.
- In `PollManager` a confirm is an id and a destination. Those the manager or the
  queue waits for come at any moment, to any destination, any number of times;
  a confirm of any other id meets nothing (`Awaited`).
- In `SaveQueue` a section or an item is one value; SQLite is a connection with at
  most one open transaction, of which any statement may fail (it takes its lock with the
  first write). A failing `openDb()` and a full disk are left out. `failed` and
  `undone`, and `lost` of `AlarmSystem`, are history: why the last change of a row is
  not in the database. They start anew with the next change or write of that row.
- Inputs arrive while a queue is shorter than its bound (`MaxQueue`, `QueueBound`,
  `EventBound`); the queue itself is not bounded, and the proofs do not depend on
  the bound.

Mutant forms stand before the definition they change, each with what it breaks;
no specification uses them.

## 4. Runs

| Run | Shows |
|---|---|
| `emitter` | the emitter implements the bus, urgent first; an event is left without a pass or timer only when a pass was out of time before its first event and urgent events alone wait (`Stranded`), and unless that happens every event is notified |
| `alarm_machine` | requests, sensors, timer, configuration, database and restarts in any order keep state, timer, panel and countdown consistent; a restart forgets an acknowledged mode, configuration or device only if its statement failed, it had no connection, or its transaction was rolled back, by a close or by the restart itself (`OnlyLostIsForgotten`) |
| `alarm_keypad` | a keypad that arms for the night and sends panic, with REST clients: it shows the panel; requests are applied although a second one comes in while the event of the first waits, a report that concerns an armed system starts the entry delay, disarming completes, delays end |
| `alarm_lost_request` | *violation*: an acknowledged disarm is dropped |
| `device_interview` | a zigbee and a green power device with anything the core may know, without the widget: no event meets a level that waits for StateEnter, the interview completes, poll rounds end |
| `device_poll` | a sleeping device and the coordinator, new or known, while the widget reloads them at any moment |
| `bindings` | a device that can or cannot list its bindings, with two endpoints and a group: no pass hangs, iterators stay valid, the device ends up as its DDF wants |
| `network` | channel change, touchlink, reconnect and the user on one network: each ends |
| `joining` | permit join, searches and DeviceTick: routers stay open, joining ends, devices are polled |
| `statechange` | two changes of two items over a busy table shared with another device: the count of requests is right, a change is finished only if its items heard the target last from the device, every change ends |
| `requests` | users and the poll manager with two devices on one task queue, with confirms at any moment, also of dropped tasks and reused ids: scenes are stored after they are added, unicasts leave, every device gets its turn |
| `store` | saves with failing statements, exports, imports, restarts and crashes: `LossesExplained`, what is queued is saved, an import takes effect |

**Bounds.** The emitter has two different events and up to four entries, so that an
event can be before and behind the cursor and in both vectors. Alarm delays are
1 s for exit and entry and 2 s for the alarm, and the timer may be late by a tick
(`MaxStep`), which gives a first, an inner and a missed last second; `QueueBound`
admits requests while one event waits, so that a second request meets the
event of the first. `alarm_machine` has statements that fail, refused COMMITs and
closed connections (`Fault`), at most one row with a lost change at a time
(`MaxLost`; the properties speak of single rows), one sensor and one delay that is
configured anew. `alarm_keypad` has no faults and one device, the keypad
itself, which arms for the night, whose number is that of the emergency command, and
sends panic (`Command`), the first and last number that raise an alarm. In the device runs one input may wait while another is processed;
`device_interview` has two endpoints, so first and last differ; `device_poll`
has two items, two retries and one tolerated confirm error, which puts the
counters below, at and above their limit. `MaxUrgent` bounds how often the widget
reloads while StateEnter waits.

In `bindings` a frame holds two reports and one binding has three, so that frames
are full and partly full; a page holds one binding, so that tables take several;
`ChangeBound` allows one reload, legacy binding, group change or loss of the
device's memory, `FaultBound` two requests that are refused, lost or answered
late: two are needed for a late answer to meet another request. In `network`
there are two channels with the same number of scans (`FirstScans` is 1; the code has 5
on the first, the theorem any number), two attempts and retries, one confirm under way and two requests of the user, enough for any two
machines to meet. `joining` has an interval of two seconds with a slack of one,
durations that need several broadcasts, a sleeper and another device, and three
requests, so that joining is enabled, disabled and enabled again. `statechange`
has a table of one slot, which every second request overflows, one readable and
one other item, and a DDF default besides the requested change; the API writes
the readable item itself (`Local`). `requests` has two devices with one attribute, of which one may go
away (`GoesAway`), one request of a user or change of the network (`ApiBound`), limits of one or
two at each queue, and a pool of ten ids, the smallest that is free being used again. `store` has a section with and one
without a delayed flag and an item; two values suffice for a stale one.

Runs whose counters bound the user's requests (`network`, `statechange`,
`requests`) stop when nothing is left to do, so deadlock is not checked there.

**Fairness.** The Qt event loop runs timers that are due and `process()`
continues, so steps of the program are weakly fair. A timer that may be stopped
and started again by others is strongly fair in `network`, `statechange` and
`store`: it fires in the end although it is not always running (`ChangeTimer`
and `TouchlinkTimer` also find the core busy connecting, when they do nothing
but start again; saves are refused while another process reads the database,
which lets go now and then). Devices, clients and the radio owe nothing, except:

- `InterviewCompletes` says what a device that keeps answering and polls that
  keep coming lead to (`Answering`), when setbacks (timeouts, refusals, reloads) end;
- `bindings` has answers to what the device received, and finitely many faults;
- `network`: the core ends connecting, and the touchlink controller confirms;
- `statechange`: the device is polled and becomes reachable again;
- `joining`, `requests`: the network and the devices come back.

### Finding

`alarm_lost_request`: `setTargetArmMode()` compares with the applied mode. Arm
and, before its event is processed, disarm: the disarm is acknowledged and
dropped (`alarm_system.cpp:531`).

### Observations

What else the models showed about the code. The models have this behaviour, and
the properties are stated so that they hold with it.

1. *Emitter.* `timerFired()` restarts the timer for the normal queue only. If 10 ms
   pass before the first event of a pass, urgent events alone in their queue wait
   until something else is enqueued (`event_emitter.cpp:149`).
2. *Alarm.* `AlarmSystem::didSetValue()` does not look at whether its statement
   succeeded (`alarm_system.cpp:440`): a mode or configuration is acknowledged and gone after
   a restart. Stay and night take their trigger duration from the exit delay
   (`alarm_system.cpp:285`).
3. *Alarm.* A keypad's arm command is taken for EMERGENCY (night) or FIRE (away),
   since both are numbers of `state/action` (`alarm_system_event_handler.cpp:164`): once the
   system is armed it can raise an alarm, also when the command was refused.
4. *Device.* `DeviceWidget::reloadTimerFired()` calls `handleEvent()` past the queue
   and meets the branch that "should never hit" (`device.cpp:2376`).
5. *Bindings.* An answer to an earlier read of report configurations counts for
   the present one, also of another binding with the same attributes
   (`device.cpp:1589`), and marks whatever is "busy" as checked (1597). If answers
   keep coming one too late, the binding is never configured; hence late
   answers count as faults in `bindings`.
6. *Bindings.* After a full frame the iterator stays on its last report, which is
   read twice (1547). A successful configuration does not mark a report as
   checked. A page of no entries is asked for again without end (1103). The
   status of an unbind is not looked at (1419). A configured group 0 leaves the
   group of before (1186).
7. *Reconnect.* After a successful reconnect the state stays ReconnectNetwork with
   its timer stopped, and the next loss of the network is not handled
   (`de_web_plugin.cpp:16873`). Automatic reconnect does not look at
   `touchlinkState`. The restart after an import waits for a network that was
   connected before (16615). `checkNetworkDisconnected()` is never reached.
8. *Network.* `GET /config` during a requested disconnect sets
   `gwRfConnectedExpected` back to true. A touchlink confirm that never comes
   leaves touchlink active: there is no timeout.
9. *Joining.* DeviceTick leaves its join state while permit join is on when it was
   disabled and enabled within 20 s, or enabled during boot. A search that is
   started when its time reaches 0 gets two timers. The seconds of a request are
   overwritten by `gwNetworkOpenDuration`. A closing broadcast that fails is not
   repeated. REventPollDone of any device ends the poll of the present one.
10. *StateChange.* Contradicting targets with different sets of items fight until
    the change timeout of 180 s. `removeStateChangesForItem()` uses an iterator
    after it erased its element (`resource.cpp:1932`). A write of several
    attributes that fails half way leaves requests uncounted.
    `rest_lights.cpp:2450` adds a change without items. Changes fail early
    (`state_change.cpp:106`), where the header says after the timeout.
11. *Requests.* The poll manager compares a confirm's id and destination only: one of an
    earlier request with the same id to the same device ends the wait of the
    present one, and a bad status drops its other attributes. An ordered task whose predecessor is never confirmed waits until
    the running list fills (`de_web_plugin.cpp:11578`). The limit of six groupcasts
    under way cannot be reached with five running tasks. A read that the queue
    refuses is skipped silently. A refused groupcast stays, a unicast is dropped.
12. *Store.* The flags are cleared before the final COMMIT; if it is refused, the
    transaction stays open until the next save and direct stores land in it, those
    of the alarm system too (`database.cpp:5844`). An export in between rolls it
    back: changes that were saved, and requests that were acknowledged, are lost
    (`undone`). Statements that fail are logged only and their flags cleared
    (5015 to 5054), so the section's change is lost until it is written again (`failed`).
    DB_NOSAVE stays after a failed import. Flags set without `queSaveDb()` wait for
    the next save.
13. *Import.* DB_NOSAVE is looked at by `saveDb()` only: an item stored between an
    import and the restart is written into the imported database, which
    `rest_configuration.cpp:2529` means to prevent. `ImportTakesEffect` therefore
    speaks of sections.

## 5. Proofs

Proved by TLAPS for all values of the constants, with the named assumptions of
the modules (`DeviceAssumption` and so on: types and ranges of constants).

- **EventEmitter.** `EmitterInv` relates cursors, vectors and program counter:
  where the loop stands decides what can be left in a vector, which type
  correctness alone does not tell. From it: `EmitterSafe`, `NoLostWakeup` and
  `EmitterImplementsBus`. The refinement maps each vector to its rest behind
  the cursor; lemmas say what enqueueing and notifying do to a rest.
- **AlarmSystem.** `AlarmInv` is types, `MachineInv` and `PickupInv`. `MachineInv`
  ties state, target, timer, panel and countdown together, since each timer step
  relies on what the step that entered the state has set (`AlarmMachineSafe`).
  `PickupInv` adds to `ModePickedUp` that the queue has no duplicates: otherwise
  notifying one of two arm mode events would say nothing about the other.
  `OnlyLostForgotten` has no assumption on the database. It relates memory to what the
  *connection* reads, row by row, and the connection to what is committed
  (`StoreInv`): a statement may succeed and be rolled back later, and a row may have the
  right value in the database by chance while an open transaction has another.
  `ClientInv` is about who is told: for each keypad and websocket client, it knows
  the right value or nothing yet, or an event is queued *whose item still has its
  flag*. That an event is queued is not enough, since a push clears the flags of
  all items that changed; and that a keypad gets the seconds needs `MachineInv`,
  as the panel status tells whether a delay runs (`KeypadsShowPanel`,
  `ClientsUpToDate`).
- **Device.** `DeviceInv` is `Good(sm)`, the queue's type and `DescriptionPending`.
  During a handler `Good` does not hold (StateEnter unlocks before the timer is
  started, a timeout stops it before the state is left), so the lemmas about
  `setState()` and timers go from `Weak` to `Good`. `DeviceMachineSafe` covers the
  widget's reloads too; `NothingDropped` needs their absence.
  `MembersInv`, proved on top of it, has the ranges of the members and `Fits`: a
  poll request runs only for an item that is there. Between two steps of PollBusy
  the item could be lost to another round, a reload or the confirm counting of Idle;
  the lemmas show for each handler that it keeps the poll queue, ends the request
  or leaves the state (`PollHasItem`, `DeviceTypes`).
- **DeviceBinding.** `BindingInv` adds to `BindingGoesOn` and the ranges of the
  iterators what the handlers rely on across events: the report iterators are
  ordered (`configIter <= reportIter <= Len`), and a read that is under way has
  asked for something (`HasRecords`), for otherwise the answer would configure a
  report that is not there. A DDF that is reloaded is met by the states that no
  longer iterate. (`BindingNeverHangs`, `IteratorsValid`.)
- **StateChange.** `Inv` has a part for the busy table and one for the changes.
  The counter is the number of used slots (`TableOK`) only as long as no two slots
  are for the same request and ids tell requests under way apart, which needs that
  the core's queue is shorter than the range of ids. For the changes (`SyncedOK`):
  an item that was verified has the target that was heard last from the device, unless
  the round that is told of a newer value has still to come to this change. That an
  item whose source is the device holds what the device said last (`ToldOK`) is needed
  since the code compares the item, not the event, and the API may write
  the item in between. A change ends only in the round that erases it. The slots
  are found by a smallest element, which exists since the order of numbers is well
  founded; no induction over the table is needed. (`CountersRight`, `FinishedTrue`.)
- **PollManager and TaskQueue.** `StoreAfterAdd` speaks of running tasks only. `Inv`
  adds the limits of the queue and that of two waiting tasks the one that adds a
  scene stands before the one that stores it (`InOrder`), which replacing, dropping
  and sending keep: a task that replaces another takes its place, and the id of a
  new task is one no waiting or running task refers to (hence the assumption on
  `IdPool`). (`TypesRight`, `ScenesInOrder`.)
- **PermitJoin.** `RoutersInv` says how long the routers are open depending on the
  age of the last broadcast, and that an age beyond the interval means that one was
  missed. `RoutersOpen` needs a slack of at least a second (the code has 5): with
  none, the routers close a second before the next broadcast. It is a theorem about
  `SpecPermitJoin`, the steps of `PermitJoin` alone; every step of `Joining` is one
  of these or leaves their variables unchanged. It stands in `NetworkProofs`.
- **Network.** Types, and for each machine that it goes on (timer running or
  confirm to come), are inductive together: the types need that attempts and
  retries are counted down from values the step before left in range. There is one
  lemma per machine for its own steps; `OthersKeep` and the like say that a
  machine keeps the part of another, whose variables it shares only through the
  core. `NetworkNeverStuck` puts them together.
- **SaveQueue.** `LossesExplained` is not inductive: a value that was changed and
  changed back is in the database again, but not in an open transaction that
  holds the value in between. `StoreInv` says instead that unmarked data are
  what the *connection* has, that without a transaction the connection shows
  the database, and that after an import DB_NOSAVE is set and sections are the
  imported ones. Marked are, beside what is flagged, the sections whose statement failed and
  what a close rolled back, until they are written again. Lemmas say what each operator on the store keeps; from them
  `LossesAreExplained` and `ImportSurvivesRestart`.

## 6. Only model-checked

Liveness (`EventuallyNotified`, `ModeEventuallyApplied`, `DisarmCompletes`,
`DelaysEnd`, `ReportRaisesAlarm`, `InterviewCompletes`, `PollRoundEnds`, `BindingsGetSet`, `ChangeEnds`,
`TouchlinkEnds`, `JoiningEnds`, `EveryDevicePolled`, `ChangesEnd`, `UnicastsLeave`,
`PollingGoesOn`, `QueuedIsSaved`): fairness and ENABLED are out of the prover's
reach. That `Joining` as a whole keeps `RoutersStayOpen` is checked by `joining`; the
theorem is about permit join alone. `AcceptedModeIsSet` is violated (see Finding).

## 7. Not modelled

IAS zone enrolment, firmware update, gateways, reset of deleted devices, legacy
bindings, rules, schedules, groups and scenes (points 9 and 10 of the plan).
Sub devices, several devices or alarm systems at once, payloads, JSON, SQL,
hashing, DDF parsing, and the decoding of clusters: they compute values and have
no order of steps to get wrong. Removal of nodes by the core
while a device keeps a pointer to one (`de_web_plugin.cpp:16499`) is not in
`Device`. The core (nodes, descriptors, network) and the devices are external,
modelled by what the code here relies on.
