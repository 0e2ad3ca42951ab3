---------------------------- MODULE DeviceBinding ----------------------------
(***************************************************************************)
(* Level 1 of the device supervisor (device.cpp): while the device is Idle *)
(* a sub state machine keeps its binding table and the reports configured  *)
(* on it as the device description (DDF) wants them.                       *)
(*                                                                         *)
(*   Binding -> TableRead -> Verify -> Create -> Verify                    *)
(*   Verify -> ReadReport <-> Configure, then the next binding             *)
(*   Verify -> Remove -> Binding, or BindingIdle for an hour               *)
(*                                                                         *)
(* Requests fail, their confirms and answers are lost or late, the device  *)
(* forgets what it was told, and users reload the DDF or choose another    *)
(* group at any moment.  Every failure leads back to Binding, from where   *)
(* the next event of the device starts all over.                           *)
(***************************************************************************)
EXTENDS Integers, Sequences, FiniteSets

CONSTANTS
    Binding,        \* the bindings DDFs may declare
    reporting,      \* the manufacturer codes of a binding's reports, in order
    GroupBinding,   \* those to a group, whose id is in RConfigGroup
    Ddfs,           \* sequences of bindings: DDFs the device may get
    Group,          \* ids of groups
    MaxRecords,     \* reports in one frame (6)
    PageSize,       \* bindings in one answer
    ChangeBound,    \* bound: reloads, changes of group, losses of the device
    FaultBound      \* bound: requests refused, lost or late

ASSUME BindingAssumption ==
    /\ GroupBinding \subseteq Binding
    /\ \A b, c \in GroupBinding : b = c
    /\ reporting \in [Binding -> Seq(Nat)]
    /\ \A b \in Binding : reporting[b] = <<>> \/ b \notin GroupBinding
    /\ Ddfs \subseteq Seq(Binding)
    /\ Group \cap {"none", "gw", "gone"} = {}
    /\ MaxRecords \in Nat \ {0, 1} /\ PageSize \in Nat \ {0} /\ ChangeBound \in Nat
    /\ FaultBound \in Nat

VARIABLES
    sm,         \* level 1: its state, whether its StateEnter is on its way
                \* (lock) and its timer
    tick,       \* an REventBindingTick is queued
    ctx,        \* BindingContext
    checked,    \* lastConfigureCheck of each report: "busy", or within the hour or not
    hour,       \* the steady clock shows more than an hour
    zdp, zcl,   \* the requests of zdpResult and binding.zclResult
    lateRead,   \* reports of an earlier read that may still be answered
    table,      \* Node::bindingTable(): entries, and those confirmed lately
    device,     \* what is bound and configured on the device itself
    configGroup,\* RConfigGroup: a group, or "none" if the list is too short
    changes,    \* changes so far
    faults      \* requests that went wrong so far

vars == <<sm, tick, ctx, checked, hour, zdp, zcl, lateRead, table, device,
          configGroup, changes, faults>>

-----------------------------------------------------------------------------
(* Data.  Bindings to the gateway have the destination "gw", those to a    *)
(* node that is gone "gone".                                               *)
reportsOf(b) == {<<b, i>> : i \in DOMAIN reporting[b]}
Report == UNION {reportsOf(b) : b \in Binding}

dstOf(b, dst) == IF b \in GroupBinding THEN dst ELSE "gw"
entry(b, dst) == [binding |-> b, dst |-> dstOf(b, dst)]

Waiting == {"TableRead", "Create", "Remove", "ReadReport", "Configure"}

(* A request that may be answered, late ones included, and what it is of.  *)
request(kind, of) == [kind |-> kind, of |-> of]
NoRequest == request("none", {})

Stale == [binding |-> "old", dst |-> "gone"]

NewContext(ddf, mgmt) ==
    [bindings |-> ddf, iter |-> 0, reportIter |-> 0, configIter |-> 0,
     firstRound |-> TRUE, mgmt |-> mgmt, start |-> 0, tBound |-> {},
     dstGroup |-> "none", records |-> {}]

(* bindings[bindingIter] and its reports; the iterators count from 0.      *)
binding == ctx.bindings[ctx.iter + 1]
Iterating == ctx.iter < Len(ctx.bindings)
NumReports == Len(reporting[binding])
code(i) == reporting[binding][i + 1]
Declared(b) == \E i \in DOMAIN ctx.bindings : ctx.bindings[i] = b

Init ==
    /\ sm = [state |-> "none", entering |-> FALSE, timer |-> FALSE]
    /\ tick = FALSE
    /\ \E ddf \in Ddfs, supported \in BOOLEAN :
        /\ ctx = NewContext(ddf, "unknown")
        /\ device = [table |-> {Stale}, reports |-> {}, mgmt |-> supported]
    /\ checked = [r \in Report |-> "old"] /\ hour = FALSE
    /\ zdp = NoRequest /\ zcl = NoRequest /\ lateRead = {}
    /\ table = [entries |-> {}, confirmed |-> {}]
    /\ configGroup \in Group
    /\ changes = 0 /\ faults = 0

-----------------------------------------------------------------------------
(* setState(): the StateLeave branches stop the timer, and the urgent      *)
(* StateEnter of the new state arrives before any other event.             *)
setState(s) == sm' = [state |-> s, entering |-> TRUE, timer |-> FALSE]
entered == sm' = [sm EXCEPT !.entering = FALSE]
startStateTimer == sm' = [sm EXCEPT !.entering = FALSE, !.timer = TRUE]

In(s) == sm.state = s /\ ~sm.entering
Enters(s) == sm.state = s /\ sm.entering

world == <<table, device, configGroup, changes>>
requests == <<zdp, zcl, lateRead>>
checks == <<checked, hour>>

fault == faults < FaultBound /\ faults' = faults + 1
smooth == UNCHANGED faults

(* A request is enqueued, or is not and ends the pass.                     *)
enqueued == startStateTimer /\ smooth
refused == setState("Binding") /\ fault

(* What only the states about reports read is reset when they are left.    *)
withoutReports(c) == [c EXCEPT !.reportIter = 0, !.configIter = 0, !.records = {}]

(* Mutated form: goes on with the reports of the next binding.             *)
ProcessNextBindingReports ==
    /\ ctx' = [withoutReports(ctx) EXCEPT !.iter = @ + 1]
    /\ setState("ReadReport")

(* DEV_ProcessNextBinding()                                                *)
ProcessNextBinding ==
    /\ ctx' = [withoutReports(ctx) EXCEPT !.iter = @ + 1]
    /\ setState("Verify")

-----------------------------------------------------------------------------
(* DEV_BindingHandler: a poll, the device being awake or a tick begins a   *)
(* pass, unless too many requests are unconfirmed.                         *)
BindingEnter ==
    /\ Enters("Binding")
    /\ entered
    /\ UNCHANGED <<faults, tick, ctx, checks, requests, world>>

startPass ==
    IF ctx.bindings = <<>>
    THEN UNCHANGED <<sm, ctx>>
    ELSE /\ ctx' = [withoutReports(ctx) EXCEPT !.iter = 0]
         /\ setState(IF ctx.mgmt = "no" THEN "Verify" ELSE "TableRead")

DEV_BindingHandler ==
    /\ In("Binding")
    /\ startPass
    /\ UNCHANGED <<faults, tick, checks, requests, world>>

BindingTick ==
    /\ In("Binding") /\ tick
    /\ tick' = FALSE
    /\ startPass \/ UNCHANGED <<sm, ctx>>
    /\ UNCHANGED <<faults, checks, requests, world>>

(* DEV_BindingTableReadHandler                                             *)
TableReadEnter ==
    /\ Enters("TableRead")
    /\ entered
    /\ ctx' = [ctx EXCEPT !.start = 0]
    /\ tick' = TRUE
    /\ UNCHANGED <<faults, checks, requests, world>>

TableReadTick ==
    /\ In("TableRead") /\ tick
    /\ tick' = FALSE
    /\ \/ zdp' = request("mgmt", {}) /\ enqueued
       \/ zdp' = NoRequest /\ refused
    /\ UNCHANGED <<ctx, checks, zcl, lateRead, world>>

(* Mutated form: waits for the device to send the next page.               *)
nextPageWaits ==
    /\ sm' = [sm EXCEPT !.timer = FALSE]
    /\ ctx' = [ctx EXCEPT !.start = @ + PageSize, !.mgmt = "yes"]
    /\ UNCHANGED tick

nextPage ==
    /\ sm' = [sm EXCEPT !.timer = FALSE]
    /\ ctx' = [ctx EXCEPT !.start = @ + PageSize, !.mgmt = "yes"]
    /\ tick' = TRUE

(* An answer shows one page of the table from the start index on; the core *)
(* takes over what it says.  In Binding an answer of an earlier pass still *)
(* tells whether the device supports the request (REventBindingTable).     *)
MgmtBindResponse ==
    /\ zdp.kind = "mgmt" /\ ~sm.entering
    /\ zdp' = NoRequest
    /\ \/ /\ device.mgmt
          /\ table' = [entries |-> device.table, confirmed |-> device.table]
          /\ IF In("TableRead")
             THEN IF Cardinality(device.table) > ctx.start + PageSize
                  THEN nextPage
                  ELSE /\ ctx' = [ctx EXCEPT !.iter = 0, !.mgmt = "yes"]
                       /\ setState("Verify")
                       /\ UNCHANGED tick
             ELSE /\ ctx' = IF In("Binding") THEN [ctx EXCEPT !.mgmt = "yes"] ELSE ctx
                  /\ UNCHANGED <<sm, tick>>
       \/ /\ ~device.mgmt
          /\ IF In("TableRead") \/ In("Binding")
             THEN ctx' = [ctx EXCEPT !.mgmt = "no"] ELSE UNCHANGED ctx
          /\ IF In("TableRead") THEN setState("Binding") ELSE UNCHANGED sm
          /\ UNCHANGED <<table, tick>>
    /\ UNCHANGED <<faults, checks, zcl, lateRead, device, configGroup, changes>>

-----------------------------------------------------------------------------
(* DEV_BindingTableVerifyHandler: the binding at the iterator, or the end  *)
(* of the round.  A group that is not configured is skipped.               *)
VerifyEnter ==
    /\ Enters("Verify")
    /\ entered
    /\ tick' = TRUE
    /\ UNCHANGED <<faults, ctx, checks, requests, world>>

VerifyTick ==
    /\ In("Verify") /\ tick
    /\ \/ /\ ~Iterating
          /\ tick' = FALSE
          /\ ctx' = [ctx EXCEPT !.firstRound = FALSE]
          /\ setState("Remove")
       \/ /\ Iterating /\ binding \in GroupBinding /\ configGroup = "none"
          /\ ctx' = [ctx EXCEPT !.dstGroup = "none", !.iter = @ + 1]
          /\ UNCHANGED <<sm, tick>>
       \/ /\ Iterating /\ (binding \in GroupBinding => configGroup # "none")
          /\ LET group == IF binding \in GroupBinding THEN configGroup ELSE ctx.dstGroup
                 e == entry(binding, group)
                 tBound == IF e \in table.confirmed THEN ctx.tBound \cup {binding} ELSE ctx.tBound
                 c == [ctx EXCEPT !.dstGroup = group,
                          !.tBound = IF e \in table.entries THEN tBound ELSE @]
             IN  IF e \notin table.entries \/ binding \notin tBound
                 THEN ctx' = c /\ setState("Create") /\ tick' = FALSE
                 ELSE IF binding \in GroupBinding
                 THEN ctx' = [c EXCEPT !.iter = @ + 1] /\ UNCHANGED <<sm, tick>>
                 ELSE /\ ctx' = [c EXCEPT !.configIter = 0, !.reportIter = 0]
                      /\ setState("ReadReport")
                      /\ tick' = FALSE
    /\ UNCHANGED <<faults, checks, requests, world>>

-----------------------------------------------------------------------------
(* DEV_BindingCreateHandler.  ZDP_BindReq() tells the core at once of what *)
(* it asks the device for, as ZDP_UnbindReq() does.                        *)
CreateEnter ==
    /\ Enters("Create")
    /\ ctx' = [ctx EXCEPT !.tBound = @ \ {binding}]
    /\ LET e == entry(binding, ctx.dstGroup)
       IN  \/ /\ zdp' = request("bind", {e})
              /\ table' = [table EXCEPT !.entries = @ \cup {e}]
              /\ enqueued
           \/ zdp' = NoRequest /\ refused /\ UNCHANGED table
    /\ UNCHANGED <<tick, checks, zcl, lateRead, device, configGroup, changes>>

BindResponse ==
    /\ zdp.kind = "bind" /\ ~sm.entering
    /\ zdp' = NoRequest
    /\ \/ /\ device' = [device EXCEPT !.table = @ \cup zdp.of]
          /\ IF In("Create")
             THEN /\ ctx' = [ctx EXCEPT !.tBound = @ \cup {binding}]
                  /\ setState("Verify")
             ELSE UNCHANGED <<sm, ctx>>
          /\ smooth
       \/ /\ fault
          /\ IF In("Create") THEN setState("Binding") ELSE UNCHANGED sm
          /\ UNCHANGED <<ctx, device>>
    /\ UNCHANGED <<tick, checks, zcl, lateRead, table, configGroup, changes>>

-----------------------------------------------------------------------------
(* DEV_BindingRemoveHandler: entries of a group binding of the DDF to      *)
(* another group, and those to nodes that are gone, one in each pass.      *)
ToRemove ==
    {e \in table.entries :
        IF e.dst = "gone" THEN TRUE
        ELSE /\ e.binding \in GroupBinding
             /\ Declared(e.binding)
             /\ e.dst # ctx.dstGroup}

RemoveEnter ==
    /\ Enters("Remove")
    /\ IF ToRemove = {}
       THEN setState("BindingIdle") /\ smooth /\ UNCHANGED <<zdp, table>>
       ELSE \/ \E e \in ToRemove :
                 /\ zdp' = request("unbind", {e})
                 /\ table' = [entries |-> table.entries \ {e},
                              confirmed |-> table.confirmed \ {e}]
                 /\ enqueued
            \/ zdp' = NoRequest /\ refused /\ UNCHANGED table
    /\ UNCHANGED <<tick, ctx, checks, zcl, lateRead, device, configGroup, changes>>

(* The status of the answer does not matter.                               *)
UnbindResponse ==
    /\ zdp.kind = "unbind" /\ ~sm.entering
    /\ zdp' = NoRequest
    /\ \/ device' = [device EXCEPT !.table = @ \ zdp.of] /\ smooth
       \/ fault /\ UNCHANGED device
    /\ IF In("Remove") THEN setState("Binding") /\ tick' = TRUE ELSE UNCHANGED <<sm, tick>>
    /\ UNCHANGED <<ctx, checks, zcl, lateRead, table, configGroup, changes>>

-----------------------------------------------------------------------------
(* DEV_ReadReportConfigurationHandler: reports of one manufacturer code,   *)
(* at most MaxRecords, from reportIter on; all of them in the first round, *)
(* then those not checked within the hour.  A "busy" mark is an old time   *)
(* once the clock shows an hour.  A full frame leaves the iterator at its  *)
(* last report.                                                            *)
isDue(i) ==
    \/ ctx.firstRound
    \/ checked[<<binding, i + 1>>] = "old"
    \/ checked[<<binding, i + 1>>] = "busy" /\ hour'

Pick(due) == CHOOSE i \in due : \A j \in due : i <= j

nth(n, S) == CHOOSE i \in S : Cardinality({j \in S : j < i}) = n - 1

(* The read before may be answered after the next request was sent.        *)
stillLate == {lateRead} \cup IF zcl.kind = "read" THEN {zcl.of} ELSE {}

ReadReportEnter ==
    /\ Enters("ReadReport")
    /\ hour' \in {hour, TRUE}
    /\ LET due == {i \in ctx.reportIter..(NumReports - 1) : isDue(i)}
           mine == {i \in due : \A j \in due : j <= i => code(j) = code(Pick(due))}
           full == Cardinality(mine) >= MaxRecords
           others == {i \in due : i \notin mine}
           stop == IF full THEN nth(MaxRecords, mine)
                   ELSE IF others # {} THEN Pick(others) ELSE NumReports
           records == {i \in mine : i <= stop}
       IN  /\ checked' = [r \in Report |->
                   IF r[1] = binding /\ r[2] - 1 \in records THEN "busy" ELSE checked[r]]
           /\ IF records = {}
              THEN ProcessNextBinding /\ smooth /\ UNCHANGED <<zcl, lateRead>>
              ELSE /\ ctx' = [ctx EXCEPT !.reportIter = stop, !.records = records]
                   /\ \/ /\ zcl' = request("read", {<<binding, i + 1>> : i \in records})
                         /\ lateRead' \in stillLate
                         /\ enqueued
                      \/ /\ zcl' = NoRequest /\ refused
                         /\ UNCHANGED lateRead
    /\ UNCHANGED <<tick, zdp, world>>

(* An answer lists how reports are configured.  The handler compares the   *)
(* attributes only, so that one to an earlier read, of a binding that has  *)
(* the same attributes on another endpoint, counts as well; and it marks   *)
(* as checked whatever is marked busy, reports of other bindings included. *)
reportingConfigurationValid(of) ==
    \A i \in ctx.records :
        \E r \in of \cap device.reports : /\ r[2] = i + 1
                                        /\ reporting[r[1]][r[2]] = code(i)

ReadReportConfigResponse(of) ==
    IF ~In("ReadReport")
    THEN UNCHANGED <<sm, ctx, checks>>
    ELSE IF reportingConfigurationValid(of)
    THEN /\ checked' = [r \in Report |-> IF checked[r] = "busy" THEN "hour" ELSE checked[r]]
         /\ IF ctx.reportIter < NumReports
            THEN setState("ReadNext") /\ UNCHANGED ctx
            ELSE ProcessNextBinding
    ELSE setState("Configure") /\ UNCHANGED <<ctx, checks>>

ReadResponse ==
    /\ zcl.kind = "read" /\ ~sm.entering
    /\ zcl' = NoRequest
    /\ ReadReportConfigResponse(zcl.of)
    /\ UNCHANGED <<faults, hour, tick, zdp, lateRead, world>>

LateReadResponse ==
    /\ lateRead # {} /\ ~sm.entering
    /\ lateRead' = {}
    /\ fault
    /\ ReadReportConfigResponse(lateRead)
    /\ UNCHANGED <<hour, tick, zdp, zcl, world>>

(* DEV_ReadNextReportConfigurationHandler,                                 *)
(* DEV_ConfigureNextReportConfigurationHandler                             *)
NextEnter ==
    /\ \/ Enters("ReadNext") /\ setState("ReadReport")
       \/ Enters("ConfigureNext") /\ setState("Configure")
    /\ UNCHANGED <<faults, tick, ctx, checks, requests, world>>

(* DEV_ConfigureReportingHandler: the reports from configIter to           *)
(* reportIter with the manufacturer code of the read.                      *)
ConfigureEnter ==
    /\ Enters("Configure")
    /\ LET range == {i \in ctx.configIter..(ctx.reportIter - 1) : i < NumReports}
           hits == {i \in range : code(i) = code(Pick(ctx.records))}
           full == Cardinality(hits) >= MaxRecords
           stop == IF full THEN nth(MaxRecords, hits) + 1
                   ELSE ctx.configIter + Cardinality(range)
           records == {i \in hits : i < stop}
       IN  /\ ctx' = [ctx EXCEPT !.configIter = stop]
           /\ \/ /\ records # {}
                 /\ zcl' = request("configure", {<<binding, i + 1>> : i \in records})
                 /\ lateRead' \in stillLate
                 /\ enqueued
              \/ /\ zcl' = NoRequest /\ UNCHANGED lateRead
                 /\ IF records = {} THEN setState("Binding") /\ smooth ELSE refused
    /\ UNCHANGED <<tick, checks, zdp, world>>

ConfigureResponse ==
    /\ zcl.kind = "configure" /\ ~sm.entering
    /\ zcl' = NoRequest
    /\ \/ /\ device' = [device EXCEPT !.reports = @ \cup zcl.of]
          /\ \/ /\ In("Configure") /\ ctx.configIter < ctx.reportIter
                /\ setState("ConfigureNext") /\ UNCHANGED ctx
             \/ /\ In("Configure") /\ ctx.configIter >= ctx.reportIter
                /\ ctx.reportIter < NumReports
                /\ setState("ReadNext") /\ UNCHANGED ctx
             \/ /\ In("Configure") /\ ctx.configIter >= ctx.reportIter
                /\ ctx.reportIter >= NumReports
                /\ ProcessNextBinding
             \/ ~In("Configure") /\ UNCHANGED <<sm, ctx>>
          /\ smooth
       \/ /\ fault
          /\ IF In("Configure") THEN setState("Binding") ELSE UNCHANGED sm
          /\ UNCHANGED <<ctx, device>>
    /\ UNCHANGED <<tick, checks, zdp, lateRead, table, configGroup, changes>>

-----------------------------------------------------------------------------
(* What the states that wait have in common.  A confirm that fails ends    *)
(* them; one of success starts the timer anew, which is only seen in       *)
(* TableRead between two pages.  Which request a confirm is for is left    *)
(* open: there may be one at any time.                                     *)
ApsConfirm ==
    /\ sm.state \in Waiting /\ ~sm.entering
    /\ refused \/ (~sm.timer /\ enqueued)
    /\ UNCHANGED <<tick, ctx, checks, requests, world>>

BindingIdleEnter ==
    /\ Enters("BindingIdle")
    /\ startStateTimer
    /\ UNCHANGED <<faults, tick, ctx, checks, requests, world>>

(* The answer to the request of the state, or its tick, is to come.        *)
Underway ==
    \/ tick
    \/ sm.state = "TableRead" /\ zdp.kind = "mgmt"
    \/ sm.state = "Create" /\ zdp.kind = "bind"
    \/ sm.state = "Remove" /\ zdp.kind = "unbind"
    \/ sm.state = "ReadReport" /\ zcl.kind = "read"
    \/ sm.state = "Configure" /\ zcl.kind = "configure"

(* Mutated form: a binding is good for ever.                               *)
hourPassesKeepsBound ==
    /\ table' = [table EXCEPT !.confirmed = {}]
    /\ checked' = [r \in Report |-> "old"]
    /\ hour' = TRUE
    /\ UNCHANGED ctx

(* BindingIdle lasts an hour, after which nothing was checked or confirmed *)
(* lately.                                                                 *)
hourPasses ==
    /\ ctx' = [ctx EXCEPT !.tBound = {}]
    /\ table' = [table EXCEPT !.confirmed = {}]
    /\ checked' = [r \in Report |-> "old"]
    /\ hour' = TRUE

StateTimeout ==
    /\ sm.timer
    /\ setState("Binding")
    /\ IF Underway /\ sm.state # "BindingIdle" THEN fault ELSE smooth
    /\ IF sm.state = "BindingIdle"
       THEN hourPasses
       ELSE UNCHANGED <<ctx, table, checks>>
    /\ UNCHANGED <<tick, requests, device, configGroup, changes>>

(* An event for the device is of no interest to the other states.          *)
StrayTick ==
    /\ tick /\ ~sm.entering
    /\ sm.state \notin {"Binding", "TableRead", "Verify"}
    /\ tick' = FALSE
    /\ UNCHANGED <<faults, sm, ctx, checks, requests, world>>

-----------------------------------------------------------------------------
(* Level 0.  Idle is entered, and left by a reload: of the descriptors, or *)
(* of the DDF, which begins with Init.  Init, and another DDF, are applied *)
(* before Idle is entered again.                                           *)
IdleEnter ==
    /\ sm.state = "none"
    /\ setState("Binding")
    /\ ctx' = [ctx EXCEPT !.iter = 0]
    /\ UNCHANGED <<faults, tick, checks, requests, world>>

change == changes < ChangeBound /\ changes' = changes + 1

Reload ==
    /\ change
    /\ sm.state # "none" /\ ~sm.entering
    /\ sm' = [state |-> "none", entering |-> FALSE, timer |-> FALSE]
    /\ zdp' = NoRequest
    /\ \E ddf \in Ddfs \cup {ctx.bindings}, init \in BOOLEAN :
         ctx' = [NewContext(ddf, ctx.mgmt) EXCEPT !.firstRound = init \/ ctx.firstRound]
    /\ UNCHANGED <<faults, tick, checks, zcl, lateRead, table, device, configGroup>>

(* addBinding() of the legacy code (bindings.cpp), in any state.           *)
addBinding ==
    /\ change
    /\ \E b \in Binding :
         /\ ~Declared(b)
         /\ ctx' = [ctx EXCEPT !.bindings = Append(@, b)]
    /\ UNCHANGED <<faults, sm, tick, checks, requests, table, device, configGroup>>

GroupChanges ==
    /\ change
    /\ configGroup' \in (Group \cup {"none"}) \ {configGroup}
    /\ UNCHANGED <<faults, sm, tick, ctx, checks, requests, table, device>>

(* A battery is changed, or the device is reset.                           *)
DeviceForgets ==
    /\ change /\ ~sm.entering
    /\ device' = [device EXCEPT !.table = {}, !.reports = {}]
    /\ UNCHANGED <<faults, sm, tick, ctx, checks, requests, table, configGroup>>

(* The device does as it is told and its answer is lost.                   *)
AnswerLost ==
    /\ fault /\ ~sm.entering
    /\ \/ /\ zdp.kind = "bind" /\ zdp' = NoRequest /\ UNCHANGED zcl
          /\ device' = [device EXCEPT !.table = @ \cup zdp.of]
       \/ /\ zdp.kind = "unbind" /\ zdp' = NoRequest /\ UNCHANGED zcl
          /\ device' = [device EXCEPT !.table = @ \ zdp.of]
       \/ /\ zcl.kind = "configure" /\ zcl' = NoRequest /\ UNCHANGED zdp
          /\ device' = [device EXCEPT !.reports = @ \cup zcl.of]
    /\ UNCHANGED <<sm, tick, ctx, checks, lateRead, table, configGroup, changes>>

-----------------------------------------------------------------------------
Enter ==
    \/ BindingEnter \/ TableReadEnter \/ VerifyEnter \/ CreateEnter \/ RemoveEnter
    \/ ReadReportEnter \/ NextEnter \/ ConfigureEnter \/ BindingIdleEnter \/ IdleEnter

Tick == BindingTick \/ TableReadTick \/ VerifyTick \/ StrayTick

Answer ==
    \/ MgmtBindResponse \/ BindResponse \/ UnbindResponse
    \/ ReadResponse \/ LateReadResponse \/ ConfigureResponse

Next ==
    \/ Enter \/ Tick \/ Answer \/ DEV_BindingHandler \/ ApsConfirm
    \/ StateTimeout \/ AnswerLost
    \/ Reload \/ addBinding \/ GroupChanges \/ DeviceForgets

Spec == Init /\ [][Next]_vars

(* Events are processed, timers fire, polls come again and again, and the  *)
(* device answers what it received.                                        *)
FairSpec ==
    /\ Spec
    /\ WF_vars(Enter) /\ WF_vars(Tick) /\ WF_vars(Answer)
    /\ WF_vars(DEV_BindingHandler) /\ WF_vars(StateTimeout)

-----------------------------------------------------------------------------
(* No pass hangs: a state that is not Binding, where the next poll starts  *)
(* over, is being entered, waits with its timer running, or has its tick   *)
(* in the queue, although a tick may be left from an earlier state and     *)
(* equal ticks are merged.                                                 *)
BindingGoesOn ==
    \/ sm.state \in {"none", "Binding"} \/ sm.entering \/ sm.timer
    \/ sm.state \in {"TableRead", "Verify"} /\ tick

(* The iterators, which outlive the handler that set them, point to a      *)
(* binding and its reports in every state that uses them, whatever DDF was *)
(* loaded in between (DEV_ReadReportConfigurationHandler():                *)
(* Q_ASSERT(d->binding.bindingIter < d->binding.bindings.size())).         *)
IteratorsInRange ==
    /\ sm.state \in {"Create", "ReadReport", "ReadNext", "Configure", "ConfigureNext"} =>
        Iterating
    /\ sm.state \in {"ReadReport", "ReadNext", "Configure", "ConfigureNext"} =>
        ctx.configIter <= ctx.reportIter /\ ctx.reportIter <= NumReports
    /\ sm.state = "Configure" => NumReports > 0 /\ ctx.records # {}

isBound ==
    \A b \in Binding : Declared(b) =>
        /\ \/ b \in GroupBinding /\ configGroup = "none"
           \/ entry(b, configGroup) \in device.table
        /\ reportsOf(b) \subseteq device.reports

isClean ==
    \A e \in device.table : device.mgmt \/ e \in table.entries =>
        /\ e.dst # "gone"
        /\ e.binding \in GroupBinding /\ Declared(e.binding) => e.dst = configGroup

(* In the end the device has the bindings and reports of its DDF, to the   *)
(* group that is configured, and none to other groups or to nodes that are *)
(* gone as far as the core can know, whatever was refused, lost, late or   *)
(* forgotten before, and however DDF and group changed.                    *)
BindingsGetSet == <>[](ctx.bindings = <<>> \/ (isBound /\ isClean))
=============================================================================
