-------------------------- MODULE DeviceBindingProofs --------------------------
(***************************************************************************)
(* Proofs about DeviceBinding: no pass over the bindings of a device hangs, *)
(* and the iterators that outlive the handlers which set them stay valid,   *)
(* for any DDF, any number of reports, any frame size and any failure.      *)
(***************************************************************************)
EXTENDS DeviceBinding, FiniteSetTheorems, WellFoundedInduction, TLAPS

States == {"none", "Binding", "Verify", "ReadNext", "ConfigureNext", "BindingIdle"} \cup Waiting

Machine == [state : States, entering : BOOLEAN, timer : BOOLEAN]

Destination == Group \cup {"none"}

Context ==
  [bindings : Seq(Binding), iter : Nat, reportIter : Nat, configIter : Nat,
   firstRound : BOOLEAN, mgmt : {"unknown", "yes", "no"}, start : Nat,
   tBound : SUBSET Binding, dstGroup : Destination, records : SUBSET Nat]

Types ==
  /\ sm \in Machine /\ tick \in BOOLEAN /\ ctx \in Context
  /\ configGroup \in Destination

\* The states in which a binding and a report of it are looked at.
OfBinding == {"Create", "ReadReport", "ReadNext", "Configure", "ConfigureNext"}
OfReport == OfBinding \ {"Create"}

\* A read that is under way has asked for something: what it asked for decides
\* which reports are configured when the answer says that they are not.
HasRecords(s, c) ==
  s.state \in {"Configure", "ConfigureNext"} \/ (s.state = "ReadReport" /\ ~s.entering)
    => c.records # {} /\ Len(reporting[c.bindings[c.iter + 1]]) > 0

InRange(s, c) ==
  /\ s.state \in OfBinding => c.iter < Len(c.bindings)
  /\ s.state \in OfReport =>
       /\ c.configIter <= c.reportIter
       /\ c.reportIter <= Len(reporting[c.bindings[c.iter + 1]])
  /\ HasRecords(s, c)

\* The inductive invariant.
BindingInv == Types /\ BindingGoesOn /\ InRange(sm, ctx)

-------------------------------------------------------------------------------
(* Smallest elements, and the element with n - 1 smaller ones.               *)
LEMMA Smallest ==
  ASSUME NEW S \in SUBSET Nat, S # {}
  PROVE  \E x \in S : \A y \in S : x <= y
<1>1. PICK x \in S : \A y \in S : ~(<<y, x>> \in OpToRel(<, Nat))
  BY NatLessThanWellFounded, WFMin, Zenon
<1>2. \A y \in S : ~(y < x)
  BY <1>1 DEF OpToRel
<1> QED
  BY <1>2

LEMMA PickIn ==
  ASSUME NEW S \in SUBSET Nat, S # {}
  PROVE  Pick(S) \in S /\ \A j \in S : Pick(S) <= j
BY Smallest DEF Pick

LEMMA NthIn ==
  ASSUME NEW S \in SUBSET Nat, IsFiniteSet(S), NEW n \in Nat \ {0}, n <= Cardinality(S),
         NEW max \in Nat, \A j \in S : j <= max
  PROVE  nth(n, S) \in S
<1> DEFINE upTo(m) == {j \in S : j <= m}
           below(m) == {j \in S : j < m}
           M == {m \in Nat : Cardinality(upTo(m)) >= n}
<1>1. \A m \in Nat : /\ IsFiniteSet(upTo(m)) /\ Cardinality(upTo(m)) \in Nat
                     /\ IsFiniteSet(below(m)) /\ Cardinality(below(m)) \in Nat
  <2> TAKE m \in Nat
  <2>1. upTo(m) \in SUBSET S /\ below(m) \in SUBSET S
    OBVIOUS
  <2> QED
    BY <2>1, FS_Subset, FS_CardinalityType
<1>2. M # {}
  <2>1. upTo(max) = S
    OBVIOUS
  <2> QED
    BY <2>1
<1>3. PICK m \in M : \A k \in M : m <= k
  <2>1. M \in SUBSET Nat
    OBVIOUS
  <2> HIDE DEF M
  <2> QED
    BY <1>2, <2>1, Smallest
<1>4. m \in Nat /\ Cardinality(upTo(m)) >= n
  OBVIOUS
<1>5. m \in S
  <2>1. SUFFICES ASSUME m \notin S PROVE FALSE
    OBVIOUS
  <2>2. CASE m = 0
    <3>0. \A j \in S : ~(j <= m)
      BY <2>1, <2>2
    <3>1. upTo(m) = {}
      BY <3>0
    <3> QED
      BY <1>4, <3>1, FS_EmptySet
  <2>3. CASE m # 0
    <3>1. m - 1 \in Nat /\ \A j \in S : j <= m <=> j <= m - 1
      BY <1>4, <2>1, <2>3
    <3>a. upTo(m) = upTo(m - 1)
      BY <3>1
    <3>2. m - 1 \in M
      BY <1>4, <3>1, <3>a
    <3> HIDE DEF M
    <3> QED
      BY <1>3, <1>4, <3>2
  <2> QED
    BY <2>2, <2>3
<1>6. Cardinality(upTo(m)) = Cardinality(below(m)) + 1
  <2>0. \A j \in S : j <= m <=> j < m \/ j = m
    BY <1>4
  <2>a. ~(m < m)
    BY <1>4
  <2>1. upTo(m) = below(m) \cup {m} /\ m \notin below(m)
    BY <1>5, <2>0, <2>a
  <2> HIDE DEF upTo, below
  <2> QED
    BY <1>1, <1>4, <2>1, FS_AddElement
<1>7. Cardinality(below(m)) < n
  <2>1. SUFFICES ASSUME Cardinality(below(m)) >= n PROVE FALSE
    BY <1>1, <1>4
  <2>2. m # 0
    <3>1. SUFFICES ASSUME m = 0 PROVE FALSE
      OBVIOUS
    <3>2. \A j \in S : ~(j < m)
      BY <3>1
    <3>3. below(m) = {}
      BY <3>2
    <3> QED
      BY <2>1, <3>3, FS_EmptySet
  <2>3. m - 1 \in Nat /\ \A j \in S : j < m <=> j <= m - 1
    BY <1>4, <2>2
  <2>a. below(m) = upTo(m - 1)
    BY <2>3
  <2>4. m - 1 \in M
    BY <2>1, <2>3, <2>a
  <2> HIDE DEF M
  <2> QED
    BY <1>3, <1>4, <2>4
<1>8. Cardinality(below(m)) = n - 1
  <2> HIDE DEF upTo, below, M
  <2> QED
    BY <1>1, <1>4, <1>6, <1>7
<1>9. \E i \in S : Cardinality({j \in S : j < i}) = n - 1
  <2> WITNESS m \in S
  <2> QED
    BY <1>8
<1> QED
  BY <1>9, Zenon DEF nth

-------------------------------------------------------------------------------
(* Contexts.                                                                 *)
LEMMA Fields ==
  ASSUME NEW c \in Context
  PROVE  /\ c.bindings \in Seq(Binding) /\ Len(c.bindings) \in Nat
         /\ c.iter \in Nat /\ c.reportIter \in Nat /\ c.configIter \in Nat
         /\ c.records \subseteq Nat
         /\ c.iter < Len(c.bindings) =>
              /\ c.bindings[c.iter + 1] \in Binding
              /\ Len(reporting[c.bindings[c.iter + 1]]) \in Nat
<1>1. /\ c.bindings \in Seq(Binding) /\ Len(c.bindings) \in Nat
      /\ c.iter \in Nat /\ c.reportIter \in Nat /\ c.configIter \in Nat
      /\ c.records \subseteq Nat
  BY DEF Context
<1>2. ASSUME c.iter < Len(c.bindings) PROVE c.bindings[c.iter + 1] \in Binding
  <2>1. c.iter + 1 \in 1..Len(c.bindings)
    BY <1>1, <1>2
  <2> QED
    BY <1>1, <2>1
<1>3. \A b \in Binding : Len(reporting[b]) \in Nat
  BY BindingAssumption
<1> QED
  BY <1>1, <1>2, <1>3

\* One lemma for each way in which a context is updated.
LEMMA ContextUpdates ==
  ASSUME NEW c \in Context
  PROVE  /\ \A n \in Nat : /\ [c EXCEPT !.iter = n] \in Context
                           /\ [c EXCEPT !.start = n] \in Context
                           /\ [c EXCEPT !.configIter = n] \in Context
         /\ \A m \in {"yes", "no"} : [c EXCEPT !.mgmt = m] \in Context
         /\ [c EXCEPT !.firstRound = FALSE] \in Context
         /\ \A B \in SUBSET Binding : [c EXCEPT !.tBound = B] \in Context
         /\ \A B \in Seq(Binding) : [c EXCEPT !.bindings = B] \in Context
<1>1. \A n \in Nat : [c EXCEPT !.iter = n] \in Context
  BY DEF Context
<1>2. \A n \in Nat : [c EXCEPT !.start = n] \in Context
  BY DEF Context
<1>3. \A n \in Nat : [c EXCEPT !.configIter = n] \in Context
  BY DEF Context
<1>4. \A m \in {"yes", "no"} : [c EXCEPT !.mgmt = m] \in Context
  BY DEF Context
<1>5. [c EXCEPT !.firstRound = FALSE] \in Context
  BY DEF Context
<1>6. \A B \in SUBSET Binding : [c EXCEPT !.tBound = B] \in Context
  BY DEF Context
<1>7. \A B \in Seq(Binding) : [c EXCEPT !.bindings = B] \in Context
  BY DEF Context
<1> QED
  BY <1>1, <1>2, <1>3, <1>4, <1>5, <1>6, <1>7

LEMMA DoubleUpdates ==
  ASSUME NEW c \in Context
  PROVE  /\ \A n \in Nat, m \in {"yes", "no"} : [c EXCEPT !.start = n, !.mgmt = m] \in Context
         /\ \A n \in Nat, m \in {"yes", "no"} : [c EXCEPT !.iter = n, !.mgmt = m] \in Context
         /\ \A g \in Destination, n \in Nat : [c EXCEPT !.dstGroup = g, !.iter = n] \in Context
         /\ \A n, m \in Nat : [c EXCEPT !.configIter = n, !.reportIter = m] \in Context
         /\ \A n \in Nat, R \in SUBSET Nat : [c EXCEPT !.reportIter = n, !.records = R] \in Context
         /\ \A g \in Destination, B \in SUBSET Binding :
               [c EXCEPT !.dstGroup = g, !.tBound = B] \in Context
<1>1. \A n \in Nat, m \in {"yes", "no"} : [c EXCEPT !.start = n, !.mgmt = m] \in Context
  BY DEF Context
<1>2. \A n \in Nat, m \in {"yes", "no"} : [c EXCEPT !.iter = n, !.mgmt = m] \in Context
  BY DEF Context
<1>3. \A g \in Destination, n \in Nat : [c EXCEPT !.dstGroup = g, !.iter = n] \in Context
  BY DEF Context
<1>4. \A n, m \in Nat : [c EXCEPT !.configIter = n, !.reportIter = m] \in Context
  BY DEF Context
<1>5. \A n \in Nat, R \in SUBSET Nat : [c EXCEPT !.reportIter = n, !.records = R] \in Context
  BY DEF Context
<1>6. \A g \in Destination, B \in SUBSET Binding :
         [c EXCEPT !.dstGroup = g, !.tBound = B] \in Context
  BY DEF Context
<1> QED
  BY <1>1, <1>2, <1>3, <1>4, <1>5, <1>6

LEMMA WithoutReports ==
  ASSUME NEW c \in Context
  PROVE  /\ [withoutReports(c) EXCEPT !.iter = 0] \in Context
         /\ [withoutReports(c) EXCEPT !.iter = @ + 1] \in Context
<1>1. withoutReports(c) \in Context
  BY DEF Context, withoutReports
<1>2. withoutReports(c).iter + 1 \in Nat
  BY <1>1 DEF Context
<1> QED
  BY <1>1, <1>2, ContextUpdates

LEMMA NewContextIn ==
  ASSUME NEW ddf \in Seq(Binding), NEW m \in {"unknown", "yes", "no"}, NEW b \in BOOLEAN
  PROVE  /\ NewContext(ddf, m) \in Context
         /\ [NewContext(ddf, m) EXCEPT !.firstRound = b] \in Context
<1>1. NewContext(ddf, m) \in Context
  BY DEF Context, NewContext, Destination
<1>2. \A c \in Context : [c EXCEPT !.firstRound = b] \in Context
  BY DEF Context
<1> QED
  BY <1>1, <1>2

-------------------------------------------------------------------------------
(* The state machine.                                                        *)

\* A state that looks at no binding may be entered with any context.
LEMMA EntersOther ==
  ASSUME NEW s \in States \ OfBinding, setState(s),
         tick' \in BOOLEAN, ctx' \in Context, configGroup' \in Destination
  PROVE  BindingInv'
<1>1. sm' \in Machine /\ sm'.state = s /\ sm'.entering
  BY DEF setState, Machine
<1>2. s \notin OfReport /\ s \notin {"Configure", "ConfigureNext", "ReadReport"}
  BY DEF OfReport, OfBinding
<1> QED
  BY <1>1, <1>2 DEF BindingInv, Types, BindingGoesOn, InRange, HasRecords

\* One that waits with its timer running, or for the tick that begins it.
LEMMA OtherGoesOn ==
  ASSUME sm' \in Machine, sm'.state \notin OfBinding,
         tick' \in BOOLEAN, ctx' \in Context, configGroup' \in Destination, BindingGoesOn'
  PROVE  BindingInv'
<1>1. sm'.state \notin OfReport /\ sm'.state \notin {"Configure", "ConfigureNext", "ReadReport"}
  BY DEF OfReport, OfBinding
<1> QED
  BY <1>1 DEF BindingInv, Types, InRange, HasRecords

LEMMA Moves ==
  ASSUME sm \in Machine
  PROVE  /\ entered => sm' \in Machine /\ sm'.state = sm.state /\ ~sm'.entering
                       /\ sm'.timer = sm.timer
         /\ startStateTimer => sm' \in Machine /\ sm'.state = sm.state /\ ~sm'.entering
                               /\ sm'.timer
         /\ \A s \in States : setState(s) => sm' \in Machine /\ sm'.state = s /\ sm'.entering
<1>1. ASSUME entered
      PROVE  sm' \in Machine /\ sm'.state = sm.state /\ ~sm'.entering /\ sm'.timer = sm.timer
  BY <1>1 DEF Machine, entered
<1>2. ASSUME startStateTimer
      PROVE  sm' \in Machine /\ sm'.state = sm.state /\ ~sm'.entering /\ sm'.timer
  BY <1>2 DEF Machine, startStateTimer
<1>3. ASSUME NEW s \in States, setState(s)
      PROVE  sm' \in Machine /\ sm'.state = s /\ sm'.entering
  BY <1>3 DEF Machine, setState
<1> QED
  BY <1>1, <1>2, <1>3

\* A state keeps its place as long as the iterators and what they point to do.
LEMMA SamePlace ==
  ASSUME BindingInv, sm' = sm, tick' \in BOOLEAN, tick => tick',
         ctx' \in Context, configGroup' \in Destination,
         ctx'.bindings = ctx.bindings, ctx'.iter = ctx.iter, ctx'.records = ctx.records,
         ctx'.reportIter = ctx.reportIter, ctx'.configIter = ctx.configIter
  PROVE  BindingInv'
BY DEF BindingInv, Types, BindingGoesOn, InRange, HasRecords

-------------------------------------------------------------------------------
(* The handlers of states that look at no binding.                           *)
LEMMA EnterOthers ==
  ASSUME BindingInv,
         BindingEnter \/ TableReadEnter \/ VerifyEnter \/ BindingIdleEnter \/ IdleEnter
  PROVE  BindingInv'
<1> USE DEF BindingInv, Types
<1>0. {"Binding", "TableRead", "Verify", "BindingIdle"} \subseteq States \ OfBinding
  BY DEF States, OfBinding, Waiting
<1>1. CASE BindingEnter
  BY <1>0, <1>1, Moves, OtherGoesOn DEF BindingEnter, Enters, world, BindingGoesOn
<1>2. CASE TableReadEnter
  BY <1>0, <1>2, Moves, OtherGoesOn, ContextUpdates
     DEF TableReadEnter, Enters, world, BindingGoesOn
<1>3. CASE VerifyEnter
  BY <1>0, <1>3, Moves, OtherGoesOn DEF VerifyEnter, Enters, world, BindingGoesOn
<1>4. CASE BindingIdleEnter
  BY <1>0, <1>4, Moves, OtherGoesOn DEF BindingIdleEnter, Enters, world, BindingGoesOn
<1>5. CASE IdleEnter
  BY <1>0, <1>5, EntersOther, ContextUpdates DEF IdleEnter, world
<1> QED
  BY <1>1, <1>2, <1>3, <1>4, <1>5

LEMMA StartPass ==
  ASSUME BindingInv, In("Binding"), startPass \/ UNCHANGED <<sm, ctx>>,
         tick' \in BOOLEAN, configGroup' \in Destination
  PROVE  BindingInv'
<1> USE DEF BindingInv, Types
<1>0. {"Binding", "TableRead", "Verify"} \subseteq States \ OfBinding
  BY DEF States, OfBinding, Waiting
<1>1. CASE UNCHANGED <<sm, ctx>>
  BY <1>0, <1>1, OtherGoesOn DEF In, BindingGoesOn
<1>2. CASE startPass /\ ctx.bindings # <<>>
  <2>1. ctx' \in Context
    BY <1>2, WithoutReports DEF startPass
  <2> QED
    BY <1>0, <1>2, <2>1, EntersOther DEF startPass
<1> QED
  BY <1>1, <1>2 DEF startPass

LEMMA BeginsPass ==
  ASSUME BindingInv, DEV_BindingHandler \/ BindingTick
  PROVE  BindingInv'
<1> USE DEF BindingInv, Types
<1> QED
  BY StartPass DEF DEV_BindingHandler, BindingTick, world

LEMMA TableReadTicks ==
  ASSUME BindingInv, TableReadTick
  PROVE  BindingInv'
<1> USE DEF BindingInv, Types
<1>0. {"Binding", "TableRead"} \subseteq States \ OfBinding
  BY DEF States, OfBinding, Waiting
<1>1. CASE enqueued
  BY <1>0, <1>1, Moves, OtherGoesOn DEF TableReadTick, In, enqueued, world, BindingGoesOn
<1>2. CASE refused
  BY <1>0, <1>2, EntersOther DEF TableReadTick, refused, world
<1> QED
  BY <1>1, <1>2 DEF TableReadTick

LEMMA TableIsRead ==
  ASSUME BindingInv, MgmtBindResponse
  PROVE  BindingInv'
<1> USE DEF BindingInv, Types
<1>0. {"Binding", "TableRead", "Verify"} \subseteq States \ OfBinding
  BY DEF States, OfBinding, Waiting
<1>a. configGroup' \in Destination /\ ~sm.entering
  BY DEF MgmtBindResponse
<1>1. CASE In("TableRead") /\ nextPage
  <2>1. ctx.start + PageSize \in Nat
    BY BindingAssumption DEF Context
  <2>2. ctx' \in Context
    BY <1>1, <2>1, DoubleUpdates DEF nextPage
  <2>3. sm' \in Machine /\ sm'.state = "TableRead" /\ tick'
    BY <1>1 DEF nextPage, In, Machine
  <2> QED
    BY <1>0, <1>1, <1>a, <2>2, <2>3, OtherGoesOn DEF nextPage, BindingGoesOn
<1>2. CASE /\ ctx' = [ctx EXCEPT !.iter = 0, !.mgmt = "yes"]
           /\ setState("Verify")
           /\ UNCHANGED tick
  BY <1>0, <1>2, <1>a, DoubleUpdates, EntersOther
<1>3. CASE /\ ctx' = IF In("Binding") THEN [ctx EXCEPT !.mgmt = "yes"] ELSE ctx
           /\ UNCHANGED <<sm, tick>>
  <2>1. CASE In("Binding")
    BY <1>0, <1>3, <1>a, <2>1, ContextUpdates, OtherGoesOn DEF In, BindingGoesOn
  <2>2. CASE ~In("Binding")
    BY <1>3, <1>a, <2>2, SamePlace
  <2> QED
    BY <2>1, <2>2
<1>4. CASE /\ IF In("TableRead") \/ In("Binding")
              THEN ctx' = [ctx EXCEPT !.mgmt = "no"] ELSE UNCHANGED ctx
           /\ IF In("TableRead") THEN setState("Binding") ELSE UNCHANGED sm
           /\ UNCHANGED <<table, tick>>
  <2>1. CASE In("TableRead")
    BY <1>0, <1>4, <1>a, <2>1, ContextUpdates, EntersOther
  <2>2. CASE In("Binding") /\ ~In("TableRead")
    BY <1>0, <1>4, <1>a, <2>2, ContextUpdates, OtherGoesOn DEF In, BindingGoesOn
  <2>3. CASE ~In("Binding") /\ ~In("TableRead")
    BY <1>4, <1>a, <2>3, SamePlace
  <2> QED
    BY <2>1, <2>2, <2>3
<1> QED
  BY <1>1, <1>2, <1>3, <1>4 DEF MgmtBindResponse

-------------------------------------------------------------------------------
(* The handlers of states that look at the binding at the iterator.          *)

\* The next binding is verified, which looks whether there is one.
LEMMA NextBinding ==
  ASSUME BindingInv, ProcessNextBinding, tick' \in BOOLEAN, configGroup' \in Destination
  PROVE  BindingInv'
<1>1. ctx \in Context
  BY DEF BindingInv, Types
<1>2. ctx' \in Context
  BY <1>1, WithoutReports DEF ProcessNextBinding
<1>3. "Verify" \in States \ OfBinding
  BY DEF States, OfBinding, Waiting
<1> QED
  BY <1>2, <1>3, EntersOther DEF ProcessNextBinding

\* A pass that ends, or a request that is refused, leads to Binding.
LEMMA PassEnds ==
  ASSUME BindingInv, setState("Binding"), ctx' \in Context, tick' \in BOOLEAN,
         configGroup' \in Destination
  PROVE  BindingInv'
<1>1. "Binding" \in States \ OfBinding
  BY DEF States, OfBinding, Waiting
<1> QED
  BY <1>1, EntersOther

LEMMA VerifyTicks ==
  ASSUME BindingInv, VerifyTick
  PROVE  BindingInv'
<1> USE DEF BindingInv, Types
<1>0. {"Verify", "Remove"} \subseteq States \ OfBinding
  BY DEF States, OfBinding, Waiting
<1>a. /\ configGroup' \in Destination /\ sm.state = "Verify" /\ tick
      /\ ctx.iter \in Nat /\ ctx.iter + 1 \in Nat
  BY Fields DEF VerifyTick, world, In
<1>b. "Create" \in States /\ "ReadReport" \in States
  BY DEF States, Waiting
<1>1. CASE /\ ~Iterating
           /\ tick' = FALSE
           /\ ctx' = [ctx EXCEPT !.firstRound = FALSE]
           /\ setState("Remove")
  BY <1>0, <1>1, <1>a, ContextUpdates, EntersOther
<1>2. CASE /\ ctx' = [ctx EXCEPT !.dstGroup = "none", !.iter = @ + 1]
           /\ UNCHANGED <<sm, tick>>
  <2>1. ctx' \in Context
    BY <1>2, <1>a, DoubleUpdates DEF Destination
  <2> QED
    BY <1>0, <1>2, <1>a, <2>1, OtherGoesOn DEF BindingGoesOn
<1>3. CASE Iterating /\ (binding \in GroupBinding => configGroup # "none")
  <2> DEFINE group == IF binding \in GroupBinding THEN configGroup ELSE ctx.dstGroup
             e == entry(binding, group)
             tBound == IF e \in table.confirmed THEN ctx.tBound \cup {binding} ELSE ctx.tBound
             B == IF e \in table.entries THEN tBound ELSE ctx.tBound
             c == [ctx EXCEPT !.dstGroup = group, !.tBound = B]
  <2>1. binding \in Binding /\ Len(reporting[binding]) \in Nat
    BY <1>3, Fields DEF Iterating, binding
  <2>2. group \in Destination /\ B \in SUBSET Binding
    BY <2>1 DEF Context
  <2>3. /\ c \in Context /\ c.bindings = ctx.bindings /\ c.iter = ctx.iter
    <3> HIDE DEF group, B
    <3>1. c \in Context
      BY <2>2, DoubleUpdates
    <3> QED
      BY <3>1 DEF Context
  <2>4. CASE ctx' = c /\ setState("Create") /\ tick' = FALSE
    <3>1. sm' \in Machine /\ sm'.state = "Create" /\ sm'.entering
      BY <1>b, <2>4, Moves
    <3> HIDE DEF c
    <3> QED
      BY <1>3, <1>a, <2>3, <2>4, <3>1
         DEF BindingGoesOn, InRange, HasRecords, OfReport, Iterating
  <2>5. CASE ctx' = [c EXCEPT !.iter = @ + 1] /\ UNCHANGED <<sm, tick>>
    <3> HIDE DEF c
    <3>1. ctx' \in Context
      BY <1>a, <2>3, <2>5, ContextUpdates
    <3> QED
      BY <1>0, <1>a, <2>5, <3>1, OtherGoesOn DEF BindingGoesOn
  <2>6. CASE /\ ctx' = [c EXCEPT !.configIter = 0, !.reportIter = 0]
             /\ setState("ReadReport")
             /\ tick' = FALSE
    <3>1. sm' \in Machine /\ sm'.state = "ReadReport" /\ sm'.entering
      BY <1>b, <2>6, Moves
    <3> HIDE DEF c
    <3>2. ctx' \in Context
      BY <2>3, <2>6, DoubleUpdates
    <3>3. /\ ctx'.bindings = ctx.bindings /\ ctx'.iter = ctx.iter
          /\ ctx'.configIter = 0 /\ ctx'.reportIter = 0
      BY <2>3, <2>6 DEF Context
    <3>4. 0 <= 0 /\ 0 <= Len(reporting[binding])
      BY <2>1
    <3> QED
      BY <1>3, <1>a, <2>1, <2>6, <3>1, <3>2, <3>3, <3>4
         DEF BindingGoesOn, InRange, HasRecords, OfReport, Iterating, binding
  <2>7. \/ ctx' = c /\ setState("Create") /\ tick' = FALSE
        \/ ctx' = [c EXCEPT !.iter = @ + 1] /\ UNCHANGED <<sm, tick>>
        \/ /\ ctx' = [c EXCEPT !.configIter = 0, !.reportIter = 0]
           /\ setState("ReadReport")
           /\ tick' = FALSE
    BY <1>3, <1>a DEF VerifyTick
  <2> QED
    BY <2>4, <2>5, <2>6, <2>7
<1> QED
  BY <1>1, <1>2, <1>3 DEF VerifyTick

LEMMA CreateEnters ==
  ASSUME BindingInv, CreateEnter
  PROVE  BindingInv'
<1> USE DEF BindingInv, Types
<1>a. /\ sm.state = "Create" /\ sm.entering
      /\ tick' \in BOOLEAN /\ configGroup' \in Destination
  BY DEF CreateEnter, Enters
<1>b. ctx.tBound \ {binding} \in SUBSET Binding
  BY DEF Context
<1>1. ctx' \in Context
  BY <1>b, ContextUpdates DEF CreateEnter
<1>2. ctx'.bindings = ctx.bindings /\ ctx'.iter = ctx.iter
  BY DEF CreateEnter, Context
<1>3. CASE enqueued
  <2>1. sm' \in Machine /\ sm'.state = "Create" /\ sm'.timer
    BY <1>3, <1>a, Moves DEF enqueued
  <2> QED
    BY <1>1, <1>2, <1>a, <2>1 DEF BindingGoesOn, InRange, HasRecords, OfReport, OfBinding
<1>4. CASE refused
  BY <1>1, <1>4, <1>a, PassEnds DEF refused
<1> QED
  BY <1>3, <1>4 DEF CreateEnter

LEMMA BindAnswered ==
  ASSUME BindingInv, BindResponse
  PROVE  BindingInv'
<1> USE DEF BindingInv, Types
<1>a. tick' = tick /\ configGroup' \in Destination
  BY DEF BindResponse
<1>1. CASE UNCHANGED <<sm, ctx>>
  BY <1>1, <1>a, SamePlace
<1>2. CASE /\ In("Create")
           /\ ctx' = [ctx EXCEPT !.tBound = @ \cup {binding}]
           /\ setState("Verify")
  <2>1. binding \in Binding
    BY <1>2, Fields DEF In, InRange, OfBinding, binding
  <2>2. ctx.tBound \cup {binding} \in SUBSET Binding
    BY <2>1 DEF Context
  <2>3. ctx' \in Context
    BY <1>2, <2>2, ContextUpdates
  <2>4. "Verify" \in States \ OfBinding
    BY DEF States, OfBinding, Waiting
  <2> QED
    BY <1>2, <1>a, <2>3, <2>4, EntersOther
<1>3. CASE setState("Binding") /\ UNCHANGED ctx
  BY <1>3, <1>a, PassEnds
<1> QED
  BY <1>1, <1>2, <1>3 DEF BindResponse

LEMMA RemoveSteps ==
  ASSUME BindingInv, RemoveEnter \/ UnbindResponse
  PROVE  BindingInv'
<1> USE DEF BindingInv, Types
<1>0. {"Remove", "BindingIdle"} \subseteq States \ OfBinding
  BY DEF States, OfBinding, Waiting
<1>1. CASE RemoveEnter
  <2>a. sm.state = "Remove" /\ tick' = tick /\ ctx' = ctx /\ configGroup' \in Destination
    BY <1>1 DEF RemoveEnter, Enters
  <2>1. CASE setState("BindingIdle")
    BY <1>0, <2>1, <2>a, EntersOther
  <2>2. CASE enqueued
    BY <1>0, <2>2, <2>a, Moves, OtherGoesOn DEF enqueued, BindingGoesOn
  <2>3. CASE refused
    BY <2>3, <2>a, PassEnds DEF refused
  <2> QED
    BY <1>1, <2>1, <2>2, <2>3 DEF RemoveEnter
<1>2. CASE UnbindResponse
  <2>a. ctx' = ctx /\ configGroup' \in Destination
    BY <1>2 DEF UnbindResponse
  <2>1. CASE setState("Binding") /\ tick' = TRUE
    BY <2>1, <2>a, PassEnds
  <2>2. CASE UNCHANGED <<sm, tick>>
    BY <2>2, <2>a, SamePlace
  <2> QED
    BY <1>2, <2>1, <2>2 DEF UnbindResponse
<1> QED
  BY <1>1, <1>2

-------------------------------------------------------------------------------
(* The handlers of states that look at reports of the binding.               *)

\* Where a read stops: at its last report if the frame is full, at the first
\* report that needs another frame, or behind the last one.
ReadStop(due, mine, n) ==
  LET others == {i \in due : i \notin mine}
  IN  IF Cardinality(mine) >= MaxRecords THEN nth(MaxRecords, mine)
      ELSE IF others # {} THEN Pick(others) ELSE n

LEMMA ReadStops ==
  ASSUME NEW from \in Nat, NEW n \in Nat, NEW due \in SUBSET (from..(n - 1)),
         from <= n, NEW mine \in SUBSET due
  PROVE  ReadStop(due, mine, n) \in from..n
<1> DEFINE others == {i \in due : i \notin mine}
<1>0. \A i \in due : i \in Nat /\ i <= n /\ i \in from..n
  <2>1. \A i \in from..(n - 1) : i \in Nat /\ i <= n /\ i \in from..n
    OBVIOUS
  <2> QED
    BY <2>1
<1>1. mine \in SUBSET Nat /\ (\A j \in mine : j <= n) /\ others \in SUBSET Nat
  BY <1>0
<1>2. IsFiniteSet(mine)
  BY <1>1, FS_BoundedSetOfNaturals
<1>3. MaxRecords \in Nat \ {0}
  BY BindingAssumption
<1>4. ASSUME Cardinality(mine) >= MaxRecords PROVE nth(MaxRecords, mine) \in from..n
  <2>1. MaxRecords <= Cardinality(mine)
    BY <1>2, <1>3, <1>4, FS_CardinalityType
  <2>2. nth(MaxRecords, mine) \in mine
    BY <1>1, <1>2, <1>3, <2>1, NthIn
  <2> QED
    BY <1>0, <2>2
<1>5. ASSUME others # {} PROVE Pick(others) \in from..n
  <2>1. Pick(others) \in others
    <3> HIDE DEF others
    <3> QED
      BY <1>1, <1>5, PickIn
  <2> QED
    BY <1>0, <2>1
<1>6. n \in from..n
  OBVIOUS
<1> QED
  BY <1>4, <1>5, <1>6 DEF ReadStop

LEMMA ReadReportEnters ==
  ASSUME BindingInv, ReadReportEnter
  PROVE  BindingInv'
<1> USE DEF BindingInv, Types
<1> DEFINE due == {i \in ctx.reportIter..(NumReports - 1) : isDue(i)}
           mine == {i \in due : \A j \in due : j <= i => code(j) = code(Pick(due))}
           full == Cardinality(mine) >= MaxRecords
           others == {i \in due : i \notin mine}
           stop == IF full THEN nth(MaxRecords, mine)
                   ELSE IF others # {} THEN Pick(others) ELSE NumReports
           records == {i \in mine : i <= stop}
<1>a. /\ sm.state = "ReadReport" /\ sm.entering
      /\ tick' = tick /\ configGroup' \in Destination
  BY DEF ReadReportEnter, Enters, world
<1>b. /\ ctx.iter < Len(ctx.bindings) /\ ctx.configIter <= ctx.reportIter
      /\ ctx.reportIter <= NumReports /\ NumReports \in Nat
      /\ ctx.reportIter \in Nat /\ ctx.configIter \in Nat
  BY <1>a, Fields DEF InRange, OfReport, OfBinding, NumReports, binding
<1>1. stop \in ctx.reportIter..NumReports
  <2>1. due \in SUBSET (ctx.reportIter..(NumReports - 1)) /\ mine \in SUBSET due
    OBVIOUS
  <2>2. stop = ReadStop(due, mine, NumReports)
    BY DEF ReadStop
  <2> HIDE DEF due, mine, stop
  <2> QED
    BY <1>b, <2>1, <2>2, ReadStops
<1>2. records \in SUBSET Nat /\ (records # {} => NumReports > 0)
  <2>1. \A i \in ctx.reportIter..(NumReports - 1) : i \in Nat /\ NumReports > 0
    BY <1>b
  <2>2. records \subseteq ctx.reportIter..(NumReports - 1)
    OBVIOUS
  <2> HIDE DEF records
  <2> QED
    BY <2>1, <2>2
<1>3. \/ records = {} /\ ProcessNextBinding
      \/ /\ records # {}
         /\ ctx' = [ctx EXCEPT !.reportIter = stop, !.records = records]
         /\ enqueued \/ refused
  BY DEF ReadReportEnter
<1> HIDE DEF records, stop
<1>4. CASE ProcessNextBinding
  BY <1>4, <1>a, NextBinding
<1>5. CASE records # {} /\ ctx' = [ctx EXCEPT !.reportIter = stop, !.records = records]
  <2>1. stop \in Nat /\ ctx.configIter <= stop /\ stop <= NumReports
    BY <1>1, <1>b
  <2>2. ctx' \in Context
    BY <1>2, <1>5, <2>1, DoubleUpdates
  <2>3. /\ ctx'.bindings = ctx.bindings /\ ctx'.iter = ctx.iter
        /\ ctx'.configIter = ctx.configIter /\ ctx'.reportIter = stop
        /\ ctx'.records = records
    BY <1>5 DEF Context
  <2>4. CASE refused
    BY <1>a, <2>2, <2>4, PassEnds DEF refused
  <2>5. CASE enqueued
    <3>1. sm' \in Machine /\ sm'.state = "ReadReport" /\ sm'.timer
      BY <1>a, <2>5, Moves DEF enqueued
    <3> QED
      BY <1>2, <1>5, <1>a, <1>b, <2>1, <2>2, <2>3, <3>1
         DEF BindingGoesOn, InRange, HasRecords, NumReports, binding
  <2> QED
    BY <1>3, <1>5, <2>4, <2>5, <1>4
<1> QED
  BY <1>3, <1>4, <1>5

LEMMA ReportsAnswered ==
  ASSUME BindingInv, NEW of, ReadReportConfigResponse(of),
         tick' = tick, configGroup' \in Destination
  PROVE  BindingInv'
<1> USE DEF BindingInv, Types
<1>0. {"ReadNext", "Configure"} \subseteq States
  BY DEF States, Waiting
<1>1. CASE UNCHANGED <<sm, ctx>>
  BY <1>1, SamePlace
<1>2. CASE In("ReadReport") /\ setState("ReadNext") /\ UNCHANGED ctx
  <2>1. sm' \in Machine /\ sm'.state = "ReadNext" /\ sm'.entering
    BY <1>0, <1>2, Moves
  <2> QED
    BY <1>2, <2>1 DEF In, BindingGoesOn, InRange, HasRecords, OfReport, OfBinding
<1>3. CASE ProcessNextBinding
  BY <1>3, NextBinding
<1>4. CASE In("ReadReport") /\ setState("Configure") /\ UNCHANGED ctx
  <2>1. sm' \in Machine /\ sm'.state = "Configure" /\ sm'.entering
    BY <1>0, <1>4, Moves
  <2> QED
    BY <1>4, <2>1 DEF In, BindingGoesOn, InRange, HasRecords, OfReport, OfBinding
<1> QED
  BY <1>1, <1>2, <1>3, <1>4 DEF ReadReportConfigResponse

LEMMA ReadsAnswered ==
  ASSUME BindingInv, ReadResponse \/ LateReadResponse
  PROVE  BindingInv'
<1>1. configGroup' \in Destination /\ tick' = tick
  BY DEF BindingInv, Types, ReadResponse, LateReadResponse, world
<1> QED
  BY <1>1, ReportsAnswered DEF ReadResponse, LateReadResponse

LEMMA NextEnters ==
  ASSUME BindingInv, NextEnter
  PROVE  BindingInv'
<1> USE DEF BindingInv, Types
<1>0. {"ReadReport", "Configure"} \subseteq States
  BY DEF States, Waiting
<1>1. tick' = tick /\ ctx' = ctx /\ configGroup' \in Destination
  BY DEF NextEnter, world
<1>2. CASE Enters("ReadNext") /\ setState("ReadReport")
  <2>1. sm' \in Machine /\ sm'.state = "ReadReport" /\ sm'.entering
    BY <1>0, <1>2, Moves
  <2> QED
    BY <1>1, <1>2, <2>1 DEF Enters, BindingGoesOn, InRange, HasRecords, OfReport, OfBinding
<1>3. CASE Enters("ConfigureNext") /\ setState("Configure")
  <2>1. sm' \in Machine /\ sm'.state = "Configure" /\ sm'.entering
    BY <1>0, <1>3, Moves
  <2> QED
    BY <1>1, <1>3, <2>1 DEF Enters, BindingGoesOn, InRange, HasRecords, OfReport, OfBinding
<1> QED
  BY <1>2, <1>3 DEF NextEnter

\* Where a configuration stops: behind the last report of a full frame, or
\* where the read stopped.
ConfigureStop(from, range, hits) ==
  IF Cardinality(hits) >= MaxRecords THEN nth(MaxRecords, hits) + 1
  ELSE from + Cardinality(range)

LEMMA ConfigureStops ==
  ASSUME NEW from \in Nat, NEW to \in Nat, from <= to, NEW n \in Nat, to <= n,
         NEW hits \in SUBSET {i \in from..(to - 1) : i < n}
  PROVE  /\ ConfigureStop(from, {i \in from..(to - 1) : i < n}, hits) \in Nat
         /\ ConfigureStop(from, {i \in from..(to - 1) : i < n}, hits) <= to
<1>1. {i \in from..(to - 1) : i < n} = from..(to - 1)
  OBVIOUS
<1>2. Cardinality(from..(to - 1)) = to - from
  <2>1. from \in Int /\ to - 1 \in Int
    OBVIOUS
  <2>2. Cardinality(from..(to - 1)) = IF from > to - 1 THEN 0 ELSE (to - 1) - from + 1
    BY <2>1, FS_Interval
  <2> QED
    BY <2>2
<1>3. \A i \in hits : i \in Nat /\ i <= to /\ i + 1 \in Nat /\ i + 1 <= to
  <2>1. \A i \in from..(to - 1) : i \in Nat /\ i <= to /\ i + 1 \in Nat /\ i + 1 <= to
    OBVIOUS
  <2> QED
    BY <2>1
<1>4. hits \in SUBSET Nat /\ \A j \in hits : j <= to
  BY <1>3
<1>5. IsFiniteSet(hits)
  BY <1>4, FS_BoundedSetOfNaturals
<1>6. MaxRecords \in Nat \ {0}
  BY BindingAssumption
<1>7. ASSUME Cardinality(hits) >= MaxRecords
      PROVE  nth(MaxRecords, hits) + 1 \in Nat /\ nth(MaxRecords, hits) + 1 <= to
  <2>1. MaxRecords <= Cardinality(hits)
    BY <1>5, <1>6, <1>7, FS_CardinalityType
  <2>2. nth(MaxRecords, hits) \in hits
    BY <1>4, <1>5, <1>6, <2>1, NthIn
  <2> QED
    BY <1>3, <2>2
<1>8. from + Cardinality(from..(to - 1)) \in Nat /\ from + Cardinality(from..(to - 1)) <= to
  BY <1>2
<1> QED
  BY <1>1, <1>7, <1>8 DEF ConfigureStop

LEMMA ConfigureEnters ==
  ASSUME BindingInv, ConfigureEnter
  PROVE  BindingInv'
<1> USE DEF BindingInv, Types
<1> DEFINE range == {i \in ctx.configIter..(ctx.reportIter - 1) : i < NumReports}
           hits == {i \in range : code(i) = code(Pick(ctx.records))}
           stop == ConfigureStop(ctx.configIter, range, hits)
<1>a. /\ sm.state = "Configure" /\ sm.entering
      /\ tick' = tick /\ configGroup' \in Destination
  BY DEF ConfigureEnter, Enters, world
<1>b. /\ ctx.iter < Len(ctx.bindings) /\ ctx.configIter <= ctx.reportIter
      /\ ctx.reportIter <= NumReports /\ NumReports \in Nat
      /\ ctx.reportIter \in Nat /\ ctx.configIter \in Nat
      /\ ctx.records # {} /\ NumReports > 0
  BY <1>a, Fields DEF InRange, HasRecords, OfReport, OfBinding, NumReports, binding
<1>1. stop \in Nat /\ stop <= ctx.reportIter
  <2>1. hits \in SUBSET range
    OBVIOUS
  <2> HIDE DEF hits
  <2> QED
    BY <1>b, <2>1, ConfigureStops
<1>2. ctx' = [ctx EXCEPT !.configIter = stop] /\ (enqueued \/ refused \/ setState("Binding"))
  BY DEF ConfigureEnter, ConfigureStop
<1> HIDE DEF stop
<1>3. ctx' \in Context
  BY <1>1, <1>2, ContextUpdates
<1>4. /\ ctx'.bindings = ctx.bindings /\ ctx'.iter = ctx.iter
      /\ ctx'.configIter = stop /\ ctx'.reportIter = ctx.reportIter
      /\ ctx'.records = ctx.records
  BY <1>2 DEF Context
<1>5. CASE setState("Binding")
  BY <1>3, <1>5, <1>a, PassEnds
<1>6. CASE enqueued
  <2>1. sm' \in Machine /\ sm'.state = "Configure" /\ sm'.timer
    BY <1>6, <1>a, Moves DEF enqueued
  <2> QED
    BY <1>1, <1>3, <1>4, <1>a, <1>b, <2>1
       DEF BindingGoesOn, InRange, HasRecords, NumReports, binding
<1> QED
  BY <1>2, <1>5, <1>6 DEF refused

LEMMA ConfigureAnswered ==
  ASSUME BindingInv, ConfigureResponse
  PROVE  BindingInv'
<1> USE DEF BindingInv, Types
<1>0. {"ConfigureNext", "ReadNext"} \subseteq States
  BY DEF States, Waiting
<1>a. tick' = tick /\ configGroup' \in Destination
  BY DEF ConfigureResponse
<1>1. CASE UNCHANGED <<sm, ctx>>
  BY <1>1, <1>a, SamePlace
<1>2. CASE In("Configure") /\ setState("ConfigureNext") /\ UNCHANGED ctx
  <2>1. sm' \in Machine /\ sm'.state = "ConfigureNext" /\ sm'.entering
    BY <1>0, <1>2, Moves
  <2> QED
    BY <1>2, <1>a, <2>1 DEF In, BindingGoesOn, InRange, HasRecords, OfReport, OfBinding
<1>3. CASE In("Configure") /\ setState("ReadNext") /\ UNCHANGED ctx
  <2>1. sm' \in Machine /\ sm'.state = "ReadNext" /\ sm'.entering
    BY <1>0, <1>3, Moves
  <2> QED
    BY <1>3, <1>a, <2>1 DEF In, BindingGoesOn, InRange, HasRecords, OfReport, OfBinding
<1>4. CASE ProcessNextBinding
  BY <1>4, <1>a, NextBinding
<1>5. CASE setState("Binding") /\ UNCHANGED ctx
  BY <1>5, <1>a, PassEnds
<1> QED
  BY <1>1, <1>2, <1>3, <1>4, <1>5 DEF ConfigureResponse

-------------------------------------------------------------------------------
(* Confirms, timeouts, reloads and what users and devices do.                *)
LEMMA Confirmed ==
  ASSUME BindingInv, ApsConfirm
  PROVE  BindingInv'
<1> USE DEF BindingInv, Types
<1>a. tick' = tick /\ ctx' = ctx /\ configGroup' \in Destination /\ ~sm.entering
  BY DEF ApsConfirm, world
<1>1. CASE refused
  BY <1>1, <1>a, PassEnds DEF refused
<1>2. CASE enqueued
  <2>1. sm' \in Machine /\ sm'.state = sm.state /\ ~sm'.entering /\ sm'.timer
    BY <1>2, Moves DEF enqueued
  <2> QED
    BY <1>a, <2>1 DEF BindingGoesOn, InRange, HasRecords
<1> QED
  BY <1>1, <1>2 DEF ApsConfirm

LEMMA TimedOut ==
  ASSUME BindingInv, StateTimeout
  PROVE  BindingInv'
<1> USE DEF BindingInv, Types
<1>1. tick' = tick /\ configGroup' \in Destination /\ setState("Binding")
  BY DEF StateTimeout
<1>2. {} \in SUBSET Binding
  OBVIOUS
<1>3. [ctx EXCEPT !.tBound = {}] \in Context
  BY <1>2, ContextUpdates
<1>4. ctx' = [ctx EXCEPT !.tBound = {}] \/ ctx' = ctx
  BY DEF StateTimeout, hourPasses
<1> QED
  BY <1>1, <1>3, <1>4, PassEnds

LEMMA StrayTicks ==
  ASSUME BindingInv, StrayTick
  PROVE  BindingInv'
BY DEF BindingInv, Types, StrayTick, world, BindingGoesOn, InRange, HasRecords

LEMMA Reloads ==
  ASSUME BindingInv, Reload
  PROVE  BindingInv'
<1> USE DEF BindingInv, Types
<1>1. /\ sm' = [state |-> "none", entering |-> FALSE, timer |-> FALSE]
      /\ tick' = tick /\ configGroup' = configGroup
  BY DEF Reload
<1>2. PICK ddf \in Ddfs \cup {ctx.bindings}, init \in BOOLEAN :
         ctx' = [NewContext(ddf, ctx.mgmt) EXCEPT !.firstRound = init \/ ctx.firstRound]
  BY DEF Reload
<1>3. /\ ddf \in Seq(Binding) /\ (init \/ ctx.firstRound) \in BOOLEAN
      /\ ctx.mgmt \in {"unknown", "yes", "no"}
  BY BindingAssumption DEF Context
<1>4. ctx' \in Context
  BY <1>2, <1>3, NewContextIn
<1>5. sm' \in Machine /\ sm'.state = "none"
  BY <1>1 DEF Machine, States
<1>6. "none" \notin OfBinding
  BY DEF OfBinding
<1> QED
  BY <1>1, <1>4, <1>5, <1>6, OtherGoesOn DEF BindingGoesOn

\* A binding is appended, so those before it keep their place.
LEMMA BindingAdded ==
  ASSUME BindingInv, addBinding
  PROVE  BindingInv'
<1> USE DEF BindingInv, Types
<1>1. PICK b \in Binding : ctx' = [ctx EXCEPT !.bindings = Append(@, b)]
  BY DEF addBinding
<1>2. sm' = sm /\ tick' = tick /\ configGroup' = configGroup
  BY DEF addBinding
<1>3. ctx.bindings \in Seq(Binding) /\ ctx.iter \in Nat
  BY Fields
<1>4. Append(ctx.bindings, b) \in Seq(Binding)
  BY <1>3
<1>5. ctx' \in Context
  BY <1>1, <1>4, ContextUpdates
<1>6. /\ ctx'.bindings = Append(ctx.bindings, b) /\ ctx'.iter = ctx.iter
      /\ ctx'.reportIter = ctx.reportIter /\ ctx'.configIter = ctx.configIter
      /\ ctx'.records = ctx.records
  BY <1>1 DEF Context
<1>7. ctx.iter < Len(ctx.bindings) =>
        /\ ctx'.iter < Len(ctx'.bindings)
        /\ ctx'.bindings[ctx'.iter + 1] = ctx.bindings[ctx.iter + 1]
  <2>1. \A B \in Seq(Binding), i \in Nat :
           i < Len(B) => i < Len(Append(B, b)) /\ Append(B, b)[i + 1] = B[i + 1]
    OBVIOUS
  <2> QED
    BY <1>3, <1>6, <2>1
<1>8. sm.state \in OfReport \cup {"Configure", "ConfigureNext", "ReadReport"} =>
        ctx.iter < Len(ctx.bindings)
  BY DEF InRange, OfReport, OfBinding
<1> QED
  BY <1>2, <1>5, <1>6, <1>7, <1>8 DEF BindingGoesOn, InRange, HasRecords

LEMMA WorldChanges ==
  ASSUME BindingInv, GroupChanges \/ DeviceForgets \/ AnswerLost
  PROVE  BindingInv'
<1>1. sm' = sm /\ tick' = tick /\ ctx' = ctx
  BY DEF GroupChanges, DeviceForgets, AnswerLost
<1>2. configGroup' \in Destination
  BY DEF GroupChanges, DeviceForgets, AnswerLost, BindingInv, Types, Destination
<1> QED
  BY <1>1, <1>2 DEF BindingInv, Types, BindingGoesOn, InRange, HasRecords

-------------------------------------------------------------------------------
LEMMA InitBinding == Init => BindingInv
<1> SUFFICES ASSUME Init PROVE BindingInv
  OBVIOUS
<1>1. PICK ddf \in Ddfs : ctx = NewContext(ddf, "unknown")
  BY DEF Init
<1>2. ctx \in Context
  <2>1. ddf \in Seq(Binding)
    BY BindingAssumption
  <2> QED
    BY <1>1, <2>1, NewContextIn
<1>3. sm \in Machine /\ sm.state = "none"
  BY DEF Init, Machine, States
<1>4. tick \in BOOLEAN /\ configGroup \in Destination
  BY DEF Init, Destination
<1> QED
  BY <1>2, <1>3, <1>4
     DEF BindingInv, Types, BindingGoesOn, InRange, HasRecords, OfReport, OfBinding

LEMMA BindingStep == BindingInv /\ [Next]_vars => BindingInv'
<1> SUFFICES ASSUME BindingInv, [Next]_vars PROVE BindingInv'
  OBVIOUS
<1>1. CASE Enter
  BY <1>1, EnterOthers, CreateEnters, RemoveSteps, ReadReportEnters, NextEnters,
     ConfigureEnters DEF Enter
<1>2. CASE Tick
  BY <1>2, BeginsPass, TableReadTicks, VerifyTicks, StrayTicks DEF Tick
<1>3. CASE Answer
  BY <1>3, TableIsRead, BindAnswered, RemoveSteps, ReadsAnswered, ConfigureAnswered DEF Answer
<1>4. CASE DEV_BindingHandler
  BY <1>4, BeginsPass
<1>5. CASE ApsConfirm \/ StateTimeout
  BY <1>5, Confirmed, TimedOut
<1>6. CASE Reload \/ addBinding
  BY <1>6, Reloads, BindingAdded
<1>7. CASE AnswerLost \/ GroupChanges \/ DeviceForgets
  BY <1>7, WorldChanges
<1>8. CASE UNCHANGED vars
  BY <1>8 DEF vars, BindingInv, Types, BindingGoesOn, InRange, HasRecords
<1> QED
  BY <1>1, <1>2, <1>3, <1>4, <1>5, <1>6, <1>7, <1>8 DEF Next

\* BindingInv is an invariant of level 1.
LEMMA BindingInvHolds == Spec => []BindingInv
BY InitBinding, BindingStep, PTL DEF Spec

\* No pass of level 1 hangs: whatever is refused, lost, late or reloaded, a state
\* that waits has its timer, or an event to come (device.cpp, DEV_BindingHandler
\* to DEV_ConfigureReportingHandler), for any device description.
THEOREM BindingNeverHangs == Spec => []BindingGoesOn
<1>1. BindingInv => BindingGoesOn
  BY DEF BindingInv
<1> QED
  BY <1>1, BindingInvHolds, PTL

\* The iterators of level 1 point to a binding and its reports whenever a handler
\* uses them, for any device description, number of reports and frame size, also
\* when the description is reloaded between a request and its answer.
THEOREM IteratorsValid == Spec => []IteratorsInRange
<1>1. BindingInv => IteratorsInRange
  BY DEF BindingInv, InRange, HasRecords, OfReport, OfBinding, IteratorsInRange,
         Iterating, NumReports, binding
<1> QED
  BY <1>1, BindingInvHolds, PTL
===============================================================================
