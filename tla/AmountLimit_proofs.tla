------------------------- MODULE AmountLimit_proofs -------------------------
(***************************************************************************)
(* Proofs about AmountLimit, for every set of orders and caps and every    *)
(* number of starts, edits and deaths.                                     *)
(***************************************************************************)
EXTENDS AmountLimit, TLAPS

\* The callbacks counted and the stops run balance: always without a count, and with one
\* as long as its start is the bot's and no continue waits, whatever the cap is now: a cap
\* that is put back makes an old count current again.
Balanced ==
  /\ stops = None => called = ran
  /\ stops # None =>
       /\ stops.count > 0 /\ stops.key.started <= started
       /\ ~request /\ stops.key.started = started => called = ran + stops.count

IInv == TypeOK /\ Balanced

\* A bot that was never started again has counted nothing.
LEMMA InitInv == Init => IInv
<1> SUFFICES ASSUME Init PROVE TypeOK /\ Balanced
  BY DEF IInv
<1> USE CapsAssumption, BoundsAssumption
<1>1. /\ started \in 0..MaxStarts /\ edits \in 0..MaxEdits /\ crashes \in 0..MaxCrashes
      /\ generation \in Nat /\ called \in Nat /\ ran \in Nat /\ called = ran
  BY DEF Init
<1>2. /\ working \in BOOLEAN /\ request \in BOOLEAN /\ cap \in Caps \cup {0}
      /\ counted \subseteq Orders /\ stops = None /\ engine = Idle
  BY DEF Init
<1>3. /\ venue \in [Orders -> {"none", "open", "filled", "cancelled"}]
      /\ row \in [Orders -> {"none", "open", "filled", "cancelled"}]
  BY DEF Init
<1> QED BY <1>1, <1>2, <1>3 DEF TypeOK, Balanced

\* The steps that leave the count, the start and the history alone keep the balance.
LEMMA KeepsBalance ==
  ASSUME Balanced, UNCHANGED <<stops, called, ran, request, started>>
  PROVE  Balanced'
  BY DEF Balanced

\* A stop, and a read of an order, are well typed.
LEMMA StopTyped == ASSUME TypeOK, StopBot PROVE working' \in BOOLEAN /\ generation' \in Nat /\ started' = started
<1>1. generation \in Nat
  BY DEF TypeOK
<1>2. working' = FALSE /\ generation' = generation + 1 /\ started' = started
  BY DEF StopBot
<1>3. generation' \in Nat
  BY <1>1, <1>2
<1>4. working' \in BOOLEAN
  BY <1>2
<1> QED BY <1>2, <1>3, <1>4
LEMMA SettledTyped ==
  ASSUME TypeOK, NEW o \in Orders
  PROVE  Settled(o) \in [Orders -> {"none", "open", "filled", "cancelled"}]
  BY DEF TypeOK, Settled

\* No step breaks the types or the balance.
LEMMA NextInv == IInv /\ [Next]_vars => IInv'
<1> SUFFICES ASSUME TypeOK, Balanced, [Next]_vars PROVE TypeOK' /\ Balanced'
  BY DEF IInv
<1> USE CapsAssumption, BoundsAssumption, NoneAssumption
<1>1. ASSUME NEW o \in Orders, VenueEnds(o) PROVE TypeOK' /\ Balanced'
  <2>1. TypeOK' BY <1>1 DEF VenueEnds, TypeOK, bot, history
  <2>2. Balanced' BY <1>1, KeepsBalance DEF VenueEnds, bot, history
  <2> QED BY <2>1, <2>2
<1>2. ASSUME NEW o \in Orders, FollowUp(o) PROVE TypeOK' /\ Balanced'
  <2>1. working' \in BOOLEAN /\ generation' \in Nat /\ started' = started
    <3>1. CASE StopBot BY <3>1, StopTyped
    <3>2. CASE UNCHANGED bot BY <3>2 DEF bot, TypeOK
    <3> QED BY <1>2, <3>1, <3>2 DEF FollowUp
  <2>3. TypeOK' BY <1>2, <2>1, SettledTyped DEF FollowUp, TypeOK, history
  <2>2. Balanced' BY <1>2, <2>1, KeepsBalance DEF FollowUp, history
  <2> QED BY <2>2, <2>3
<1>3. ASSUME NEW o \in Orders, SweepApplies(o) PROVE TypeOK' /\ Balanced'
  <2>1. CASE CountStop
    <3>1. CapKey \in Key
      BY DEF CapKey, Key, TypeOK
    <3>2. stops # None => stops \in [count : Nat, key : Key]
      BY DEF TypeOK
    <3>3. TypeOK'
      BY <1>3, <2>1, <3>1, <3>2 DEF SweepApplies, Settled, CountStop, Current, TypeOK, bot
    <3>4. stops' # None /\ stops'.key.started = started /\ started' = started
      <4>1. stops'.key = CapKey /\ started' = started
        BY <1>3, <2>1 DEF SweepApplies, CountStop, bot
      <4>2. stops' = [count |-> stops'.count, key |-> CapKey] /\ stops' \in [count : Nat, key : Key]
        BY <2>1, <3>1, <3>2 DEF CountStop, Current
      <4> QED BY <4>1, <4>2 DEF CapKey
    <3>5. stops'.count > 0 /\ called' = ran' + stops'.count
      <4>1. CASE Current
        <5>1. stops # None /\ ~request /\ stops.key.started = started
          BY <4>1 DEF Current, CapKey
        <5>2. called = ran + stops.count
          BY <5>1 DEF Balanced
        <5> QED BY <2>1, <4>1, <5>1, <5>2, <3>2 DEF CountStop, TypeOK, Balanced
      <4>2. CASE ~Current
        BY <2>1, <4>2 DEF CountStop
      <4> QED BY <4>1, <4>2
    <3>6. Balanced'
      BY <3>4, <3>5, started \in Nat DEF Balanced, TypeOK
    <3> QED BY <3>3, <3>6
  <2>2. CASE UNCHANGED <<stops, history>>
    <3>1. TypeOK' BY <1>3, <2>2 DEF SweepApplies, Settled, TypeOK, bot, history
    <3>2. Balanced' BY <1>3, <2>2, KeepsBalance DEF SweepApplies, bot, history
    <3> QED BY <3>1, <3>2
  <2> QED BY <1>3, <2>1, <2>2 DEF SweepApplies
<1>4. ASSUME NEW o \in Orders, Place(o) PROVE TypeOK' /\ Balanced'
  <2>1. TypeOK'
    BY <1>4, engine \in Run DEF Place, TypeOK, Run, Idle, Down, bot, history
  <2>2. Balanced' BY <1>4, KeepsBalance DEF Place, bot, history
  <2> QED BY <2>1, <2>2
<1>5. CASE WebStop
  <2>1. TypeOK' BY <1>5, StopTyped DEF WebStop, TypeOK, market, history
  <2>2. Balanced' BY <1>5, KeepsBalance DEF WebStop, StopBot, history
  <2> QED BY <2>1, <2>2
<1>6. ASSUME NEW fresh \in BOOLEAN, WebStart(fresh) PROVE TypeOK' /\ Balanced'
  <2>1. TypeOK' BY <1>6 DEF WebStart, Overridden, TypeOK, market
  <2>2. stops # None => stops \in [count : Nat, key : Key] /\ stops.key.started \in Nat
    BY DEF TypeOK, Key
  <2>3. called' = 0 /\ ran' = 0 /\ stops' = stops
    BY <1>6 DEF WebStart, Overridden
  <2>4. CASE fresh
    <3>1. started' = started + 1 /\ started \in Nat
      BY <1>6, <2>4 DEF WebStart, TypeOK
    <3>2. stops # None =>
            stops.count > 0 /\ stops.key.started <= started' /\ stops.key.started # started'
      <4>1. stops # None => stops.key.started <= started /\ stops.count > 0
        BY DEF Balanced
      <4> QED BY <2>2, <3>1, <4>1
    <3> QED BY <2>1, <2>3, <3>2 DEF Balanced
  <2>5. CASE ~fresh
    <3>1. started' = started
      BY <1>6, <2>5 DEF WebStart
    <3>2. request' = TRUE
      BY <1>6, <2>5 DEF WebStart
    <3>3. stops # None => stops.key.started <= started' /\ stops.count > 0
      BY <3>1 DEF Balanced
    <3> QED BY <2>1, <2>3, <3>2, <3>3 DEF Balanced
  <2> QED BY <2>1, <2>4, <2>5
<1>7. ASSUME NEW to \in Caps \cup {0}, EditCap(to) PROVE TypeOK' /\ Balanced'
  <2>1. TypeOK' BY <1>7 DEF EditCap, TypeOK, bot, history
  <2>2. Balanced' BY <1>7, KeepsBalance DEF EditCap, bot, history
  <2> QED BY <2>1, <2>2
<1>8. CASE ContinueStart
  BY <1>8 DEF ContinueStart, Overridden, TypeOK, Balanced, market, bot
<1>9. CASE TickBegins \/ RefreshBegins \/ DrainEnds \/ SweepEnds \/ Crash \/ Boot
  <2>1. RunIdentity \in Identity
    BY DEF RunIdentity, Identity, TypeOK
  <2>2. engine' \in Run \cup {Idle, Down}
    <3>1. CASE TickBegins \/ RefreshBegins \/ Boot
      <4>1. PICK at \in {"boot", "first", "sweep"}, owner \in Identity \cup {None} :
              engine' = [at |-> at, owner |-> owner, mine |-> FALSE]
        BY <3>1, <2>1 DEF TickBegins, RefreshBegins, Boot
      <4> QED BY <4>1 DEF Run
    <3>2. CASE DrainEnds \/ SweepEnds
      <4>1. engine \in Run
        BY <3>2 DEF DrainEnds, SweepEnds, Drains, TypeOK, Idle, Down
      <4>2. [engine EXCEPT !.at = "sweep"] \in Run /\ [engine EXCEPT !.at = "last"] \in Run
        BY <4>1 DEF Run
      <4> QED BY <3>2, <4>2 DEF DrainEnds, SweepEnds
    <3>3. CASE Crash
      BY <3>3 DEF Crash
    <3> QED BY <1>9, <3>1, <3>2, <3>3
  <2>3. TypeOK'
    BY <1>9, <2>2 DEF TickBegins, RefreshBegins, DrainEnds, SweepEnds, Crash, Boot,
                      TypeOK, market, bot, history
  <2>4. Balanced'
    BY <1>9, KeepsBalance DEF TickBegins, RefreshBegins, DrainEnds, SweepEnds, Crash, Boot,
                              bot, history
  <2> QED BY <2>3, <2>4
<1>10. CASE DrainDiscards
  BY <1>10 DEF DrainDiscards, Overridden, TypeOK, Balanced, market, bot
<1>11. CASE DrainStops
  <2>1. /\ stops # None /\ ~request /\ stops.key.started = started
        /\ stops \in [count : Nat, key : Key] /\ stops.count > 0
        /\ called = ran + stops.count
    BY <1>11 DEF DrainStops, Current, CapKey, TypeOK, Balanced
  <2>2. engine \in Run /\ engine' \in Run
    <3>1. engine \in Run
      BY <1>11 DEF DrainStops, Drains, TypeOK
    <3>2. CASE engine.owner = None
      BY <1>11, <3>1, <3>2 DEF DrainStops
    <3>3. CASE engine.owner # None
      <4>1. engine.owner \in Identity
        BY <3>1, <3>3 DEF Run
      <4>2. [engine.owner EXCEPT !.generation = @ + 1] \in Identity
        BY <4>1 DEF Identity
      <4> QED BY <1>11, <3>1, <3>3, <4>2 DEF DrainStops, Run
    <3> QED BY <3>1, <3>2, <3>3
  <2>3. TypeOK'
    <3>1. stops' \in [count : Nat, key : Key] \cup {None}
      BY <1>11, <2>1 DEF DrainStops
    <3>2. StopBot /\ ran' \in Nat /\ UNCHANGED <<venue, row, counted, cap, request, edits, crashes, called>>
      BY <1>11 DEF DrainStops, TypeOK, market
    <3> QED BY <2>2, <3>1, <3>2, StopTyped DEF TypeOK
  <2>4. CASE stops.count = 1
    <3>1. stops' = None /\ ran' = ran + 1 /\ called' = called
      BY <1>11, <2>4 DEF DrainStops
    <3>2. called' = ran'
      BY <2>1, <2>4, <3>1
    <3> QED BY <2>3, <3>1, <3>2 DEF Balanced
  <2>5. CASE stops.count # 1
    <3>1. stops' = [stops EXCEPT !.count = @ - 1] /\ stops' \in [count : Nat, key : Key]
      BY <1>11, <2>1, <2>5 DEF DrainStops
    <3>2. stops' # None /\ stops'.key = stops.key /\ stops'.count = stops.count - 1
      BY <2>1, <3>1
    <3> QED BY <1>11, <2>1, <2>3, <2>5, <3>2 DEF DrainStops, StopBot, TypeOK, Balanced
  <2> QED BY <2>3, <2>4, <2>5
<1>12. CASE UNCHANGED vars
  BY <1>12, KeepsBalance DEF vars, TypeOK
<1> QED
  BY <1>1, <1>2, <1>3, <1>4, <1>5, <1>6, <1>7, <1>8, <1>9, <1>10, <1>11, <1>12 DEF Next

\* The balance is an invariant.
LEMMA Invariance == Spec => []IInv
  BY InitInv, NextInv, PTL DEF Spec

\* Every variable of the amount limit keeps its type.
THEOREM AmountTyped == Spec => []TypeOK
<1>1. IInv => TypeOK
  BY DEF IInv
<1> QED BY Invariance, <1>1, PTL

\* Every callback a sweep counted stops the bot exactly once, and none counted before its
\* owner's resume does (polling.rs, apply_committed; tick.rs, drain_amount_limit_stops).
THEOREM StopsExact == Spec => []StopsMatchCallbacks
<1>1. IInv => StopsMatchCallbacks
  BY DEF IInv, Balanced, TypeOK, StopsMatchCallbacks, Current, Count, CapKey
<1> QED BY Invariance, <1>1, PTL
=============================================================================
