---------------------------- MODULE Signals_proofs ----------------------------
(***************************************************************************)
(* Proofs about Signals, for every set of rules and any number of calls,   *)
(* orders, edits and kills.                                                *)
(***************************************************************************)
EXTENDS Signals, FiniteSetTheorems, TLAPS

\* A call is queued, or was consumed in one way; numbers the hook has not reached are free.
Accounted(c) ==
  /\ c \in Queued => c <= taken
  /\ c \in Queued \/ c > taken => ended[c] = {}
  /\ c \notin Queued /\ c <= taken => \E how \in {"line", "row", "intent"} : ended[c] = {how}

\* An order belongs to a call that was consumed with an intent.
Begun(o) == owner[o] # 0 => "intent" \in ended[owner[o]]

Pending(o) == intent # None /\ intent.id = o
\* The venue refused it, and no request of it is left.
Gone(o) == verdict[o] = "refused" /\ o \notin wire /\ o \in sent

\* What is known of an order, from where it has got to: drawn, sent, on the wire, recorded.
Orderly(o) ==
  /\ owner[o] = 0 => o \notin sent /\ ~Pending(o)
  /\ o \notin sent => o \notin wire /\ verdict[o] = "none"
  /\ o \in wire => verdict[o] = "none" /\ Pending(o)
  /\ rows[o] > 0 => Booked(o)
  /\ Pending(o) /\ ~intent.dispatched => o \notin sent

\* Of two orders of one call, one never reached the book.
Rivals(o, p) == o # p /\ owner[o] = owner[p] /\ owner[o] # 0 => Gone(o) \/ Gone(p)

\* While the engine has an order in hand it is the bot's pending one.
Holding == engine.pc \in {"begun", "sending", "awaiting", "answered", "asking", "found", "absent"}
Placing == engine.pc \in {"begun", "sending", "awaiting", "answered"}
\* What the engine holds: a call of the queue until it is consumed, and then the one order
\* of the call that may be the venue's.
HandCall ==
  /\ engine.pc \in {"loaded", "refusing", "reading"} \/ (At("sized") /\ engine.first) =>
       Mine \in Queued
  /\ At("sized") /\ ~engine.first => "intent" \in ended[Mine]
  /\ At("sized") => Mine # 0 /\ \A o \in Orders : owner[o] = Mine => Gone(o)
HandOrder ==
  /\ Holding => Pending(engine.order)
  /\ Placing =>
       /\ marker = None /\ Mine # 0 /\ owner[engine.order] = Mine
       /\ \A o \in Orders : owner[o] = Mine /\ o # engine.order => Gone(o)
\* What it knows of that order is so.
HandTruth ==
  /\ At("begun") => ~intent.dispatched
  /\ At("sending") => intent.dispatched /\ engine.order \notin sent
  /\ At("answered") =>
       /\ engine.reply = "accepted" => Booked(engine.order)
       /\ engine.reply \in {"rejected", "safe"} => verdict[engine.order] = "refused"
       /\ engine.reply = "not_sent" => engine.order \notin sent
  /\ At("found") => Booked(engine.order)
  /\ At("absent") => ~Booked(engine.order) /\ engine.order \notin wire

Calling == (\A c \in Calls : Accounted(c)) /\ (\A o \in Orders : Begun(o))
Ordering == (\A o \in Orders : Orderly(o)) /\ (\A o, p \in Orders : Rivals(o, p))
Hand == HandCall /\ HandOrder /\ HandTruth

IInv == TypeOK /\ Calling /\ Ordering /\ Hand /\ NoStrayMarker

-----------------------------------------------------------------------------
(* Types.                                                                   *)

Places == {"idle", "loaded", "refusing", "reading", "sized", "begun", "sending", "awaiting",
           "answered", "asking", "found", "absent"}

\* What the engine becomes, whichever step takes it there.
LEMMA EngineTyped ==
  /\ Rest \in Engine /\ [Rest EXCEPT !.pc = "down"] \in Engine
  /\ \A c \in Calls, r \in Rules, p, k \in Nat, w, b \in BOOLEAN :
       [Rest EXCEPT !.pc = "loaded", !.call = c, !.rule = r, !.working = w, !.blocked = b,
                    !.pair = p, !.cred = k] \in Engine
  /\ \A o \in Orders, k \in Nat :
       [Rest EXCEPT !.pc = "asking", !.order = o, !.cred = k] \in Engine
  /\ engine \in Engine =>
       /\ \A pc \in Places : [engine EXCEPT !.pc = pc] \in Engine
       /\ [engine EXCEPT !.pc = "sized", !.first = TRUE] \in Engine
       /\ [engine EXCEPT !.pc = "sized", !.first = FALSE, !.order = 0, !.reply = "none"] \in Engine
       /\ \A o \in Orders : [engine EXCEPT !.pc = "begun", !.order = o] \in Engine
       /\ \A reply \in {"accepted", "ambiguous", "rejected", "safe", "not_sent"} :
            [engine EXCEPT !.pc = "answered", !.reply = reply] \in Engine
<1>1. Rest \in Engine
  BY DEF Rest, Engine
<1>2. [Rest EXCEPT !.pc = "down"] \in Engine
  BY DEF Rest, Engine
<1>3. ASSUME NEW c \in Calls, NEW r \in Rules, NEW p \in Nat, NEW k \in Nat,
             NEW w \in BOOLEAN, NEW b \in BOOLEAN
      PROVE  [Rest EXCEPT !.pc = "loaded", !.call = c, !.rule = r, !.working = w, !.blocked = b,
                          !.pair = p, !.cred = k] \in Engine
  BY DEF Rest, Engine
<1>4. ASSUME NEW o \in Orders, NEW k \in Nat
      PROVE  [Rest EXCEPT !.pc = "asking", !.order = o, !.cred = k] \in Engine
  BY DEF Rest, Engine
<1>5. ASSUME engine \in Engine, NEW pc \in Places PROVE [engine EXCEPT !.pc = pc] \in Engine
  BY <1>5 DEF Engine, Places
<1>6. ASSUME engine \in Engine
      PROVE  /\ [engine EXCEPT !.pc = "sized", !.first = TRUE] \in Engine
             /\ [engine EXCEPT !.pc = "sized", !.first = FALSE, !.order = 0, !.reply = "none"] \in Engine
  BY <1>6 DEF Engine
<1>7. ASSUME engine \in Engine, NEW o \in Orders
      PROVE  [engine EXCEPT !.pc = "begun", !.order = o] \in Engine
  BY <1>7 DEF Engine
<1>8. ASSUME engine \in Engine,
             NEW reply \in {"accepted", "ambiguous", "rejected", "safe", "not_sent"}
      PROVE  [engine EXCEPT !.pc = "answered", !.reply = reply] \in Engine
  BY <1>8 DEF Engine
<1> QED BY <1>1, <1>2, <1>3, <1>4, <1>5, <1>6, <1>7, <1>8

LEMMA InitTyped == Init => TypeOK
<1> SUFFICES ASSUME Init PROVE TypeOK
  OBVIOUS
<1>1. /\ cool \in [Rules -> 0..Cooldown] /\ ended \in [Calls -> SUBSET {"line", "row", "intent"}]
      /\ owner \in [Orders -> Calls \cup {0}] /\ rows \in [Orders -> Nat]
      /\ verdict \in [Orders -> {"none", "booked", "refused"}]
      /\ rule \in [Rules -> {"on", "off", "gone"}]
  BY AgesAssumption DEF Init
<1>2. MaxCalls \in Nat
  BY BoundsAssumption
<1>3. engine \in Engine
  BY EngineTyped DEF Init
<1>4. queue \subseteq Call /\ taken \in 0..MaxCalls /\ wire \subseteq Orders /\ sent \subseteq Orders
      /\ failed \subseteq Orders /\ operated \subseteq Orders
  BY <1>2 DEF Init
<1> QED
  BY <1>1, <1>3, <1>4 DEF Init, TypeOK

\* What a call's record looks like when it arrives, and when it ages.
LEMMA CallTyped ==
  /\ \A c \in Calls, r \in Rules : [id |-> c, rule |-> r, age |-> 0] \in Call
  /\ \A x \in Call : [x EXCEPT !.age = Sooner(@ + 1, MaxAge + 1)] \in Call
BY AgesAssumption DEF Call, Sooner

\* Every step keeps the types.
LEMMA NextTyped == TypeOK /\ HandOrder /\ [Next]_vars => TypeOK'
<1> SUFFICES ASSUME TypeOK, HandOrder, [Next]_vars PROVE TypeOK'
  OBVIOUS
<1> USE AgesAssumption, BoundsAssumption, NoneAssumption
<1>0. Holding => intent \in Intent /\ intent.id = engine.order /\ engine.order \in Orders
  BY DEF HandOrder, Pending, TypeOK, Intent
<1>1. ASSUME NEW r \in Rules, Receive(r) PROVE TypeOK'
  <2>1. taken' \in 0..MaxCalls /\ queue' \subseteq Call
    <3>1. CASE taken < MaxCalls /\ queue' = queue \cup {[id |-> taken + 1, rule |-> r, age |-> 0]}
                /\ taken' = taken + 1
      <4>1. taken + 1 \in Calls
        BY <3>1 DEF TypeOK, Calls
      <4>2. [id |-> taken + 1, rule |-> r, age |-> 0] \in Call
        BY <4>1, CallTyped
      <4>3. taken' \in 0..MaxCalls
        BY <3>1 DEF TypeOK
      <4> QED BY <3>1, <4>2, <4>3 DEF TypeOK
    <3>2. CASE UNCHANGED <<queue, taken>>
      BY <3>2 DEF TypeOK
    <3> QED BY <1>1, <3>1, <3>2 DEF Receive
  <2>2. cool' \in [Rules -> 0..Cooldown]
    BY <1>1 DEF TypeOK, Receive
  <2>3. UNCHANGED <<bot, ended, order, tab, engine, crashes, venue>>
    BY <1>1 DEF Receive
  <2> QED BY <2>1, <2>2, <2>3 DEF TypeOK, bot, order, venue
<1>2. ASSUME NEW r \in Rules, EditRule(r) PROVE TypeOK'
  BY <1>2 DEF TypeOK, EditRule, calls, order, venue
<1>3. CASE Lifecycle
  BY <1>3 DEF TypeOK, Lifecycle, calls, order, venue
<1>4. CASE EditSettings \/ EditKey
  BY <1>4 DEF TypeOK, EditSettings, EditKey, calls, order, venue
<1>5. CASE ShowMarker \/ Resolve
  BY <1>5 DEF TypeOK, ShowMarker, Resolve, bot, calls, order, venue
<1>6. CASE Load
  <2>1. engine' \in Engine
    <3>1. PICK oldest \in queue :
            engine' = [Rest EXCEPT !.pc = "loaded", !.call = oldest.id, !.rule = oldest.rule,
                       !.working = Working, !.blocked = Blocked, !.pair = pair, !.cred = cred]
      BY <1>6 DEF Load
    <3>2. oldest.id \in Calls /\ oldest.rule \in Rules /\ pair \in Nat /\ cred \in Nat
      BY DEF TypeOK, Call
    <3>3. Working \in BOOLEAN /\ Blocked \in BOOLEAN
      BY DEF Working, Blocked
    <3> QED BY <3>1, <3>2, <3>3, EngineTyped
  <2> QED BY <1>6, <2>1 DEF TypeOK, Load, bot, calls, order, venue
<1>7. CASE Look \/ Abandon \/ Restart \/ Crash
  <2>1. engine' \in Engine
    BY <1>7, EngineTyped DEF TypeOK, Look, Abandon, Restart, Crash, Goes, Idle, Places
  <2> QED BY <1>7, <2>1 DEF TypeOK, Look, Abandon, Restart, Crash, bot, calls, order, venue
<1>8. CASE Refuse \/ Read \/ BeginRefuses
  <2>1. engine' \in Engine
    BY <1>8, EngineTyped DEF TypeOK, Refuse, Read, BeginRefuses, Idle
  <2>2. queue' \subseteq Call /\ ended' \in [Calls -> SUBSET {"line", "row", "intent"}]
    BY <1>8 DEF TypeOK, Refuse, Read, BeginRefuses, Consume, Without, calls
  <2> QED BY <1>8, <2>1, <2>2 DEF TypeOK, Refuse, Read, BeginRefuses, bot, order, venue
<1>9. CASE Begin
  <2>1. PICK o \in Orders : Draw(o)
    BY <1>9 DEF Begin
  <2>2. engine' \in Engine
    BY <2>1, EngineTyped DEF TypeOK, Draw
  <2>3. intent' \in Intent
    BY <2>1 DEF Draw, Intent
  <2>4. owner' \in [Orders -> Calls \cup {0}]
    BY <2>1 DEF TypeOK, Draw, Engine, Mine
  <2>5. queue' \subseteq Call /\ ended' \in [Calls -> SUBSET {"line", "row", "intent"}]
    BY <1>9 DEF TypeOK, Begin, Consume, Without, calls
  <2> QED BY <1>9, <2>2, <2>3, <2>4, <2>5 DEF TypeOK, Begin, bot, venue
<1>10. CASE Dispatch
  <2>1. engine' \in Engine
    BY <1>10, EngineTyped DEF TypeOK, Dispatch, Goes, Places
  <2>2. intent' \in Intent \cup {None}
    BY <1>0, <1>10 DEF Dispatch, Intent, At, Holding
  <2> QED BY <1>10, <2>1, <2>2 DEF TypeOK, Dispatch, bot, calls, venue
<1>11. CASE Fence \/ RetrySafe
  <2>1. engine' \in Engine
    BY <1>11, EngineTyped DEF TypeOK, Fence, RetrySafe, Idle
  <2> QED BY <1>11, <2>1 DEF TypeOK, Fence, RetrySafe, bot, calls, venue
<1>12. CASE NotSent \/ Answer
  <2>1. engine' \in Engine
    <3>1. CASE NotSent
      BY <3>1, EngineTyped DEF TypeOK, NotSent
    <3>2. CASE Answer
      <4>1. PICK reply \in {"accepted", "ambiguous", "rejected", "safe"} :
              engine' = [engine EXCEPT !.pc = "answered", !.reply = reply]
        BY <3>2 DEF Answer
      <4> QED BY <4>1, EngineTyped DEF TypeOK
    <3> QED BY <1>12, <3>1, <3>2
  <2> QED BY <1>12, <2>1 DEF TypeOK, NotSent, Answer, bot, calls, order, venue
<1>13. CASE RecordAccepted \/ RecordFailed \/ MarkUnresolved
  <2>1. engine' \in Engine
    BY <1>13, EngineTyped DEF TypeOK, RecordAccepted, RecordFailed, MarkUnresolved, Idle
  <2> QED BY <1>0, <1>13, <2>1 DEF TypeOK, RecordAccepted, RecordFailed, MarkUnresolved, At, Holding,
                                  bot, calls, venue
<1>14. CASE Ask \/ Lookup
  <2>1. engine' \in Engine
    <3>1. CASE Ask
      <4>1. intent.id \in Orders /\ cred \in Nat
        BY <3>1 DEF Ask, TypeOK, Intent
      <4> QED BY <3>1, <4>1, EngineTyped DEF Ask
    <3>2. CASE Lookup
      BY <3>2, EngineTyped DEF TypeOK, Lookup, Goes, Places
    <3> QED BY <1>14, <3>1, <3>2
  <2> QED BY <1>14, <2>1 DEF TypeOK, Ask, Lookup, bot, calls, order, venue
<1>15. CASE ConcludeFound \/ ConcludeAbsent
  <2>1. engine' \in Engine
    BY <1>15, EngineTyped DEF TypeOK, ConcludeFound, ConcludeAbsent, Idle
  <2> QED BY <1>15, <2>1 DEF TypeOK, ConcludeFound, ConcludeAbsent, Settled, bot, calls, venue
<1>16. CASE Transmit
  <2>1. engine' \in Engine
    BY <1>16, EngineTyped DEF TypeOK, Transmit, Goes, Places
  <2> QED BY <1>0, <1>16, <2>1 DEF TypeOK, Transmit, At, Holding, bot, calls, order
<1>17. CASE OperatorResolves
  BY <1>17 DEF TypeOK, OperatorResolves, Intent, bot, calls, order, venue
<1>18. CASE Venue
  BY <1>18 DEF TypeOK, Venue, bot, calls, order, venue
<1>19. CASE Tick
  BY <1>19, CallTyped DEF TypeOK, Tick, Sooner, bot, calls, order, venue
<1>20. CASE UNCHANGED vars
  BY <1>20 DEF TypeOK, vars, bot, calls, order, venue
<1> QED
  BY <1>1, <1>2, <1>3, <1>4, <1>5, <1>6, <1>7, <1>8, <1>9, <1>10, <1>11, <1>12, <1>13, <1>14,
     <1>15, <1>16, <1>17, <1>18, <1>19, <1>20 DEF Next, Web, Place, Recover

-----------------------------------------------------------------------------
(* The calls: one is added at the end, one is consumed.                      *)

LEMMA QueuedIs == \A c : c \in Queued <=> \E x \in queue : x.id = c
BY DEF Queued

LEMMA QueuedIsNext == \A c : c \in Queued' <=> \E x \in queue' : x.id = c
BY DEF Queued

LEMMA QueuedTyped == TypeOK => Queued \subseteq Calls
BY DEF TypeOK, Queued, Call

\* A queued call is consumed in one way.
LEMMA Consumed ==
  ASSUME TypeOK, \A c \in Calls : Accounted(c), Mine \in Queued,
         NEW how \in {"line", "row", "intent"}, Consume(Mine, how), UNCHANGED taken
  PROVE  /\ \A c \in Calls : Accounted(c)'
         /\ \A c \in Calls : ended[c] \subseteq ended'[c]
         /\ how \in ended'[Mine]
<1>1. Mine \in Calls /\ ended[Mine] = {} /\ Mine <= taken
  BY QueuedTyped DEF Accounted
<1>2. ended' = [ended EXCEPT ![Mine] = {how}]
  BY <1>1 DEF Consume
<1>3. Queued' = Queued \ {Mine}
  BY DEF Consume, Without, Queued
<1>4. /\ ended'[Mine] = {how}
      /\ \A c \in Calls : c # Mine => ended'[c] = ended[c] /\ (c \in Queued' <=> c \in Queued)
  BY <1>1, <1>2, <1>3 DEF TypeOK
<1>5. ASSUME NEW c \in Calls PROVE Accounted(c)'
  <2>1. CASE c = Mine
    BY <1>1, <1>3, <1>4, <2>1 DEF Accounted, TypeOK, Calls
  <2>2. CASE c # Mine
    BY <1>4, <2>2 DEF Accounted
  <2> QED BY <2>1, <2>2
<1>6. ASSUME NEW c \in Calls PROVE ended[c] \subseteq ended'[c]
  BY <1>1, <1>4
<1> QED
  BY <1>4, <1>5, <1>6

\* The step leaves the calls alone but for new ones, older ages and a new order.
LEMMA NextCalling ==
  TypeOK /\ Calling /\ HandCall /\ HandOrder /\ [Next]_vars => Calling'
<1> SUFFICES ASSUME TypeOK, Calling, HandCall, HandOrder, [Next]_vars PROVE Calling'
  OBVIOUS
<1>1. ASSUME \A c \in Calls : Accounted(c)', \A c \in Calls : ended[c] \subseteq ended'[c],
             UNCHANGED owner
      PROVE  Calling'
  BY <1>1 DEF Calling, Begun, TypeOK
<1>2. CASE UNCHANGED <<queue, taken, ended, owner>>
  BY <1>2 DEF Calling, Begun, Accounted, Queued
<1>3. ASSUME NEW r \in Rules, Receive(r) PROVE Calling'
  <2>1. CASE UNCHANGED <<queue, taken>>
    BY <1>2, <1>3, <2>1 DEF Receive, order
  <2>2. CASE /\ taken < MaxCalls /\ queue' = queue \cup {[id |-> taken + 1, rule |-> r, age |-> 0]}
             /\ taken' = taken + 1
    <3>1. Queued' = Queued \cup {taken + 1}
      <4>1. [id |-> taken + 1, rule |-> r, age |-> 0].id = taken + 1
        OBVIOUS
      <4>2. ASSUME NEW c PROVE c \in Queued' <=> c \in Queued \/ c = taken + 1
        BY <2>2, <4>1, QueuedIs, QueuedIsNext
      <4> QED BY <4>2
    <3>2. UNCHANGED <<ended, owner>>
      BY <1>3 DEF Receive, order
    <3>3. ASSUME NEW c \in Calls PROVE Accounted(c)'
      <4>1. Accounted(c) /\ ended'[c] = ended[c] /\ c \in Nat /\ taken \in Nat /\ taken' = taken + 1
        BY <2>2, <3>2 DEF Calling, TypeOK, Calls
      <4>2. CASE c = taken + 1
        BY <3>1, <4>1, <4>2 DEF Accounted
      <4>3. CASE c # taken + 1
        BY <3>1, <4>1, <4>3 DEF Accounted
      <4> QED BY <4>2, <4>3
    <3> QED BY <1>1, <3>2, <3>3
  <2> QED BY <1>3, <2>1, <2>2 DEF Receive
<1>4. CASE Tick
  <2>1. Queued' = Queued
    <3>1. \A x \in Call : [x EXCEPT !.age = Sooner(@ + 1, MaxAge + 1)].id = x.id
      BY DEF Call
    <3>2. queue \subseteq Call
      BY DEF TypeOK
    <3>3. queue' = {[x EXCEPT !.age = Sooner(@ + 1, MaxAge + 1)] : x \in queue}
      BY <1>4 DEF Tick
    <3>4. ASSUME NEW c, c \in Queued PROVE c \in Queued'
      <4>1. PICK x \in queue : x.id = c
        BY <3>4, QueuedIs
      <4> QED BY <3>1, <3>2, <3>3, <4>1, QueuedIsNext
    <3>5. ASSUME NEW c, c \in Queued' PROVE c \in Queued
      <4>1. PICK y \in queue' : y.id = c
        BY <3>5, QueuedIsNext
      <4>2. PICK x \in queue : y = [x EXCEPT !.age = Sooner(@ + 1, MaxAge + 1)]
        BY <3>3, <4>1
      <4> QED BY <3>1, <3>2, <4>1, <4>2, QueuedIs
    <3> QED BY <3>4, <3>5
  <2> QED BY <1>4, <2>1 DEF Tick, Calling, Begun, Accounted, order
<1>5. ASSUME Mine \in Queued, NEW how \in {"line", "row", "intent"}, Consume(Mine, how),
             UNCHANGED <<taken, owner>>
      PROVE  Calling'
  <2>1. /\ \A c \in Calls : Accounted(c)'
        /\ \A c \in Calls : ended[c] \subseteq ended'[c]
    BY <1>5, Consumed DEF Calling
  <2> QED BY <1>1, <1>5, <2>1
<1>6. CASE Refuse \/ Read \/ BeginRefuses
  <2>1. UNCHANGED <<taken, owner>> /\ Mine \in Queued
    BY <1>6 DEF Refuse, Read, BeginRefuses, order, HandCall, At
  <2>2. CASE UNCHANGED calls
    BY <1>2, <2>1, <2>2 DEF calls
  <2>3. CASE Consume(Mine, "line")
    BY <1>5, <2>1, <2>3
  <2>4. CASE Consume(Mine, "row")
    BY <1>5, <2>1, <2>4
  <2> QED BY <1>6, <2>2, <2>3, <2>4 DEF Refuse, Read, BeginRefuses
<1>7. CASE Begin
  <2>1. PICK o \in Orders : Draw(o)
    BY <1>7 DEF Begin
  <2>2. owner' = [owner EXCEPT ![o] = Mine] /\ UNCHANGED taken
    BY <1>7, <2>1 DEF Draw, Begin
  <2>3. /\ \A c \in Calls : Accounted(c)' /\ ended[c] \subseteq ended'[c]
        /\ "intent" \in ended'[Mine]
    <3>1. CASE engine.first
      BY <1>7, <2>2, <3>1, Consumed DEF Begin, Calling
    <3>2. CASE ~engine.first
      BY <1>7, <2>2, <3>2 DEF Begin, calls, HandCall, Calling, Accounted, Queued
    <3> QED BY <3>1, <3>2
  <2>4. ASSUME NEW p \in Orders PROVE Begun(p)'
    <3>1. CASE p = o
      BY <2>2, <2>3, <3>1 DEF Begun, TypeOK
    <3>2. CASE p # o
      BY <2>2, <2>3, <3>2 DEF Begun, TypeOK, Calling
    <3> QED BY <3>1, <3>2
  <2> QED BY <2>3, <2>4 DEF Calling
<1>8. CASE \/ \E r \in Rules : EditRule(r)
           \/ Lifecycle \/ EditSettings \/ EditKey \/ ShowMarker \/ Resolve \/ UNCHANGED vars
  BY <1>2, <1>8 DEF EditRule, Lifecycle, EditSettings, EditKey, ShowMarker, Resolve, vars, calls, order
<1>9. CASE Load \/ Look \/ Abandon \/ OperatorResolves \/ Restart \/ Crash \/ Venue
  BY <1>2, <1>9 DEF Load, Look, Abandon, OperatorResolves, Restart, Crash, Venue, calls, order
<1>10. CASE Dispatch \/ Fence \/ NotSent \/ Transmit \/ Answer \/ RecordAccepted \/ RetrySafe
            \/ RecordFailed \/ MarkUnresolved \/ Recover
  BY <1>2, <1>10 DEF Dispatch, Fence, NotSent, Transmit, Answer, RecordAccepted, RetrySafe,
     RecordFailed, MarkUnresolved, Recover, Ask, Lookup, ConcludeFound, ConcludeAbsent, calls, order
<1> QED
  BY <1>3, <1>4, <1>6, <1>7, <1>8, <1>9, <1>10 DEF Next, Web, Place
-----------------------------------------------------------------------------
(* The orders: begun, dispatched, sent, answered by the venue, resolved.     *)

Resolves == Fence \/ RecordAccepted \/ RetrySafe \/ RecordFailed \/ ConcludeFound
            \/ ConcludeAbsent \/ OperatorResolves

\* Whoever removes the intent knows what became of its order: the venue has it and a row
\* is written, or the venue never will.
LEMMA Resolution ==
  ASSUME IInv, Resolves
  PROVE  /\ intent # None /\ intent.id \in Orders /\ intent' = None
         /\ intent.id \notin wire /\ UNCHANGED <<owner, wire, verdict, sent>>
         /\ \/ Booked(intent.id) /\ rows' = [rows EXCEPT ![intent.id] = @ + 1]
            \/ ~Booked(intent.id) /\ rows' = rows
<1> USE NoneAssumption
<1>1. ~OperatorResolves => Holding /\ intent.id = engine.order /\ intent # None
  BY DEF Resolves, Fence, RecordAccepted, RetrySafe, RecordFailed, ConcludeFound, ConcludeAbsent,
         At, Holding, IInv, Hand, HandOrder, Pending
<1>2. intent # None /\ intent.id \in Orders
  BY <1>1 DEF OperatorResolves, IInv, TypeOK, Intent
<1>3. intent' = None /\ UNCHANGED <<owner, wire, verdict, sent>>
  BY DEF Resolves, Fence, RecordAccepted, RetrySafe, RecordFailed, ConcludeFound, ConcludeAbsent,
         Settled, OperatorResolves, venue
<1>4. Orderly(intent.id) /\ Pending(intent.id)
  BY <1>2 DEF IInv, Ordering, Pending
<1>5. CASE OperatorResolves
  BY <1>2, <1>3, <1>4, <1>5 DEF OperatorResolves, Orderly, Booked
<1>6. CASE RecordAccepted \/ ConcludeFound
  <2>1. Booked(intent.id) /\ rows' = [rows EXCEPT ![intent.id] = @ + 1]
    BY <1>1, <1>6 DEF RecordAccepted, ConcludeFound, OperatorResolves, At, IInv, Hand, HandTruth
  <2> QED BY <1>2, <1>3, <1>4, <2>1 DEF Orderly, Booked
<1>7. CASE Fence
  <2>1. rows' = rows /\ intent.id \notin sent
    BY <1>1, <1>4, <1>7 DEF Fence, OperatorResolves, At, IInv, Hand, HandTruth, Orderly
  <2> QED BY <1>2, <1>3, <1>4, <2>1 DEF Orderly, Booked
<1>8. CASE RetrySafe \/ RecordFailed
  <2>1. rows' = rows /\ (verdict[intent.id] = "refused" \/ intent.id \notin sent)
    BY <1>1, <1>4, <1>8 DEF RetrySafe, RecordFailed, OperatorResolves, At, IInv, Hand, HandTruth
  <2> QED BY <1>2, <1>3, <1>4, <2>1 DEF Orderly, Booked
<1>9. CASE ConcludeAbsent
  BY <1>1, <1>2, <1>3, <1>9 DEF ConcludeAbsent, OperatorResolves, At, IInv, Hand, HandTruth
<1> QED BY <1>5, <1>6, <1>7, <1>8, <1>9 DEF Resolves

\* The steps that leave the orders and the venue alone.
Aside == \/ (\E r \in Rules : Receive(r) \/ EditRule(r))
         \/ Lifecycle \/ EditSettings \/ EditKey \/ ShowMarker \/ Resolve
         \/ Load \/ Look \/ Refuse \/ Read \/ BeginRefuses \/ NotSent \/ Answer \/ MarkUnresolved
         \/ Ask \/ Lookup \/ Abandon \/ Restart \/ Crash \/ Tick \/ UNCHANGED vars

LEMMA AsideStands == Aside => UNCHANGED <<intent, owner, rows, wire, verdict, sent>>
<1>1. ASSUME (\E r \in Rules : Receive(r) \/ EditRule(r)) \/ Lifecycle \/ EditSettings \/ EditKey
             \/ ShowMarker \/ Resolve \/ Tick \/ UNCHANGED vars
      PROVE  UNCHANGED <<intent, owner, rows, wire, verdict, sent>>
  BY <1>1 DEF Receive, EditRule, Lifecycle, EditSettings, EditKey, ShowMarker, Resolve, Tick, vars,
              order, venue
<1>2. ASSUME Load \/ Look \/ Refuse \/ Read \/ BeginRefuses \/ NotSent \/ Answer \/ MarkUnresolved
             \/ Ask \/ Lookup \/ Abandon \/ Restart \/ Crash
      PROVE  UNCHANGED <<intent, owner, rows, wire, verdict, sent>>
  BY <1>2 DEF Load, Look, Refuse, Read, BeginRefuses, NotSent, Answer, MarkUnresolved, Ask, Lookup,
              Abandon, Restart, Crash, order, venue
<1> QED BY <1>1, <1>2 DEF Aside

LEMMA Steps ==
  [Next]_vars => Aside \/ Begin \/ Dispatch \/ Transmit \/ Venue \/ Resolves
BY DEF Next, Web, Place, Recover, Aside, Resolves

\* The request in hand leaves once: its order is the pending one, and was not sent before.
LEMMA Leaves ==
  ASSUME IInv, Transmit
  PROVE  /\ engine.order \in Orders /\ engine.order \notin sent /\ Pending(engine.order)
         /\ intent.dispatched /\ wire' = wire \cup {engine.order}
         /\ sent' = sent \cup {engine.order} /\ UNCHANGED <<intent, owner, rows, verdict>>
BY NoneAssumption
   DEF Transmit, At, IInv, Hand, HandOrder, HandTruth, Holding, Pending, TypeOK, Intent, order

\* A new intent names an order never begun, and none was pending.
LEMMA Begins ==
  ASSUME IInv, Begin
  PROVE  \E o \in Orders :
           /\ intent = None /\ owner[o] = 0 /\ At("sized") /\ Mine \in Calls
           /\ intent' = [id |-> o, dispatched |-> FALSE] /\ intent' # None /\ marker = None
           /\ owner' = [owner EXCEPT ![o] = Mine]
           /\ engine' = [engine EXCEPT !.pc = "begun", !.order = o]
           /\ UNCHANGED <<rows, wire, verdict, sent, marker>>
<1>1. PICK o \in Orders : Draw(o)
  BY DEF Begin
<1>2. Mine \in Calls
  BY DEF Begin, At, IInv, Hand, HandCall, TypeOK, Engine, Mine
<1>3. [id |-> o, dispatched |-> FALSE] \in Intent
  BY DEF Intent
<1>4. intent' # None
  BY <1>1, <1>3, NoneAssumption DEF Draw
<1> QED
  BY <1>1, <1>2, <1>4 DEF Draw, Fresh, Begin, Blocked, venue

\* What never reached the book stays away from it.
LEMMA GoneStays ==
  ASSUME IInv, [Next]_vars, NEW o \in Orders, Gone(o) PROVE Gone(o)'
<1>1. CASE Aside
  BY <1>1, AsideStands DEF Gone
<1>2. CASE Begin
  BY <1>2, Begins DEF Gone
<1>3. CASE Dispatch
  BY <1>3 DEF Dispatch, Gone, venue
<1>4. CASE Transmit
  BY <1>4, Leaves DEF Gone
<1>5. CASE Venue
  BY <1>5 DEF Venue, Gone, IInv, TypeOK
<1>6. CASE Resolves
  BY <1>6, Resolution DEF Gone
<1> QED BY <1>1, <1>2, <1>3, <1>4, <1>5, <1>6, Steps

LEMMA NextOrdering == ASSUME IInv, [Next]_vars PROVE Ordering'
<1> USE NoneAssumption
<1>1. ASSUME UNCHANGED owner PROVE \A o, p \in Orders : Rivals(o, p)'
  BY <1>1, GoneStays DEF Rivals, IInv, Ordering
<1>2. CASE Aside
  BY <1>2, AsideStands DEF IInv, Ordering, Orderly, Rivals, Gone, Pending, Booked
<1>3. CASE Begin
  <2>1. PICK o \in Orders :
           /\ intent = None /\ owner[o] = 0 /\ At("sized") /\ Mine \in Calls
           /\ intent' = [id |-> o, dispatched |-> FALSE] /\ intent' # None /\ marker = None
           /\ owner' = [owner EXCEPT ![o] = Mine]
           /\ engine' = [engine EXCEPT !.pc = "begun", !.order = o]
           /\ UNCHANGED <<rows, wire, verdict, sent, marker>>
    BY <1>3, Begins
  <2>2. \A p \in Orders : owner'[p] = IF p = o THEN Mine ELSE owner[p]
    BY <2>1 DEF IInv, TypeOK
  <2>3. ASSUME NEW p \in Orders PROVE Orderly(p)'
    BY <2>1, <2>2 DEF IInv, Ordering, Orderly, Pending, Booked, Calls
  <2>4. \A p \in Orders : owner[p] = Mine => Gone(p)
    BY <2>1 DEF IInv, Hand, HandCall
  <2>5. \A p \in Orders : Gone(p)' <=> Gone(p)
    BY <2>1 DEF Gone
  <2>6. ASSUME NEW p \in Orders, NEW q \in Orders PROVE Rivals(p, q)'
    BY <2>2, <2>4, <2>5 DEF IInv, Ordering, Rivals
  <2> QED BY <2>3, <2>6 DEF Ordering
<1>4. CASE Dispatch
  <2>1. intent \in Intent /\ intent' = [intent EXCEPT !.dispatched = TRUE] /\ intent # None
    BY <1>4 DEF Dispatch, At, IInv, Hand, HandOrder, Holding, Pending, TypeOK
  <2>2. intent' \in Intent /\ intent'.id = intent.id /\ intent'.dispatched
    BY <2>1 DEF Intent
  <2>3. UNCHANGED <<owner, rows, wire, verdict, sent>>
    BY <1>4 DEF Dispatch, venue
  <2> QED BY <1>1, <2>1, <2>2, <2>3 DEF IInv, Ordering, Orderly, Pending, Booked
<1>5. CASE Transmit
  <2>1. ASSUME NEW p \in Orders PROVE Orderly(p)'
    BY <1>5, Leaves DEF IInv, Ordering, Orderly, Pending, Booked
  <2> QED BY <1>1, <1>5, <2>1, Leaves DEF Ordering
<1>6. CASE Venue
  <2>1. PICK o \in wire, v \in {"booked", "refused", "none"} :
           wire' = wire \ {o} /\ verdict' = [verdict EXCEPT ![o] = v]
    BY <1>6 DEF Venue
  <2>2. UNCHANGED <<intent, owner, rows, sent>> /\ o \in Orders
    BY <1>6, <2>1 DEF Venue, order, IInv, TypeOK
  <2>3. \A p \in Orders : verdict'[p] = IF p = o THEN v ELSE verdict[p]
    BY <2>1 DEF IInv, TypeOK
  <2>4. ASSUME NEW p \in Orders PROVE Orderly(p)'
    BY <2>1, <2>2, <2>3 DEF IInv, Ordering, Orderly, Pending, Booked
  <2> QED BY <1>1, <2>2, <2>4 DEF Ordering
<1>7. CASE Resolves
  <2>1. \A p \in Orders : ~Pending(p)' /\ p \notin wire
    BY <1>7, Resolution DEF Pending, IInv, Ordering, Orderly
  <2>2. \A p \in Orders : rows'[p] > 0 => Booked(p)
    BY <1>7, Resolution DEF IInv, TypeOK, Ordering, Orderly
  <2>3. ASSUME NEW p \in Orders PROVE Orderly(p)'
    BY <1>7, <2>1, <2>2, Resolution DEF IInv, Ordering, Orderly, Booked
  <2> QED BY <1>1, <1>7, <2>3, Resolution DEF Ordering
<1> QED BY <1>2, <1>3, <1>4, <1>5, <1>6, <1>7, Steps
-----------------------------------------------------------------------------
(* What the engine holds.                                                    *)

\* Between two calls the engine holds nothing.
LEMMA RestHolds ==
  engine' \in {Rest, [Rest EXCEPT !.pc = "down"]} => Hand'
BY DEF Rest, Hand, HandCall, HandOrder, HandTruth, Holding, Placing, At

\* The queue never loses a call to another than the engine.
Outside == \/ (\E r \in Rules : Receive(r) \/ EditRule(r))
           \/ Lifecycle \/ EditSettings \/ EditKey \/ ShowMarker \/ Resolve \/ Tick \/ Venue
           \/ UNCHANGED vars

LEMMA QueueStays == ASSUME TypeOK, Outside, NEW c \in Queued PROVE c \in Queued'
<1>1. ASSUME NEW r \in Rules, Receive(r) PROVE queue \subseteq queue'
  BY <1>1 DEF Receive
<1>2. CASE Tick
  <2>1. PICK x \in queue : x.id = c
    BY QueuedIs
  <2>2. [x EXCEPT !.age = Sooner(@ + 1, MaxAge + 1)].id = c
    BY <2>1 DEF TypeOK, Call
  <2> QED BY <1>2, <2>2, QueuedIsNext DEF Tick
<1>3. CASE ~Tick /\ \A r \in Rules : ~Receive(r)
  BY <1>3 DEF Outside, EditRule, Lifecycle, EditSettings, EditKey, ShowMarker, Resolve, Venue, vars,
              calls, Queued
<1> QED BY <1>1, <1>2, <1>3, QueuedIs, QueuedIsNext

\* What the others do leaves the engine's knowledge as it is.
LEMMA OutsideHolds == ASSUME IInv, [Next]_vars, Outside PROVE Hand'
<1> USE NoneAssumption
<1>1. UNCHANGED <<engine, intent, owner, sent, ended>> /\ (marker = None => marker' = None)
  BY DEF Outside, Receive, EditRule, Lifecycle, EditSettings, EditKey, ShowMarker, Resolve, Tick,
         Venue, vars, calls, order, venue
<1>2. \A o \in Orders : Gone(o) => Gone(o)'
  BY GoneStays
<1>3. wire' \subseteq wire /\ \A o \in Orders : verdict[o] # "none" \/ o \notin wire => verdict'[o] = verdict[o]
  BY DEF Outside, Receive, EditRule, Lifecycle, EditSettings, EditKey, ShowMarker, Resolve, Tick,
         Venue, vars, venue, IInv, TypeOK, Ordering, Orderly
<1>4. HandCall'
  BY <1>1, <1>2, QueueStays DEF IInv, Hand, HandCall, At, Mine
<1>5. HandOrder'
  BY <1>1, <1>2 DEF IInv, Hand, HandOrder, Holding, Placing, Pending, Mine
<1>6. HandTruth'
  <2>1. Holding => engine.order \in Orders
    BY DEF IInv, Hand, HandOrder, Pending, TypeOK, Intent
  <2> QED BY <1>1, <1>3, <2>1 DEF IInv, Hand, HandTruth, At, Booked, Holding
<1> QED BY <1>4, <1>5, <1>6 DEF Hand

\* Each step of the engine establishes what the next one relies on.
LEMMA NextHand == ASSUME IInv, [Next]_vars PROVE Hand'
<1> USE NoneAssumption
<1>1. CASE Outside
  BY <1>1, OutsideHolds
<1>2. CASE Refuse \/ BeginRefuses \/ Fence \/ RecordAccepted \/ RecordFailed \/ MarkUnresolved
           \/ ConcludeFound \/ ConcludeAbsent \/ Abandon \/ Restart \/ Crash
  BY <1>2, RestHolds DEF Refuse, BeginRefuses, Fence, RecordAccepted, RecordFailed, MarkUnresolved,
     ConcludeFound, ConcludeAbsent, Abandon, Restart, Crash, Idle
<1>3. CASE OperatorResolves
  BY <1>3 DEF OperatorResolves, Hand, HandCall, HandOrder, HandTruth, Holding, Placing, At
<1>4. CASE Load
  <2>1. PICK oldest \in queue : engine'.pc = "loaded" /\ engine'.call = oldest.id
    BY <1>4 DEF Load, Rest
  <2>2. Queued' = Queued /\ oldest.id \in Queued
    BY <1>4, QueuedIs DEF Load, calls, Queued
  <2> QED BY <2>1, <2>2 DEF Hand, HandCall, HandOrder, HandTruth, Holding, Placing, At, Mine
<1>5. CASE Look
  <2>1. CASE Idle
    BY <2>1, RestHolds DEF Idle
  <2>2. CASE Goes("refusing") \/ Goes("reading")
    <3>1. engine'.pc \in {"refusing", "reading"} /\ engine'.call = engine.call
      BY <2>2 DEF Goes, IInv, TypeOK, Engine
    <3>2. Queued' = Queued /\ Mine \in Queued
      BY <1>5 DEF Look, calls, Queued, At, IInv, Hand, HandCall
    <3> QED BY <3>1, <3>2 DEF Hand, HandCall, HandOrder, HandTruth, Holding, Placing, At, Mine
  <2> QED BY <1>5, <2>1, <2>2 DEF Look
<1>6. CASE Read
  <2>1. CASE Idle
    BY <2>1, RestHolds DEF Idle
  <2>2. CASE engine' = [engine EXCEPT !.pc = "sized", !.first = TRUE] /\ UNCHANGED calls
    <3>1. engine'.pc = "sized" /\ engine'.first /\ engine'.call = engine.call
      BY <2>2 DEF IInv, TypeOK, Engine
    <3>2. Queued' = Queued /\ Mine \in Queued /\ Mine \in Calls
      BY <1>6, <2>2, QueuedTyped DEF Read, calls, Queued, At, IInv, Hand, HandCall
    <3>3. UNCHANGED owner
      BY <1>6 DEF Read, order
    <3>4. \A o \in Orders : owner[o] # Mine
      BY <3>2 DEF IInv, Calling, Accounted, Begun, Calls
    <3> QED BY <3>1, <3>2, <3>3, <3>4
            DEF Hand, HandCall, HandOrder, HandTruth, Holding, Placing, At, Mine, Calls
  <2> QED BY <1>6, <2>1, <2>2 DEF Read
<1>7. CASE Begin
  <2>1. PICK o \in Orders :
           /\ intent = None /\ owner[o] = 0 /\ At("sized") /\ Mine \in Calls
           /\ intent' = [id |-> o, dispatched |-> FALSE] /\ intent' # None /\ marker = None
           /\ owner' = [owner EXCEPT ![o] = Mine]
           /\ engine' = [engine EXCEPT !.pc = "begun", !.order = o]
           /\ UNCHANGED <<rows, wire, verdict, sent, marker>>
    BY <1>7, Begins
  <2>2. engine'.pc = "begun" /\ engine'.order = o /\ engine'.call = engine.call
    BY <2>1 DEF IInv, TypeOK, Engine
  <2>3. \A p \in Orders : owner'[p] = IF p = o THEN Mine ELSE owner[p]
    BY <2>1 DEF IInv, TypeOK
  <2>4. \A p \in Orders : owner[p] = Mine => Gone(p)'
    BY <2>1, GoneStays DEF IInv, Hand, HandCall
  <2> QED BY <2>1, <2>2, <2>3, <2>4
          DEF Hand, HandCall, HandOrder, HandTruth, Holding, Placing, Pending, At, Mine, Calls
<1>8. \A o \in Orders : Gone(o) => Gone(o)'
  BY GoneStays
<1>9. Placing => intent \in Intent /\ engine.order \in Orders /\ intent.id = engine.order
  BY DEF Placing, Holding, Pending, IInv, Hand, HandOrder, TypeOK, Intent
\* A step on from one place of the placing to another, with the same order in hand.
<1>10. ASSUME Placing, engine'.pc \in {"sending", "awaiting", "answered"},
              engine'.call = engine.call, engine'.order = engine.order,
              UNCHANGED <<owner, marker>>, Pending(engine.order)', HandTruth'
       PROVE  Hand'
  BY <1>8, <1>10 DEF IInv, Hand, HandCall, HandOrder, Holding, Placing, At, Mine
<1>11. CASE Dispatch
  <2>1. engine'.pc = "sending" /\ engine'.call = engine.call /\ engine'.order = engine.order
    BY <1>11 DEF Dispatch, Goes, IInv, TypeOK, Engine
  <2>2. Placing /\ engine.order \notin sent
    BY <1>9, <1>11 DEF Dispatch, At, Placing, Holding, IInv, Hand, HandOrder, HandTruth, Ordering,
                       Orderly
  <2>3. intent' \in Intent /\ intent'.id = engine.order /\ intent'.dispatched
    BY <1>9, <1>11, <2>2 DEF Dispatch, Intent
  <2>4. UNCHANGED <<owner, marker, sent>>
    BY <1>11 DEF Dispatch, venue
  <2> QED BY <1>10, <2>1, <2>2, <2>3, <2>4 DEF Pending, HandTruth, At
<1>12. CASE NotSent \/ Transmit \/ Answer
  <2>1. engine'.pc \in {"awaiting", "answered"} /\ engine'.call = engine.call
        /\ engine'.order = engine.order /\ Placing
    <3>1. CASE NotSent
      BY <3>1 DEF NotSent, At, Placing, IInv, TypeOK, Engine
    <3>2. CASE Transmit
      BY <3>2 DEF Transmit, Goes, At, Placing, IInv, TypeOK, Engine
    <3>3. CASE Answer
      <4>1. PICK reply \in {"accepted", "ambiguous", "rejected", "safe"} :
              engine' = [engine EXCEPT !.pc = "answered", !.reply = reply]
        BY <3>3 DEF Answer
      <4> QED BY <3>3, <4>1 DEF Answer, At, Placing, IInv, TypeOK, Engine
    <3> QED BY <1>12, <3>1, <3>2, <3>3
  <2>2. UNCHANGED <<owner, marker, intent>>
    BY <1>12 DEF NotSent, Transmit, Answer, order
  <2>3. HandTruth'
    <3>1. CASE NotSent
      <4>1. engine'.pc = "answered" /\ engine'.reply = "not_sent" /\ UNCHANGED sent
        BY <3>1 DEF NotSent, IInv, TypeOK, Engine, venue
      <4>2. engine.order \notin sent
        BY <1>9, <2>1, <3>1 DEF NotSent, At, Pending, IInv, Hand, HandOrder, HandTruth, Holding, Ordering, Orderly
      <4> QED BY <2>1, <4>1, <4>2 DEF HandTruth, At
    <3>2. CASE Transmit
      BY <3>2 DEF Transmit, Goes, HandTruth, At, IInv, TypeOK, Engine
    <3>3. CASE Answer
      <4>1. PICK reply \in {"accepted", "ambiguous", "rejected", "safe"} :
              /\ reply = "accepted" => Booked(engine.order)
              /\ reply \in {"rejected", "safe"} => verdict[engine.order] = "refused"
              /\ engine' = [engine EXCEPT !.pc = "answered", !.reply = reply]
        BY <3>3 DEF Answer
      <4>2. engine'.pc = "answered" /\ engine'.reply = reply /\ UNCHANGED <<sent, verdict>>
        BY <3>3, <4>1 DEF Answer, IInv, TypeOK, Engine, venue
      <4> QED BY <2>1, <4>1, <4>2 DEF HandTruth, At, Booked
    <3> QED BY <1>12, <3>1, <3>2, <3>3
  <2>4. Pending(engine.order)'
    BY <2>1, <2>2 DEF Pending, Placing, Holding, IInv, Hand, HandOrder
  <2> QED BY <1>10, <2>1, <2>2, <2>3, <2>4
<1>13. CASE RetrySafe
  <2>1. /\ engine'.pc = "sized" /\ engine'.call = engine.call /\ ~engine'.first /\ Placing
        /\ UNCHANGED <<owner, ended>>
    BY <1>13 DEF RetrySafe, At, Placing, IInv, TypeOK, Engine, calls
  <2>2. Gone(engine.order)
    BY <1>9, <1>13, <2>1 DEF RetrySafe, At, Gone, IInv, Hand, HandTruth, Ordering, Orderly
  <2>3. Mine # 0 /\ owner[engine.order] = Mine
        /\ \A o \in Orders : owner[o] = Mine => Gone(o)
    BY <2>1, <2>2 DEF IInv, Hand, HandOrder
  <2>4. "intent" \in ended[Mine]
    BY <1>9, <2>1, <2>3 DEF IInv, Calling, Begun
  <2> QED BY <1>8, <2>1, <2>3, <2>4
          DEF Hand, HandCall, HandOrder, HandTruth, Holding, Placing, At, Mine
<1>14. CASE Ask
  <2>1. engine'.pc = "asking" /\ engine'.order = intent.id /\ UNCHANGED intent /\ intent # None
    BY <1>14 DEF Ask, Rest, order
  <2> QED BY <2>1 DEF Hand, HandCall, HandOrder, HandTruth, Holding, Placing, Pending, At
<1>15. CASE Lookup
  <2>1. /\ engine'.pc \in {"found", "absent"} /\ engine'.order = engine.order
        /\ UNCHANGED <<intent, verdict, wire>>
        /\ engine'.pc = "found" => Booked(engine.order)
        /\ engine'.pc = "absent" => ~Booked(engine.order) /\ engine.order \notin wire
    BY <1>15 DEF Lookup, Goes, IInv, TypeOK, Engine, order, venue
  <2>2. Pending(engine.order)
    BY <1>15 DEF Lookup, At, Holding, IInv, Hand, HandOrder
  <2> QED BY <2>1, <2>2
          DEF Hand, HandCall, HandOrder, HandTruth, Holding, Placing, Pending, At, Booked
<1> QED BY <1>1, <1>2, <1>3, <1>4, <1>5, <1>6, <1>7, <1>11, <1>12, <1>13, <1>14, <1>15
        DEF Next, Web, Place, Recover, Outside

-----------------------------------------------------------------------------
(* The marker, and the invariant as a whole.                                *)

\* The order a raised marker names is the pending one, or the operator decided it.
LEMMA NextMarker == ASSUME IInv, [Next]_vars PROVE NoStrayMarker'
<1> USE NoneAssumption
<1>1. CASE /\ UNCHANGED marker /\ operated \subseteq operated'
           /\ intent # None => intent' # None /\ intent'.id = intent.id
  BY <1>1 DEF IInv, NoStrayMarker
<1>2. CASE marker' = None
  BY <1>2 DEF NoStrayMarker
<1>3. CASE (\E r \in Rules : Receive(r) \/ EditRule(r)) \/ Lifecycle \/ EditSettings \/ EditKey
           \/ ShowMarker \/ Tick \/ Venue \/ UNCHANGED vars
  BY <1>1, <1>3 DEF Receive, EditRule, Lifecycle, EditSettings, EditKey, ShowMarker, Tick, Venue,
                    vars, order
<1>4. CASE Load \/ Look \/ Refuse \/ Read \/ BeginRefuses \/ NotSent \/ Transmit \/ Answer
           \/ Ask \/ Lookup \/ Abandon \/ Restart \/ Crash
  BY <1>1, <1>4 DEF Load, Look, Refuse, Read, BeginRefuses, NotSent, Transmit, Answer, Ask, Lookup,
                    Abandon, Restart, Crash, order
<1>5. CASE Begin
  BY <1>2, <1>5, Begins
<1>6. CASE Dispatch \/ Fence \/ RecordAccepted \/ RetrySafe \/ RecordFailed
  <2>1. Placing /\ UNCHANGED marker
    BY <1>6 DEF Dispatch, Fence, RecordAccepted, RetrySafe, RecordFailed, At, Placing
  <2> QED BY <1>2, <2>1 DEF IInv, Hand, HandOrder
<1>7. CASE MarkUnresolved
  <2>1. Pending(engine.order) /\ marker' = engine.order /\ UNCHANGED intent
    BY <1>7 DEF MarkUnresolved, At, Holding, IInv, Hand, HandOrder
  <2> QED BY <2>1 DEF NoStrayMarker, Pending
<1>8. CASE ConcludeFound \/ ConcludeAbsent
  <2>1. Pending(engine.order) /\ Settled(engine.order) /\ UNCHANGED operated
    BY <1>8 DEF ConcludeFound, ConcludeAbsent, At, Holding, IInv, Hand, HandOrder
  <2> QED BY <2>1 DEF Settled, Pending, IInv, NoStrayMarker
<1>9. CASE OperatorResolves
  BY <1>9 DEF OperatorResolves, IInv, NoStrayMarker
<1>10. CASE Resolve
  BY <1>2, <1>10 DEF Resolve
<1> QED BY <1>3, <1>4, <1>5, <1>6, <1>7, <1>8, <1>9, <1>10 DEF Next, Web, Place, Recover

LEMMA InitInv == Init => IInv
<1> SUFFICES ASSUME Init PROVE IInv
  OBVIOUS
<1> USE BoundsAssumption, NoneAssumption
<1>1. TypeOK
  BY InitTyped
<1>2. Calling
  BY DEF Init, Calling, Accounted, Begun, Queued, Calls
<1>3. Ordering
  BY DEF Init, Ordering, Orderly, Rivals, Pending
<1>4. Hand
  BY RestHolds DEF Init, Hand, HandCall, HandOrder, HandTruth, Holding, Placing, At, Rest
<1>5. NoStrayMarker
  BY DEF Init, NoStrayMarker
<1> QED BY <1>1, <1>2, <1>3, <1>4, <1>5 DEF IInv

LEMMA NextInv == IInv /\ [Next]_vars => IInv'
<1> SUFFICES ASSUME IInv, [Next]_vars PROVE IInv'
  OBVIOUS
<1>1. TypeOK' /\ Calling'
  BY NextTyped, NextCalling DEF IInv, Hand
<1> QED BY <1>1, NextOrdering, NextHand, NextMarker DEF IInv

LEMMA Invariance == Spec => []IInv
BY InitInv, NextInv, PTL DEF Spec

\* Every variable keeps its type.
THEOREM SignalsTyped == Spec => []TypeOK
<1>1. IInv => TypeOK
  BY DEF IInv
<1> QED BY <1>1, Invariance, PTL

\* A call buys or sells at most once, over every kill, lost answer and repeated attempt.
THEOREM CallBuysOnce == Spec => []OneOrderPerCall
<1>1. IInv => OneOrderPerCall
  <2> SUFFICES ASSUME IInv, NEW o \in Orders, NEW p \in Orders,
                      Placed(o), Placed(p), owner[o] = owner[p], o # p
               PROVE  FALSE
    BY DEF OneOrderPerCall
  <2>1. o \in sent /\ p \in sent
    BY DEF IInv, Ordering, Orderly, Placed, Booked
  <2>2. owner[o] # 0
    BY <2>1 DEF IInv, Ordering, Orderly
  <2>3. Gone(o) \/ Gone(p)
    BY <2>2 DEF IInv, Ordering, Rivals
  <2> QED BY <2>3 DEF Gone, Placed, Booked
<1> QED BY <1>1, Invariance, PTL

\* A call the hook kept waits or was consumed in exactly one way: none is lost, none ends twice.
THEOREM CallsAccounted == Spec => []AccountedOnce
<1>1. IInv => AccountedOnce
  <2> SUFFICES ASSUME IInv, NEW c \in 1..taken
               PROVE  IF c \in Queued THEN ended[c] = {} ELSE Cardinality(ended[c]) = 1
    BY DEF AccountedOnce
  <2>1. c \in Calls /\ c <= taken
    BY BoundsAssumption DEF IInv, TypeOK, Calls
  <2>2. CASE c \in Queued
    BY <2>1, <2>2 DEF IInv, Calling, Accounted
  <2>3. CASE c \notin Queued
    <3>1. PICK how \in {"line", "row", "intent"} : ended[c] = {how}
      BY <2>1, <2>3 DEF IInv, Calling, Accounted
    <3> QED BY <2>3, <3>1, FS_Singleton
  <2> QED BY <2>2, <2>3
<1> QED BY <1>1, Invariance, PTL

\* A marker that holds the bot's calls names an order still open, or one the operator decided.
THEOREM MarkerHasCause == Spec => []NoStrayMarker
<1>1. IInv => NoStrayMarker
  BY DEF IInv
<1> QED BY <1>1, Invariance, PTL

\* The barrier falls with the order it names, or by an owner who was shown that very marker.
THEOREM BarrierFalls == Spec => MarkerLiftedKnowingly
<1> DEFINE Knowingly == marker # None /\ marker' = None =>
                          \/ intent # None /\ intent.id = marker /\ intent' = None
                          \/ tab = marker /\ intent = None
<1>1. ASSUME IInv, [Next]_vars, marker # None, marker' = None
      PROVE  \/ intent # None /\ intent.id = marker /\ intent' = None
             \/ tab = marker /\ intent = None
  <2>1. MarkUnresolved => marker' # None
    <3>1. At("answered") => intent # None /\ intent.id = engine.order
      BY <1>1 DEF At, Holding, IInv, Hand, HandOrder, Pending
    <3>2. intent # None => intent.id \in Orders /\ intent.id \in Nat
      BY <1>1, BoundsAssumption DEF IInv, TypeOK, Intent, Orders
    <3> QED BY <3>1, <3>2, NoneAssumption DEF MarkUnresolved
  <2>2. Resolve \/ ConcludeFound \/ ConcludeAbsent
    <3>1. ASSUME (\E r \in Rules : Receive(r) \/ EditRule(r)) \/ Lifecycle \/ EditSettings
                 \/ EditKey \/ ShowMarker \/ Tick \/ Venue \/ UNCHANGED vars \/ OperatorResolves
          PROVE  UNCHANGED marker
      BY <3>1 DEF Receive, EditRule, Lifecycle, EditSettings, EditKey, ShowMarker, Tick, Venue,
                  vars, order, OperatorResolves
    <3>2. ASSUME Load \/ Look \/ Refuse \/ Read \/ BeginRefuses \/ NotSent \/ Transmit \/ Answer
                 \/ Ask \/ Lookup \/ Abandon \/ Restart \/ Crash
          PROVE  UNCHANGED marker
      BY <3>2 DEF Load, Look, Refuse, Read, BeginRefuses, NotSent, Transmit, Answer, Ask, Lookup,
                  Abandon, Restart, Crash, order
    <3>3. ASSUME Begin \/ Dispatch \/ Fence \/ RecordAccepted \/ RetrySafe \/ RecordFailed
          PROVE  UNCHANGED marker
      BY <3>3 DEF Begin, Dispatch, Fence, RecordAccepted, RetrySafe, RecordFailed
    <3> QED BY <1>1, <2>1, <3>1, <3>2, <3>3 DEF Next, Web, Place, Recover
  <2>3. ConcludeFound \/ ConcludeAbsent => Pending(engine.order) /\ Settled(engine.order)
    BY <1>1 DEF ConcludeFound, ConcludeAbsent, At, Holding, IInv, Hand, HandOrder
  <2> QED BY <1>1, <2>2, <2>3 DEF Resolve, Settled, Pending
<1>2. IInv /\ [Next]_vars => [Knowingly]_vars
  BY <1>1
<1> QED BY <1>2, Invariance, PTL DEF MarkerLiftedKnowingly, Spec

\* Once the bot is deleted, an order not dispatched yet never leaves; it can only be dropped.
THEOREM DeletionHolds == Spec => DeletedSendsNothing
<1> DEFINE Stays == \A o \in Orders : Dead(o) => o \notin sent' /\ (Dead(o)' \/ intent' = None)
<1>1. ASSUME IInv, [Next]_vars, NEW o \in Orders, Dead(o)
      PROVE  o \notin sent' /\ (Dead(o)' \/ intent' = None)
  <2>1. o \notin sent /\ intent # None /\ intent.id = o /\ ~intent.dispatched /\ status = "deleted"
    BY <1>1 DEF Dead, IInv, Ordering, Orderly, Pending
  <2>2. status' = "deleted"
    <3>1. CASE Lifecycle
      BY <2>1, <3>1 DEF Lifecycle, Retired
    <3>2. ASSUME (\E r \in Rules : Receive(r) \/ EditRule(r)) \/ EditSettings \/ EditKey
                 \/ ShowMarker \/ Resolve \/ Tick \/ Venue \/ OperatorResolves \/ UNCHANGED vars
          PROVE  UNCHANGED status
      BY <3>2 DEF Receive, EditRule, EditSettings, EditKey, ShowMarker, Resolve, Tick, Venue,
                  OperatorResolves, vars, bot
    <3>3. ASSUME Load \/ Look \/ Refuse \/ Abandon \/ Restart \/ Crash \/ Place \/ Recover
          PROVE  UNCHANGED status
      BY <3>3 DEF Load, Look, Refuse, Abandon, Restart, Crash, Place, Recover, Read, BeginRefuses,
                  Begin, Dispatch, Fence, NotSent, Transmit, Answer, RecordAccepted, RetrySafe,
                  RecordFailed, MarkUnresolved, Ask, Lookup, ConcludeFound, ConcludeAbsent, bot
    <3> QED BY <1>1, <2>1, <3>1, <3>2, <3>3 DEF Next, Web
  <2>3. ~Begin /\ ~Dispatch /\ ~Transmit
    BY <1>1, <2>1, Leaves DEF Begin, Blocked, Dispatch, Retired
  <2>4. CASE Aside
    BY <2>1, <2>2, <2>4, AsideStands DEF Dead
  <2>5. CASE Venue
    BY <2>1, <2>2, <2>5 DEF Venue, order, Dead
  <2>6. CASE Resolves
    BY <1>1, <2>1, <2>6, Resolution
  <2> QED BY <1>1, <2>3, <2>4, <2>5, <2>6, Steps
<1>2. IInv /\ [Next]_vars => [Stays]_vars
  BY <1>1
<1> QED BY <1>2, Invariance, PTL DEF DeletedSendsNothing, Spec

-----------------------------------------------------------------------------
(* The order ledger.                                                        *)

\* A step that leaves the orders and what the venue has of them as they are.
Quiet == /\ UNCHANGED <<owner, rows>> /\ (intent' = None <=> intent = None)
         /\ (intent # None => intent'.id = intent.id)
         /\ \A o \in Orders : Booked(o)' <=> Booked(o)

LEMMA QuietStutters ==
  ASSUME Quiet
  PROVE  UNCHANGED <<[o \in Orders |-> Fate(o)], {o \in Orders : Booked(o)}>>
<1>1. \A o \in Orders : Fate(o)' = Fate(o)
  BY DEF Quiet, Fate
<1> QED BY <1>1 DEF Quiet

\* The intent goes: its order is recorded or void in the ledger.
LEMMA ResolvesOne == ASSUME IInv, Resolves PROVE Ledger!Next
<1> USE NoneAssumption
<1>1. PICK o \in Orders :
        /\ o = intent.id /\ intent # None /\ intent' = None /\ UNCHANGED <<owner, verdict>>
        /\ \/ Booked(o) /\ rows' = [rows EXCEPT ![o] = @ + 1]
           \/ ~Booked(o) /\ rows' = rows
  BY Resolution
<1>2. rows[o] \in Nat /\ owner[o] # 0 /\ (rows[o] > 0 => Booked(o))
  BY <1>1 DEF IInv, TypeOK, Ordering, Orderly, Pending
<1>3. Fate(o) = "open" /\ \A p \in Orders : p # o => Fate(p)' = Fate(p)
  BY <1>1 DEF Fate, IInv, TypeOK
<1>4. \A p \in Orders : Booked(p)' <=> Booked(p)
  BY <1>1 DEF Booked
<1>5. CASE Booked(o) /\ rows' = [rows EXCEPT ![o] = @ + 1]
  <2>1. rows'[o] > 0
    BY <1>1, <1>2, <1>5 DEF IInv, TypeOK
  <2>2. Fate(o)' = "recorded"
    BY <1>1, <2>1 DEF Fate
  <2>3. Ledger!Record(o)
    BY <1>1, <1>3, <1>4, <1>5, <2>2 DEF Ledger!Record
  <2> QED BY <1>1, <2>3 DEF Ledger!Next
<1>6. CASE ~Booked(o) /\ rows' = rows
  <2>1. Fate(o)' = "void"
    BY <1>1, <1>2, <1>6 DEF Fate
  <2>2. Ledger!Void(o)
    BY <1>1, <1>3, <1>4, <1>6, <2>1 DEF Ledger!Void
  <2> QED BY <1>1, <2>2 DEF Ledger!Next
<1> QED BY <1>1, <1>5, <1>6

LEMMA StepRefines ==
  ASSUME IInv, [Next]_vars
  PROVE  \/ Ledger!Next
         \/ UNCHANGED <<[o \in Orders |-> Fate(o)], {o \in Orders : Booked(o)}>>
<1> USE NoneAssumption
<1>1. CASE Aside
  BY <1>1, AsideStands, QuietStutters DEF Quiet, Booked
<1>2. CASE Begin
  <2>1. PICK o \in Orders :
           /\ intent = None /\ owner[o] = 0 /\ Mine \in Calls
           /\ intent' = [id |-> o, dispatched |-> FALSE] /\ intent' # None
           /\ owner' = [owner EXCEPT ![o] = Mine]
           /\ UNCHANGED <<rows, wire, verdict, sent>>
    BY <1>2, Begins
  <2>2. rows[o] = 0
    BY <2>1 DEF IInv, TypeOK, Ordering, Orderly, Booked
  <2>3. intent'.id = o /\ \A p \in Orders : owner'[p] = IF p = o THEN Mine ELSE owner[p]
    BY <2>1 DEF IInv, TypeOK
  <2>4. Fate(o) = "new" /\ Fate(o)' = "open"
    BY <2>1, <2>2, <2>3 DEF Fate
  <2>5. \A p \in Orders : Fate(p) # "open" /\ (p # o => Fate(p)' = Fate(p))
    BY <2>1, <2>3 DEF Fate
  <2>6. \A p \in Orders : Booked(p)' <=> Booked(p)
    BY <2>1 DEF Booked
  <2>7. Ledger!Open(o)
    BY <2>4, <2>5, <2>6 DEF Ledger!Open
  <2> QED BY <2>7 DEF Ledger!Next
<1>3. CASE Dispatch
  <2>1. intent \in Intent /\ intent' = [intent EXCEPT !.dispatched = TRUE] /\ intent # None
        /\ UNCHANGED <<owner, rows, verdict>>
    BY <1>3 DEF Dispatch, At, IInv, Hand, HandOrder, Holding, Pending, TypeOK, venue
  <2>2. intent' \in Intent /\ intent'.id = intent.id
    BY <2>1 DEF Intent
  <2>3. Quiet
    BY <2>1, <2>2 DEF Quiet, Booked
  <2> QED BY <2>3, QuietStutters
<1>4. CASE Transmit
  BY <1>4, Leaves, QuietStutters DEF Quiet, Booked
<1>5. CASE Venue
  <2>1. PICK o \in wire, v \in {"booked", "refused", "none"} :
           wire' = wire \ {o} /\ verdict' = [verdict EXCEPT ![o] = v]
    BY <1>5 DEF Venue
  <2>2. UNCHANGED <<intent, owner, rows>> /\ o \in Orders /\ Pending(o) /\ ~Booked(o)
    BY <1>5, <2>1 DEF Venue, order, IInv, TypeOK, Ordering, Orderly, Booked
  <2>3. \A p \in Orders : Booked(p)' <=> IF p = o THEN v = "booked" ELSE Booked(p)
    BY <2>1 DEF IInv, TypeOK, Booked
  <2>4. CASE v # "booked"
    BY <2>2, <2>3, <2>4, QuietStutters DEF Quiet
  <2>5. CASE v = "booked"
    <3>1. Fate(o) = "open" /\ \A p \in Orders : Fate(p)' = Fate(p)
      BY <2>2 DEF Fate, Pending
    <3>2. \A p \in Orders : Booked(p)' <=> Booked(p) \/ p = o
      BY <2>3, <2>5
    <3>3. Ledger!VenueAccepts(o)
      BY <2>2, <3>1, <3>2 DEF Ledger!VenueAccepts
    <3> QED BY <2>2, <3>3 DEF Ledger!Next
  <2> QED BY <2>4, <2>5
<1>6. CASE Resolves
  BY <1>6, ResolvesOne
<1> QED BY <1>1, <1>2, <1>3, <1>4, <1>5, <1>6, Steps

\* The signal bot keeps to the order ledger: one order open at a time, recorded only when
\* the venue has it, void only when the venue never will.
THEOREM SignalsImplement == Spec => ImplementsLedger
<1>1. Init => Ledger!Init
  BY NoneAssumption DEF Init, Ledger!Init, Fate, Booked
<1>2. IInv /\ [Next]_vars =>
        [Ledger!Next]_<<[o \in Orders |-> Fate(o)], {o \in Orders : Booked(o)}>>
  BY StepRefines
<1> QED
  BY <1>1, <1>2, Invariance, PTL DEF Spec, ImplementsLedger, Ledger!Spec

\* An order that is recorded or void stays so, and the venue does not take it any more: what
\* follows from the ledger for the orders of webhook calls.
LEMMA LedgerFinal ==
  ASSUME NEW o \in Orders, Ledger!Next, Fate(o) \in {"recorded", "void"}
  PROVE  Fate(o)' = Fate(o) /\ Booked(o)' = Booked(o)
<1> DEFINE fates == [x \in Orders |-> Fate(x)]
           atVenue == {x \in Orders : Booked(x)}
<1>1. fates[o] \in {"recorded", "void"}
  OBVIOUS
<1>2. PICK p \in Orders : Ledger!Open(p) \/ Ledger!VenueAccepts(p) \/ Ledger!Record(p) \/ Ledger!Void(p)
  BY DEF Ledger!Next
<1>3. fates[p] \in {"new", "open"} /\ p # o
  BY <1>1, <1>2 DEF Ledger!Open, Ledger!VenueAccepts, Ledger!Record, Ledger!Void
<1>4. fates' = fates \/ \E f : fates' = [fates EXCEPT ![p] = f]
  BY <1>2 DEF Ledger!Open, Ledger!VenueAccepts, Ledger!Record, Ledger!Void
<1>5. atVenue' = atVenue \/ atVenue' = atVenue \cup {p}
  BY <1>2 DEF Ledger!Open, Ledger!VenueAccepts, Ledger!Record, Ledger!Void
<1>6. fates'[o] = fates[o] /\ (o \in atVenue' <=> o \in atVenue)
  BY <1>3, <1>4, <1>5
<1>7. Booked(o) \in BOOLEAN /\ Booked(o)' \in BOOLEAN
  BY DEF Booked
<1> QED BY <1>6, <1>7

Final ==
  \A o \in Orders : Fate(o) \in {"recorded", "void"} =>
    Fate(o)' = Fate(o) /\ Booked(o)' = Booked(o)

\* No order is decided twice, and a void one is never accepted afterwards, whatever the venue,
\* the recovery, the operator and a restart do later.
THEOREM FatesFinal == Spec => [][Final]_vars
<1>1. ASSUME Ledger!Next PROVE Final
  BY <1>1, LedgerFinal DEF Final
<1>2. ASSUME UNCHANGED <<[o \in Orders |-> Fate(o)], {o \in Orders : Booked(o)}>> PROVE Final
  <2> SUFFICES ASSUME NEW o \in Orders PROVE Fate(o)' = Fate(o) /\ Booked(o)' = Booked(o)
    BY DEF Final
  <2>1. [x \in Orders |-> Fate(x)]'[o] = [x \in Orders |-> Fate(x)][o]
    BY <1>2
  <2>2. o \in {x \in Orders : Booked(x)}' <=> o \in {x \in Orders : Booked(x)}
    BY <1>2
  <2>3. Booked(o) \in BOOLEAN /\ Booked(o)' \in BOOLEAN
    BY DEF Booked
  <2> QED BY <2>1, <2>2, <2>3
<1>3. IInv /\ [Next]_vars => [Final]_vars
  BY <1>1, <1>2, StepRefines
<1> QED BY <1>3, Invariance, PTL DEF Spec
=============================================================================
