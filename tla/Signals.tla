------------------------------- MODULE Signals -------------------------------
(***************************************************************************)
(* The webhook calls of one signal bot (rust/src/web/hook.rs and           *)
(* rust/src/engine/signal.rs).  The hook claims a rule's cooldown and      *)
(* appends the call; each pass of the engine takes the oldest call through *)
(* its checks and consumes it with a line, a row, or the order intent it   *)
(* asked for.  An order of unknown fate raises a marker and, until it is   *)
(* settled, holds every later call, which may expire meanwhile.            *)
(*                                                                         *)
(* Every write transaction is one action, and so is a group of reads that  *)
(* no await separates.  What Placement establishes is taken from it: a     *)
(* lookup concludes that an order is absent only when the venue can no     *)
(* longer accept it.  Amounts, prices and the reasons of a refusal are not *)
(* kept: each check of the venue may come out either way.                  *)
(***************************************************************************)
EXTENDS Integers, FiniteSets

CONSTANTS
  Rules,      \* rules of the bot, each with its webhook token; it has another, never called
  None,
  MaxAge,     \* a call that waited longer is not placed
  Cooldown,   \* a rule takes no second call within it
  KeyOpens,   \* the stored API key can be decrypted
  MaxCalls,   \* bound: calls ever taken
  MaxOrders,  \* bound: client order ids ever drawn
  MaxEdits,   \* bound: edits of the settings, and of the API key
  MaxCrashes  \* bound: kills of the process

ASSUME AgesAssumption == MaxAge \in Nat /\ Cooldown \in Nat /\ KeyOpens \in BOOLEAN
ASSUME BoundsAssumption ==
  /\ {MaxCalls, MaxOrders, MaxEdits, MaxCrashes} \subseteq Nat
  /\ MaxOrders >= 2 * MaxCalls   \* a call draws at most two

Calls  == 1..MaxCalls
Orders == 1..MaxOrders

VARIABLES
  status,   \* bots.status
  rule,     \* bot_signals: on, off or gone
  cool,     \* time since a rule's last_triggered_at, as far as it matters
  pair,     \* the revision of the settings an order is sized from
  cred,     \* the revision of the stored API key
  queue,    \* transient_data.rust_signal_calls; calls are numbered as they arrive
  taken,    \* history: how many calls the hook took
  ended,    \* history: how each call was consumed: with a line, a row, an intent
  intent,   \* transient_data.rust_placement
  marker,   \* transient_data.signal_placement_unresolved: the order it names
  tab,      \* the marker an open page of the owner shows
  owner,    \* history: the call each order was begun for
  rows,     \* accepted transaction rows written for each order
  failed,   \* the orders with a failed transaction row
  operated, \* history: the orders the operator decided
  engine,   \* the engine's place in the call in hand, and what it read
  crashes,  \* kills of the process so far
  wire,     \* order requests on their way to the venue
  verdict,  \* what the venue made of each order
  sent      \* history: the orders whose request left

bot    == <<status, rule, pair, cred>>
calls  == <<queue, ended>>
order  == <<intent, marker, owner, rows, failed, operated>>
venue  == <<wire, verdict, sent>>
vars   == <<bot, cool, taken, calls, order, tab, engine, crashes, venue>>

Call   == [id : Calls, rule : Rules, age : 0..MaxAge + 1]
Intent == [id : Orders, dispatched : BOOLEAN]
Engine == [pc : {"down", "idle", "loaded", "refusing", "reading", "sized", "begun",
                 "sending", "awaiting", "answered", "asking", "found", "absent"},
           call : Calls \cup {0}, rule : Rules \cup {None},
           working : BOOLEAN, blocked : BOOLEAN, first : BOOLEAN,
           pair : Nat, cred : Nat, order : Orders \cup {0},
           reply : {"none", "accepted", "ambiguous", "rejected", "safe", "not_sent"}]
ASSUME NoneAssumption == None \notin Rules \cup Nat \cup Intent
Rest   == [pc |-> "idle", call |-> 0, rule |-> None, working |-> FALSE, blocked |-> FALSE,
           first |-> FALSE, pair |-> 0, cred |-> 0, order |-> 0, reply |-> "none"]

Working   == status = "scheduled"
Retired   == status \in {"archived", "deleted"}
BlockedByMarker == marker # None  \* mutant: an intent without its marker holds nothing
Blocked   == marker # None \/ intent # None
Queued    == {x.id : x \in queue}
Fresh(o)  == owner[o] = 0 /\ \A p \in 1..o - 1 : owner[p] # 0
Booked(o) == verdict[o] = "booked"

At(pc)  == engine.pc = pc
Goes(pc) == engine' = [engine EXCEPT !.pc = pc]
Idle    == engine' = Rest
Mine    == engine.call
Current == engine.cred = cred

Without(c)      == {x \in queue : x.id # c}
\* "line" is a refusal: with its activity line, or silently for a rule removed or an asset
\* locked since.
Consume(c, how) == queue' = Without(c) /\ ended' = [ended EXCEPT ![c] = @ \cup {how}]

Init ==
  /\ status = "created" /\ rule \in [Rules -> {"on", "off"}]
  /\ cool = [r \in Rules |-> Cooldown] /\ pair = 0 /\ cred = 0
  /\ queue = {} /\ taken = 0 /\ ended = [c \in Calls |-> {}]
  /\ intent = None /\ marker = None /\ tab = None /\ owner = [o \in Orders |-> 0]
  /\ rows = [o \in Orders |-> 0] /\ failed = {} /\ operated = {}
  /\ engine = [Rest EXCEPT !.pc = "down"] /\ crashes = 0
  /\ wire = {} /\ verdict = [o \in Orders |-> "none"] /\ sent = {}

-----------------------------------------------------------------------------
(* The web server: the hook, the owner's actions, and the page.             *)

\* The claim of the cooldown and the call it keeps are one transaction; a bot that is
\* stopped, or a rule that is off, spends the claim and keeps no call.
Receive(r) ==
  /\ status # "deleted" /\ rule[r] # "gone" /\ cool[r] = Cooldown
  /\ cool' = [cool EXCEPT ![r] = 0]
  /\ \/ /\ Working /\ rule[r] = "on" /\ taken < MaxCalls
        /\ queue' = queue \cup {[id |-> taken + 1, rule |-> r, age |-> 0]}
        /\ taken' = taken + 1
     \/ ~(Working /\ rule[r] = "on") /\ UNCHANGED <<queue, taken>>
  /\ UNCHANGED <<bot, ended, order, tab, engine, crashes, venue>>

Lifecycle ==
  /\ \/ ~Retired /\ status' \in {"stopped", "scheduled"}
     \/ ~Retired /\ status' = "archived"
     \/ status = "archived" /\ status' = "stopped"
     \/ status # "deleted" /\ status' = "deleted"
  /\ UNCHANGED <<rule, pair, cred, cool, taken, calls, order, tab, engine, crashes, venue>>

\* The rules of a running bot are locked.  The last one stays, which is never one of Rules.
EditRule(r) ==
  /\ ~Working /\ status # "deleted" /\ rule[r] # "gone"
  /\ \E state \in {"on", "off", "gone"} : rule' = [rule EXCEPT ![r] = state]
  /\ UNCHANGED <<status, pair, cred, cool, taken, calls, order, tab, engine, crashes, venue>>

EditSettings ==
  /\ status # "deleted" /\ pair < MaxEdits /\ pair' = pair + 1
  /\ UNCHANGED <<status, rule, cred, cool, taken, calls, order, tab, engine, crashes, venue>>

\* A stored key is not replaced while the bot's order is unresolved.
EditKey ==
  /\ intent = None /\ cred < MaxEdits /\ cred' = cred + 1
  /\ UNCHANGED <<status, rule, pair, cool, taken, calls, order, tab, engine, crashes, venue>>

ShowMarker ==
  /\ marker # None /\ tab' = marker
  /\ UNCHANGED <<bot, cool, taken, calls, order, engine, crashes, venue>>

\* mutant: a Resolve may lift the marker of an order the engine has not settled
ResolveAny ==
  /\ tab # None /\ marker = tab /\ marker' = None
  /\ UNCHANGED <<bot, cool, taken, calls, intent, owner, rows, failed, operated,
                 tab, engine, crashes, venue>>

\* The owner's Resolve names the marker the page showed; an unsettled order of the
\* engine's own is its recovery's to settle.
Resolve ==
  /\ tab # None /\ marker = tab /\ intent = None /\ marker' = None
  /\ UNCHANGED <<bot, cool, taken, calls, intent, owner, rows, failed, operated,
                 tab, engine, crashes, venue>>

-----------------------------------------------------------------------------
(* A pass over the bot's oldest call.                                       *)

Load ==
  /\ At("idle") /\ KeyOpens
  /\ \E oldest \in queue :
       /\ \A x \in queue : oldest.id <= x.id
       /\ engine' = [Rest EXCEPT !.pc = "loaded", !.call = oldest.id, !.rule = oldest.rule,
                       !.working = Working, !.blocked = Blocked, !.pair = pair, !.cred = cred]
  /\ UNCHANGED <<bot, cool, taken, calls, order, tab, crashes, venue>>

Expired == \E x \in queue : x.id = Mine /\ x.age > MaxAge
\* mutant: the barrier is asked before the expiry
RefusedUnlessBlocked ==
  /\ ~engine.blocked
  /\ Expired \/ ~engine.working \/ rule[engine.rule] # "on"
\* The rule was removed, the call expired, the bot stopped, the rule is off.
Refused == Expired \/ ~engine.working \/ rule[engine.rule] # "on"

Look ==
  /\ At("loaded")
  /\ \/ Refused /\ Goes("refusing")
     \/ ~Refused /\ engine.blocked /\ Idle
     \/ ~Refused /\ ~engine.blocked /\ Goes("reading")
  /\ UNCHANGED <<bot, cool, taken, calls, order, tab, crashes, venue>>

Refuse ==
  /\ At("refusing") /\ Consume(Mine, "line") /\ Idle
  /\ UNCHANGED <<bot, cool, taken, order, tab, crashes, venue>>

\* While the venue is read: a line (stale data, a pending key, a closed market, a
\* condition unmet, the cap spent, the asset locked), or a failed or skipped row, which
\* is written under the key the reads were made with; else the order is sized.
Read ==
  /\ At("reading")
  /\ \/ Consume(Mine, "line") /\ Idle
     \/ Current /\ Consume(Mine, "row") /\ Idle
     \/ engine' = [engine EXCEPT !.pc = "sized", !.first = TRUE] /\ UNCHANGED calls
  /\ UNCHANGED <<bot, cool, taken, order, tab, crashes, venue>>

\* begin_signal refuses a call that is still there: stopped, switched off or locked since
\* (a line), or reduced by the cap below the venue's minimum (a row).
BeginRefuses ==
  /\ At("sized") /\ engine.first /\ ~Blocked /\ Mine \in Queued
  /\ \/ Consume(Mine, "line")
     \/ /\ Working /\ rule[engine.rule] = "on" /\ pair = engine.pair /\ Current
        /\ Consume(Mine, "row")
  /\ Idle /\ UNCHANGED <<bot, cool, taken, order, tab, crashes, venue>>

\* A client order id never used before.
Draw(o) ==
  /\ Fresh(o) /\ intent' = [id |-> o, dispatched |-> FALSE]
  /\ owner' = [owner EXCEPT ![o] = Mine]
  /\ engine' = [engine EXCEPT !.pc = "begun", !.order = o]

\* mutant: the call is removed by a later pass, not with its intent
BeginKeepsCall ==
  /\ At("sized") /\ ~Blocked /\ pair = engine.pair /\ Current
  /\ \E o \in Orders : Draw(o) /\ UNCHANGED queue
  /\ ended' = [ended EXCEPT ![Mine] = @ \cup {"intent"}]
  /\ UNCHANGED <<bot, cool, taken, marker, rows, failed, operated, tab, crashes, venue>>

\* The intent is committed with the call's removal; the one more attempt after a safe
\* rejection asks only for the barrier, the pair and the key.
Begin ==
  /\ At("sized") /\ ~Blocked /\ pair = engine.pair /\ Current
  /\ \E o \in Orders : Draw(o)
  /\ IF engine.first
     THEN /\ Mine \in Queued /\ Working /\ rule[engine.rule] = "on"
          /\ Consume(Mine, "intent")
     ELSE UNCHANGED calls
  /\ UNCHANGED <<bot, cool, taken, marker, rows, failed, operated, tab, crashes, venue>>

\* mutant: the send does not ask for the bot again
DispatchAnyway ==
  /\ At("begun") /\ Current
  /\ intent' = [intent EXCEPT !.dispatched = TRUE] /\ Goes("sending")
  /\ UNCHANGED <<bot, cool, taken, calls, marker, owner, rows, failed, operated,
                 tab, crashes, venue>>

\* A stop after the claim leaves the order; a deleted or archived bot sends nothing.
Dispatch ==
  /\ At("begun") /\ ~Retired /\ Current
  /\ intent' = [intent EXCEPT !.dispatched = TRUE] /\ Goes("sending")
  /\ UNCHANGED <<bot, cool, taken, calls, marker, owner, rows, failed, operated,
                 tab, crashes, venue>>

Fence ==
  /\ At("begun") /\ Retired /\ intent' = None /\ Idle
  /\ UNCHANGED <<bot, cool, taken, calls, marker, owner, rows, failed, operated,
                 tab, crashes, venue>>

\* Nothing leaves: a refused preparation, the send window passed, no connection, or the
\* engine's own limit refusal.
NotSent ==
  /\ At("begun") \/ At("sending")
  /\ engine' = [engine EXCEPT !.pc = "answered", !.reply = "not_sent"]
  /\ UNCHANGED <<bot, cool, taken, calls, order, tab, crashes, venue>>

Transmit ==
  /\ At("sending") /\ Goes("awaiting")
  /\ wire' = wire \cup {engine.order} /\ sent' = sent \cup {engine.order}
  /\ UNCHANGED <<bot, cool, taken, calls, order, tab, crashes, verdict>>

Answer ==
  /\ At("awaiting")
  /\ \E reply \in {"accepted", "ambiguous", "rejected", "safe"} :
       /\ reply = "accepted" => Booked(engine.order)
       /\ reply \in {"rejected", "safe"} => verdict[engine.order] = "refused"
       /\ engine' = [engine EXCEPT !.pc = "answered", !.reply = reply]
  /\ UNCHANGED <<bot, cool, taken, calls, order, tab, crashes, venue>>

-----------------------------------------------------------------------------
(* What the answer writes, and the recovery of what it left.                *)

\* The intent of order o goes; a marker goes with it when it names that order.
Settled(o) == intent' = None /\ marker' = IF marker = o THEN None ELSE marker

RecordAccepted ==
  /\ At("answered") /\ engine.reply = "accepted"
  /\ rows' = [rows EXCEPT ![engine.order] = @ + 1] /\ intent' = None /\ Idle
  /\ UNCHANGED <<bot, cool, taken, calls, marker, owner, failed, operated, tab, crashes, venue>>

\* mutant: a lost answer is attempted again too
RetrySafeOrLost ==
  /\ At("answered") /\ engine.reply \in {"safe", "ambiguous"} /\ engine.first
  /\ intent' = None
  /\ engine' = [engine EXCEPT !.pc = "sized", !.first = FALSE, !.order = 0, !.reply = "none"]
  /\ UNCHANGED <<bot, cool, taken, calls, marker, owner, rows, failed, operated,
                 tab, crashes, venue>>

\* A placement-safe rejection never reached the book: one more attempt, its own intent.
RetrySafe ==
  /\ At("answered") /\ engine.reply = "safe" /\ engine.first
  /\ intent' = None
  /\ engine' = [engine EXCEPT !.pc = "sized", !.first = FALSE, !.order = 0, !.reply = "none"]
  /\ UNCHANGED <<bot, cool, taken, calls, marker, owner, rows, failed, operated,
                 tab, crashes, venue>>

RecordFailed ==
  /\ At("answered") /\ Current
  /\ \/ engine.reply \in {"rejected", "not_sent"}
     \/ engine.reply = "safe" /\ ~engine.first
  /\ failed' = failed \cup {engine.order} /\ intent' = None /\ Idle
  /\ UNCHANGED <<bot, cool, taken, calls, marker, owner, rows, operated, tab, crashes, venue>>

\* Ambiguous: the marker goes up and the intent stays.
MarkUnresolved ==
  /\ At("answered") /\ engine.reply = "ambiguous" /\ marker' = engine.order /\ Idle
  /\ UNCHANGED <<bot, cool, taken, calls, intent, owner, rows, failed, operated,
                 tab, crashes, venue>>

\* reconcile_idle_intents: whatever the bot's status.
Ask ==
  /\ At("idle") /\ intent # None /\ KeyOpens
  /\ engine' = [Rest EXCEPT !.pc = "asking", !.order = intent.id, !.cred = cred]
  /\ UNCHANGED <<bot, cool, taken, calls, order, tab, crashes, venue>>

Lookup ==
  /\ At("asking")
  /\ \/ Booked(engine.order) /\ Goes("found")
     \/ ~Booked(engine.order) /\ engine.order \notin wire /\ Goes("absent")
  /\ UNCHANGED <<bot, cool, taken, calls, order, tab, crashes, venue>>

ConcludeFound ==
  /\ At("found") /\ Current
  /\ rows' = [rows EXCEPT ![engine.order] = @ + 1] /\ Settled(engine.order) /\ Idle
  /\ UNCHANGED <<bot, cool, taken, calls, owner, failed, operated, tab, crashes, venue>>

\* mutant: only a recorded order takes its marker with it
ConcludeAbsentMarked ==
  /\ At("absent") /\ Current /\ intent' = None /\ Idle
  /\ UNCHANGED <<bot, cool, taken, calls, marker, owner, rows, failed, operated,
                 tab, crashes, venue>>

ConcludeAbsent ==
  /\ At("absent") /\ Current /\ Settled(engine.order) /\ Idle
  /\ UNCHANGED <<bot, cool, taken, calls, owner, rows, failed, operated, tab, crashes, venue>>

\* The pass ends with nothing written: a read or a write failed, the claim found the
\* barrier, another pair or another key, the key was replaced under a result to record,
\* or the venue could not tell.
Abandon ==
  /\ engine.pc \in {"loaded", "refusing", "reading", "sized", "begun", "answered",
                    "asking", "found", "absent"}
  /\ Idle /\ UNCHANGED <<bot, cool, taken, calls, order, tab, crashes, venue>>

\* resolve-placement, while the engine is down: the marker is the owner's to resolve.
OperatorResolves ==
  /\ At("down") /\ intent # None
  /\ \/ Booked(intent.id) /\ rows' = [rows EXCEPT ![intent.id] = @ + 1]
     \/ ~Booked(intent.id) /\ intent.id \notin wire /\ UNCHANGED rows
  /\ operated' = operated \cup {intent.id} /\ intent' = None
  /\ UNCHANGED <<bot, cool, taken, calls, marker, owner, failed, tab, engine, crashes, venue>>

-----------------------------------------------------------------------------
(* The process, the venue and the clock.                                    *)

Restart ==
  /\ At("down") /\ Idle
  /\ UNCHANGED <<bot, cool, taken, calls, order, tab, crashes, venue>>

Crash ==
  /\ ~At("down") /\ crashes < MaxCrashes /\ crashes' = crashes + 1
  /\ engine' = [Rest EXCEPT !.pc = "down"]
  /\ UNCHANGED <<bot, cool, taken, calls, order, tab, venue>>

Venue ==
  /\ \E o \in wire, v \in {"booked", "refused", "none"} :
       wire' = wire \ {o} /\ verdict' = [verdict EXCEPT ![o] = v]
  /\ UNCHANGED <<bot, cool, taken, calls, order, tab, engine, crashes, sent>>

Sooner(a, b) == IF a < b THEN a ELSE b
Tick ==
  /\ queue' = {[x EXCEPT !.age = Sooner(@ + 1, MaxAge + 1)] : x \in queue}
  /\ cool' = [r \in Rules |-> Sooner(cool[r] + 1, Cooldown)]
  /\ UNCHANGED <<bot, taken, ended, order, tab, engine, crashes, venue>>

-----------------------------------------------------------------------------

Web == (\E r \in Rules : Receive(r) \/ EditRule(r)) \/ Lifecycle
       \/ EditSettings \/ EditKey \/ ShowMarker \/ Resolve

Place == Read \/ BeginRefuses \/ Begin \/ Dispatch \/ Fence \/ NotSent \/ Transmit
         \/ Answer \/ RecordAccepted \/ RetrySafe \/ RecordFailed \/ MarkUnresolved

Recover == Ask \/ Lookup \/ ConcludeFound \/ ConcludeAbsent

Next == Web \/ Load \/ Look \/ Refuse \/ Place \/ Recover \/ Abandon
        \/ OperatorResolves \/ Restart \/ Crash \/ Venue \/ Tick

Spec == Init /\ [][Next]_vars

\* Every pass visits the bot's calls, whatever the recovery before it did, and neither
\* its reads nor the write that refuses a call fail for ever; the venue may never answer
\* a lookup.
FairSpec ==
  /\ Spec /\ WF_vars(Tick) /\ WF_vars(Restart) /\ WF_vars(Place \/ Recover \/ Abandon)
  /\ SF_vars(Load) /\ SF_vars(Look) /\ SF_vars(Refuse)

-----------------------------------------------------------------------------

TypeOK ==
  /\ status \in {"created", "stopped", "scheduled", "archived", "deleted"}
  /\ rule \in [Rules -> {"on", "off", "gone"}] /\ cool \in [Rules -> 0..Cooldown]
  /\ pair \in Nat /\ cred \in Nat
  /\ queue \subseteq Call /\ taken \in 0..MaxCalls
  /\ ended \in [Calls -> SUBSET {"line", "row", "intent"}]
  /\ intent \in Intent \cup {None} /\ marker \in Orders \cup {None}
  /\ tab \in Orders \cup {None}
  /\ owner \in [Orders -> Calls \cup {0}] /\ rows \in [Orders -> Nat]
  /\ failed \subseteq Orders /\ operated \subseteq Orders
  /\ engine \in Engine /\ crashes \in Nat
  /\ wire \subseteq Orders /\ sent \subseteq Orders
  /\ verdict \in [Orders -> {"none", "booked", "refused"}]

Placed(o) == Booked(o) \/ o \in wire   \* the venue has it, or may yet

\* A call buys or sells at most once: of the orders begun for it, over crashes, lost
\* answers and the one more attempt, at most one is the venue's, now or later.
OneOrderPerCall ==
  \A o, p \in Orders : Placed(o) /\ Placed(p) /\ owner[o] = owner[p] => o = p

\* A call is accounted for exactly once: it waits, or it was consumed in one of the ways.
AccountedOnce ==
  \A c \in 1..taken :
    IF c \in Queued THEN ended[c] = {} ELSE Cardinality(ended[c]) = 1

\* An order the engine itself settled leaves no marker behind to hold the bot for ever.
NoStrayMarker ==
  marker # None => marker \in operated \/ (intent # None /\ intent.id = marker)

\* The barrier falls only with its order: the engine lifts a marker with the order it
\* names, the owner only one they were shown and only when no order is open.
MarkerLiftedKnowingly ==
  [][marker # None /\ marker' = None =>
       \/ intent # None /\ intent.id = marker /\ intent' = None
       \/ tab = marker /\ intent = None]_vars

Dead(o) == status = "deleted" /\ intent # None /\ intent.id = o /\ ~intent.dispatched

\* An order not yet dispatched when the bot is deleted never leaves: it can only be
\* dropped, and the engine's way to the venue is closed to it.
DeletedSendsNothing ==
  [][\A o \in Orders : Dead(o) => o \notin sent' /\ (Dead(o)' \/ intent' = None)]_vars

\* Every call the hook answered 202 for ends, also behind an order nobody ever settles; but
\* for what this module leaves out: a key that cannot be decrypted, an import that pauses
\* the engine, and stored calls that cannot be read.
CallsEnd == \A c \in Calls : c \in Queued ~> c \notin Queued

-----------------------------------------------------------------------------
(* The order ledger that Placement implements: the signal bot keeps to it.  *)

Fate(o) == IF intent # None /\ intent.id = o THEN "open"
           ELSE IF rows[o] > 0 THEN "recorded"
           ELSE IF owner[o] # 0 THEN "void" ELSE "new"

Ledger == INSTANCE OrderLedger WITH
            fate <- [o \in Orders |-> Fate(o)],
            accepted <- {o \in Orders : Booked(o)}

\* One order is open at a time; it is recorded when the venue has it, and void only when
\* the venue never will, whichever of the reply, the recovery and the operator says so.
ImplementsLedger == Ledger!Spec
=============================================================================
