----------------------------- MODULE AmountLimit -----------------------------
(***************************************************************************)
(* The stop of a bot that has spent its quote cap (engine/polling.rs,      *)
(* engine/tick.rs).  A fill that takes a limited bot to its cap owes one   *)
(* stop.  Outside a sweep the stop is written with the fill; a sweep only  *)
(* counts it, and the count is drained after the run, one stop to a        *)
(* transaction: a death in between must run exactly the rest, and a count  *)
(* the user has overridden must not stop the bot they started again.       *)
(*                                                                         *)
(* One bot; an order spends one unit of the cap, filled at once.           *)
(***************************************************************************)
EXTENDS Naturals, FiniteSets

CONSTANTS
  Orders,      \* the buys the bot may place
  Caps,        \* the caps its owner may set
  MaxStarts,   \* bound on the owner's starts
  MaxEdits,    \* bound on the owner's changes of the cap
  MaxCrashes,  \* bound on the process's deaths
  None         \* absent

ASSUME CapsAssumption == Caps \subseteq Nat \ {0}
ASSUME BoundsAssumption == MaxStarts \in Nat /\ MaxEdits \in Nat /\ MaxCrashes \in Nat

VARIABLES
  venue,       \* each order at the venue
  row,         \* each order's row
  counted,     \* the rows created since the cap was switched on
  cap,         \* the cap, or 0: off
  working,     \* the bot's status: working or stopped
  generation,  \* bumped by every start and stop
  started,     \* the bot's start: moved by a fresh start
  request,     \* a continue start waits for the engine (rust_continue_start)
  stops,       \* the counted stops and their key, or None (rust_amount_limit_stops_pending)
  engine,      \* where the engine is
  edits, crashes, \* the bounded counters
  called, ran  \* history: the callbacks counted and the stops run since the user's last resume

market == <<venue, row, counted>>
bot == <<working, generation, started>>
history == <<called, ran>>
vars == <<venue, row, counted, cap, working, generation, started, request, stops, engine,
          edits, crashes, called, ran>>

Key == [started : 0..MaxStarts, cap : Caps \cup {0}]
Identity == [generation : Nat, started : 0..MaxStarts]
\* A run: what it is in the middle of, for which run of the bot, and whether it stopped it.
Run == [at : {"boot", "first", "sweep", "last"}, owner : Identity \cup {None}, mine : BOOLEAN]
ASSUME NoneAssumption == None \notin [count : Nat, key : Key] \cup Identity

Idle == [at |-> "idle"]
Down == [at |-> "down"]

TypeOK ==
  /\ venue \in [Orders -> {"none", "open", "filled", "cancelled"}]
  /\ row \in [Orders -> {"none", "open", "filled", "cancelled"}]
  /\ counted \subseteq Orders
  /\ cap \in Caps \cup {0}
  /\ working \in BOOLEAN /\ generation \in Nat /\ started \in 0..MaxStarts
  /\ request \in BOOLEAN
  /\ stops \in [count : Nat, key : Key] \cup {None}
  /\ engine \in Run \cup {Idle, Down}
  /\ edits \in 0..MaxEdits /\ crashes \in 0..MaxCrashes
  /\ called \in Nat /\ ran \in Nat

Init ==
  /\ venue = [o \in Orders |-> "none"] /\ row = [o \in Orders |-> "none"]
  /\ counted = {}
  /\ cap \in Caps \cup {0}
  /\ working = TRUE /\ generation = 0 /\ started = 0
  /\ request = FALSE
  /\ stops = None
  /\ engine = Idle
  /\ edits = 0 /\ crashes = 0
  /\ called = 0 /\ ran = 0

-----------------------------------------------------------------------------
(* The cap and the counted stops. *)

\* What counts as spent: rows since the cap was switched on, waiting or filled.
Spent(rows) == Cardinality({o \in counted : rows[o] \in {"open", "filled"}})
Reached(rows) == cap # 0 /\ Spent(rows) >= cap

CapKey == [started |-> started, cap |-> cap]
Current == stops # None /\ ~request /\ stops.key = CapKey
Count == IF stops = None THEN 0 ELSE stops.count

\* The one write of a stop: a stopped bot is stopped again.
StopBot ==
  /\ working' = FALSE
  /\ generation' = generation + 1
  /\ UNCHANGED started

RunIdentity == [generation |-> generation, started |-> started]
Owns == engine.owner = RunIdentity /\ working

\* The user's resume overrides what was counted before it.
Overridden == called' = 0 /\ ran' = 0

-----------------------------------------------------------------------------
(* The venue and the owner. *)

VenueEnds(o) ==
  /\ venue[o] = "open"
  /\ \E end \in {"filled", "cancelled"} : venue' = [venue EXCEPT ![o] = end]
  /\ UNCHANGED <<row, counted, cap, bot, request, stops, engine, edits, crashes, history>>

WebStop ==
  /\ engine # Down /\ working
  /\ StopBot
  /\ UNCHANGED <<market, cap, request, stops, engine, edits, crashes, history>>

\* A start, fresh or continued; a spent cap refuses it.  A fresh start leaves the
\* request of an earlier continue where it is.
WebStart(fresh) ==
  /\ engine # Down /\ ~working /\ ~Reached(row)
  /\ generation < 2 * MaxStarts
  /\ started < MaxStarts
  /\ working' = TRUE /\ generation' = generation + 1
  /\ started' = IF fresh THEN started + 1 ELSE started
  /\ request' = (request \/ ~fresh)
  /\ Overridden
  /\ UNCHANGED <<market, cap, stops, engine, edits, crashes>>

\* The owner changes the cap, or switches it; switched on, it counts from now.
EditCap(to) ==
  /\ engine # Down /\ to # cap /\ edits < MaxEdits
  /\ edits' = edits + 1
  /\ cap' = to
  /\ counted' = IF cap = 0 \/ to = 0 THEN {} ELSE counted
  /\ UNCHANGED <<venue, row, bot, request, stops, engine, crashes, history>>

-----------------------------------------------------------------------------
(* Fills. *)

Settled(o) == [row EXCEPT ![o] = venue[o]]
\* handle_quote_amount_limit_update: the executed quote changed and the cap is reached.
Fires(o) == venue[o] = "filled" /\ Reached(Settled(o))
Unread(o) == row[o] = "open" /\ venue[o] # "open"

\* A follow-up poll, or the recovery of an order: the stop lands with the fill.
FollowUp(o) ==
  /\ engine = Idle /\ Unread(o)
  /\ row' = Settled(o)
  /\ IF Fires(o) THEN StopBot ELSE UNCHANGED bot
  /\ UNCHANGED <<venue, counted, cap, request, stops, engine, edits, crashes, history>>

\* One stop more under this start and cap; a count of another key restarts at 1.
CountStop ==
  /\ stops' = [count |-> IF Current THEN stops.count + 1 ELSE 1, key |-> CapKey]
  /\ called' = IF Current THEN called + 1 ELSE 1
  /\ ran' = IF Current THEN ran ELSE 0

\* A sweep's fill counts its stop in its own transaction, whatever became of the run.
SweepApplies(o) ==
  /\ engine # Idle /\ engine.at = "sweep" /\ Unread(o)
  /\ row' = Settled(o)
  /\ IF Fires(o) THEN CountStop ELSE UNCHANGED <<stops, history>>
  /\ UNCHANGED <<venue, counted, cap, bot, request, engine, edits, crashes>>

-----------------------------------------------------------------------------
(* The engine's runs. *)

\* continue_start: the request and any count go in one write.
ContinueStart ==
  /\ engine = Idle /\ working /\ request
  /\ request' = FALSE /\ stops' = None
  /\ Overridden
  /\ UNCHANGED <<market, cap, bot, engine, edits, crashes>>

\* Mutant: a bot with stops to run is left out of the schedule.
TickSkipsPending ==
  /\ engine = Idle /\ working /\ ~request /\ stops = None
  /\ engine' = [at |-> "first", owner |-> RunIdentity, mine |-> FALSE]
  /\ UNCHANGED <<market, cap, bot, request, stops, edits, crashes, history>>

\* A due tick of a working bot: its drain comes first.
TickBegins ==
  /\ engine = Idle /\ working /\ ~request
  /\ engine' = [at |-> "first", owner |-> RunIdentity, mine |-> FALSE]
  /\ UNCHANGED <<market, cap, bot, request, stops, edits, crashes, history>>

\* A command's run, and the refresh of a page: they sweep for no run of the bot.
RefreshBegins ==
  /\ engine = Idle
  /\ engine' = [at |-> "sweep", owner |-> None, mine |-> FALSE]
  /\ UNCHANGED <<market, cap, bot, request, stops, edits, crashes, history>>

Drains == engine \notin {Idle, Down} /\ engine.at \in {"boot", "first", "last"}
\* A drain for a run of the bot ends when that run is over.
Fenced ==
  /\ engine.owner # None
  /\ engine.owner # RunIdentity \/ (~engine.mine /\ ~working)

\* drain_amount_limit_stops: nothing is left, or the run is over.
DrainEnds ==
  /\ Drains
  /\ Fenced \/ stops = None
  /\ engine' = IF engine.at = "first" /\ Owns THEN [engine EXCEPT !.at = "sweep"] ELSE Idle
  /\ UNCHANGED <<market, cap, bot, request, stops, edits, crashes, history>>

\* The count lost its cause and goes.
DrainDiscards ==
  /\ Drains /\ ~Fenced /\ stops # None /\ ~Current
  /\ stops' = None
  /\ Overridden
  /\ UNCHANGED <<market, cap, bot, request, engine, edits, crashes>>

\* Mutant: the stop is one transaction and its count another, which a death may cut.
DrainStopsThenCounts ==
  \/ /\ Drains /\ ~Fenced /\ Current /\ crashes < MaxCrashes
     /\ StopBot
     /\ ran' = ran + 1 /\ crashes' = crashes + 1 /\ engine' = Down
     /\ UNCHANGED <<market, cap, request, stops, edits, called>>
  \/ /\ Drains /\ ~Fenced /\ Current
     /\ StopBot
     /\ stops' = IF stops.count = 1 THEN None ELSE [stops EXCEPT !.count = @ - 1]
     /\ ran' = ran + 1
     /\ engine' = IF engine.owner = None THEN engine
                  ELSE [engine EXCEPT !.owner.generation = @ + 1, !.mine = TRUE]
     /\ UNCHANGED <<market, cap, request, edits, crashes, called>>

\* One stop, and its count with it.  The stop moves the run the drain follows.
DrainStops ==
  /\ Drains /\ ~Fenced /\ Current
  /\ StopBot
  /\ stops' = IF stops.count = 1 THEN None ELSE [stops EXCEPT !.count = @ - 1]
  /\ ran' = ran + 1
  /\ engine' = IF engine.owner = None THEN engine
               ELSE [engine EXCEPT !.owner.generation = @ + 1, !.mine = TRUE]
  /\ UNCHANGED <<market, cap, request, edits, crashes, called>>

\* The sweep is over: a tick that lost its run ends without a drain.
SweepEnds ==
  /\ engine # Idle /\ engine.at = "sweep"
  /\ engine' = IF engine.owner # None /\ ~Owns THEN Idle ELSE [engine EXCEPT !.at = "last"]
  /\ UNCHANGED <<market, cap, bot, request, stops, edits, crashes, history>>

\* A tick that still owns its run buys what is left under the cap, and is over.
Place(o) ==
  /\ engine # Idle /\ engine.at = "sweep" /\ engine.owner # None /\ Owns
  /\ row[o] = "none" /\ ~Reached(row)
  /\ venue' = [venue EXCEPT ![o] = "open"] /\ row' = [row EXCEPT ![o] = "open"]
  /\ counted' = IF cap # 0 THEN counted \cup {o} ELSE counted
  /\ engine' = [engine EXCEPT !.at = "last"]
  /\ UNCHANGED <<cap, bot, request, stops, edits, crashes, history>>

\* The process dies anywhere, or ends on an error of its lease or store.
Crash ==
  /\ engine # Down /\ crashes < MaxCrashes
  /\ crashes' = crashes + 1 /\ engine' = Down
  /\ UNCHANGED <<market, cap, bot, request, stops, edits, history>>

\* The first pass of the next start, and a handback, drain what was left.
Boot ==
  /\ engine = Down
  /\ engine' = [at |-> "boot", owner |-> None, mine |-> FALSE]
  /\ UNCHANGED <<market, cap, bot, request, stops, edits, crashes, history>>

Next ==
  \/ \E o \in Orders : VenueEnds(o) \/ FollowUp(o) \/ SweepApplies(o) \/ Place(o)
  \/ WebStop \/ (\E fresh \in BOOLEAN : WebStart(fresh)) \/ (\E to \in Caps \cup {0} : EditCap(to))
  \/ ContinueStart \/ TickBegins \/ RefreshBegins
  \/ DrainEnds \/ DrainDiscards \/ DrainStops \/ SweepEnds
  \/ Crash \/ Boot

Spec == Init /\ [][Next]_vars

\* The process is started again, a run goes on to its end, and the bot's next tick comes.
FairSpec ==
  /\ Spec
  /\ WF_vars(Boot) /\ WF_vars(DrainEnds \/ DrainDiscards \/ DrainStops) /\ WF_vars(SweepEnds)
  /\ SF_vars(ContinueStart) /\ SF_vars(TickBegins)

-----------------------------------------------------------------------------
(* Every callback a sweep counted stops the bot exactly once, over deaths     *)
(* between two of the stops; and none counted before the user's resume does. *)
StopsMatchCallbacks == stops = None \/ Current => called = ran + Count

(* A working bot whose cap fired does not go on working beside its count: it *)
(* is stopped, or its owner has taken the cause away.                        *)
CapStops == (working /\ Current) ~> ~(working /\ Current)
=============================================================================
