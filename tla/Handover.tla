------------------------------ MODULE Handover ------------------------------
(***************************************************************************)
(* Never two engines on one install (rust/src/lease, rust/src/engine/      *)
(* handover, config/initializers/00_engine_lock and engine_lease): Rails   *)
(* holds the lock file shared, a Rust process exclusive; the lease row says*)
(* who owned the install last.  A takeover claims the install and acts on  *)
(* Rails' job queue in one transaction of the primary database; the queue  *)
(* is a database of its own, so the rows it acted on are journalled and    *)
(* deleted afterwards, and any start finishes what a crash cut.            *)
(*                                                                         *)
(* One webhook bot: its calls, its stop jobs, and index bots that owe a    *)
(* composition resync.  A start or a handback may refuse for reasons that  *)
(* are not modelled (rules, splits, IBKR): it then exits like one that     *)
(* crashed.  Rails without the lock is outside the model: a release before *)
(* it, or a directory it may not lock, on which it boots with a warning    *)
(* (00_engine_lock.rb:37); only a heartbeat (lease.rs:62) bars Rust then.  *)
(***************************************************************************)
EXTENDS Integers, FiniteSets

CONSTANTS
  StopJobs,    \* Bot::StopJob rows Rails may enqueue
  Calls,       \* Bot::SignalJob rows Rails may enqueue
  IndexBots,   \* bots whose Bot::ResyncIndexCompositionJob may be enqueued
  Processes,   \* Rust processes of the owner: run, serve or handback
  None,
  Again,       \* whether the owner runs handback on an install Rust does not own
  MaxRows,     \* bound: rows Rails enqueues
  MaxTime      \* bound: starts of a process, each at a time of its own

ASSUME RowsAreApart == /\ StopJobs \cap Calls = {} /\ StopJobs \cap IndexBots = {}
                       /\ Calls \cap IndexBots = {}
ASSUME AgentsAreApart == None \notin Processes /\ "rails" \notin Processes /\ None # "rails"
ASSUME NoneIsNoRow == None \notin StopJobs \cup Calls \cup IndexBots
ASSUME BoundsAssumption == MaxTime \in Nat /\ MaxTime >= 2 /\ MaxRows \in Nat

VARIABLES
  now,       \* when the last process started
  flock,     \* the lock file: held by Rails, by one Rust process, or by nobody
  lease,     \* app_configs engine_lease: absent, rust, or handed
  stamps,    \* rust_handed_back_at and rust_taken_over_at, 0 when absent
  rails,     \* the Rails process: where it is, the job in hand, whether it ran
  proc,      \* each Rust process: its command and where it is
  queue,     \* Solid Queue's row of each job
  journal,   \* rust_rails_queue_done and rust_signal_import
  calls,     \* webhook calls stored on the bot
  marked,    \* the bot's unresolved-placement marker
  owed,      \* rust_index_resync: index bots with a pending resync
  ranked,    \* rust_index_rankings attested by Rust: none, or fresh or stale
  lines,     \* ambiguous placements of Rails nothing records, by time, and those collected
  outcomes   \* histories: times Rust acted on a row, times a call was placed, rows answered

install == <<flock, lease, stamps>>
vars == <<now, install, rails, proc, queue, journal, calls, marked, owed, ranked, lines, outcomes>>

Rows  == StopJobs \cup Calls \cup IndexBots
Times == 0..MaxTime

Steps == {"down", "locked", "refused", "claimed", "imported", "emptied", "worked", "listed",
          "running", "serving"}

TypeOK ==
  /\ now \in Times
  /\ flock \in {None, "rails"} \cup Processes
  /\ lease \in {"absent", "rust", "handed"}
  /\ stamps \in [back : Times, taken : Times]
  /\ rails \in [pc : {"down", "booting", "enqueued", "up"}, hand : Rows \cup {None}, ran : BOOLEAN]
  /\ proc \in [Processes -> [pc : Steps, job : {"serve", "handback"}]]
  /\ queue \in [Rows -> {"none", "waiting", "claimed", "failed", "gone"}]
  /\ journal \in [done : SUBSET Rows, importing : SUBSET Calls]
  /\ calls \subseteq Calls
  /\ marked \in BOOLEAN
  /\ owed \subseteq IndexBots
  /\ ranked \in {"none", "fresh", "stale"}
  /\ lines \in [written : SUBSET Times, found : SUBSET Times]
  /\ outcomes \in [acted : [Rows -> Nat], placed : [Calls -> Nat], answered : SUBSET Rows]

(* A 2.x install Rust never ran on, or one that an older build of Rust,    *)
(* which wrote no takeover stamp, claimed back after a handback.           *)
Init ==
  /\ \/ now = 0 /\ lease = "absent" /\ stamps = [back |-> 0, taken |-> 0]
        /\ lines = [written |-> {}, found |-> {}]
     \/ now = 2 /\ lease = "rust" /\ stamps = [back |-> 1, taken |-> 0]
        /\ lines = [written |-> {2}, found |-> {}]
  /\ flock = None
  /\ rails = [pc |-> "down", hand |-> None, ran |-> FALSE]
  /\ proc = [p \in Processes |-> [pc |-> "down", job |-> "serve"]]
  /\ queue = [r \in Rows |-> "none"]
  /\ journal = [done |-> {}, importing |-> {}]
  /\ calls = {} /\ owed = {} /\ marked = FALSE
  /\ ranked = IF lease = "rust" THEN "stale" ELSE "none"
  /\ outcomes = [acted |-> [r \in Rows |-> 0], placed |-> [c \in Calls |-> 0], answered |-> {}]

-----------------------------------------------------------------------------
(* Rails *)

RailsLocks ==
  /\ rails.pc = "down" /\ flock = None /\ now < MaxTime
  /\ flock' = "rails" /\ rails' = [rails EXCEPT !.pc = "booting"]
  /\ UNCHANGED <<now, lease, stamps, proc, queue, journal, calls, marked, owed, ranked, lines, outcomes>>

RailsRefuses ==
  /\ rails.pc = "booting" /\ lease = "rust"
  /\ flock' = None /\ rails' = [rails EXCEPT !.pc = "down"]
  /\ UNCHANGED <<now, lease, stamps, proc, queue, journal, calls, marked, owed, ranked, lines, outcomes>>

(* adopt_handback!, bot by bot: the job is enqueued, then the key removed. *)
(* It is a job of its own, not answered by what an earlier one did.        *)
AdoptEnqueues ==
  /\ rails.pc = "booting" /\ lease = "handed"
  /\ \E b \in owed : /\ queue' = [queue EXCEPT ![b] = "waiting"]
                      /\ rails' = [rails EXCEPT !.pc = "enqueued", !.hand = b]
                      /\ outcomes' = [outcomes EXCEPT !.answered = @ \ {b}]
  /\ UNCHANGED <<now, install, proc, journal, calls, marked, owed, ranked, lines>>

AdoptClears ==
  /\ rails.pc = "enqueued"
  /\ owed' = owed \ {rails.hand}
  /\ rails' = [rails EXCEPT !.pc = "booting", !.hand = None]
  /\ UNCHANGED <<now, install, proc, queue, journal, calls, marked, ranked, lines, outcomes>>

\* Mutant: Rails opens an install Rust owns.
RailsOpensAny ==
  /\ rails.pc = "booting" /\ now < MaxTime
  /\ lease = "handed" => owed = {}
  /\ lease' = "absent" /\ rails' = [rails EXCEPT !.pc = "up"] /\ now' = now + 1
  /\ UNCHANGED <<flock, stamps, proc, queue, journal, calls, marked, owed, ranked, lines, outcomes>>

RailsOpens ==
  /\ rails.pc = "booting" /\ lease # "rust" /\ now < MaxTime
  /\ lease = "handed" => owed = {}
  /\ lease' = "absent" /\ rails' = [rails EXCEPT !.pc = "up"] /\ now' = now + 1
  /\ UNCHANGED <<flock, stamps, proc, queue, journal, calls, marked, owed, ranked, lines, outcomes>>

RailsEnqueues(r) ==
  /\ rails.pc = "up" /\ queue[r] = "none"
  /\ Cardinality({q \in Rows : queue[q] # "none"}) < MaxRows
  /\ queue' = [queue EXCEPT ![r] = "waiting"]
  /\ UNCHANGED <<now, install, rails, proc, journal, calls, marked, owed, ranked, lines, outcomes>>

RailsClaims(r) ==
  /\ rails.pc = "up" /\ rails.hand = None /\ queue[r] = "waiting"
  /\ queue' = [queue EXCEPT ![r] = "claimed"]
  /\ rails' = [rails EXCEPT !.hand = r, !.ran = FALSE]
  /\ UNCHANGED <<now, install, proc, journal, calls, marked, owed, ranked, lines, outcomes>>

(* A call parks while the bot's earlier order is unresolved: the row of its *)
(* retry stands for the one it was claimed from.                           *)
RailsRuns ==
  /\ rails.pc = "up" /\ rails.hand # None /\ ~rails.ran
  /\ rails.hand \in Calls => ~marked
  /\ rails' = [rails EXCEPT !.ran = TRUE]
  /\ outcomes' = [outcomes EXCEPT !.answered = @ \cup {rails.hand},
                   !.placed = [c \in Calls |-> @[c] + IF c = rails.hand THEN 1 ELSE 0]]
  /\ UNCHANGED <<now, install, proc, queue, journal, calls, marked, owed, ranked, lines>>

RailsParks ==
  /\ rails.pc = "up" /\ rails.hand \in Calls /\ ~rails.ran /\ marked
  /\ queue' = [queue EXCEPT ![rails.hand] = "waiting"]
  /\ rails' = [rails EXCEPT !.hand = None]
  /\ UNCHANGED <<now, install, proc, journal, calls, marked, owed, ranked, lines, outcomes>>

RailsFinishes ==
  /\ rails.hand # None /\ rails.ran
  /\ queue' = [queue EXCEPT ![rails.hand] = "gone"]
  /\ rails' = [rails EXCEPT !.hand = None, !.ran = FALSE]
  /\ UNCHANGED <<now, install, proc, journal, calls, marked, owed, ranked, lines, outcomes>>

(* Solid Queue fails the claims of a dead process when it prunes it. *)
RailsPrunes ==
  /\ rails.pc = "up"
  /\ \E r \in Rows \ {rails.hand} :
       queue[r] = "claimed" /\ queue' = [queue EXCEPT ![r] = "failed"]
  /\ UNCHANGED <<now, install, rails, proc, journal, calls, marked, owed, ranked, lines, outcomes>>

(* An order sent and never recorded leaves only its ambiguous line; the    *)
(* daily pull rewrites the index rows Rust attested.                       *)
RailsWritesLine ==
  /\ rails.pc = "up" /\ now \notin lines.written
  /\ lines' = [lines EXCEPT !.written = @ \cup {now}]
  /\ UNCHANGED <<now, install, rails, proc, queue, journal, calls, marked, owed, ranked, outcomes>>

RailsPullsIndex ==
  /\ rails.pc = "up" /\ ranked = "fresh"
  /\ ranked' = "stale"
  /\ UNCHANGED <<now, install, rails, proc, queue, journal, calls, marked, owed, lines, outcomes>>

RailsDies ==
  /\ rails.pc # "down"
  /\ rails' = [pc |-> "down", hand |-> None, ran |-> FALSE] /\ flock' = None
  /\ UNCHANGED <<now, lease, stamps, proc, queue, journal, calls, marked, owed, ranked, lines, outcomes>>

-----------------------------------------------------------------------------
(* A Rust process *)

At(p, step) == proc[p].pc = step
Goes(p, step) == proc' = [proc EXCEPT ![p].pc = step]

\* Mutant: only the owner stamp tells.
NewUnclaimed == lease # "rust"

(* Rails' window is still to be closed: it owned the install last, or a    *)
(* build that stamped no takeover claimed it.                              *)
NewOwnership == \/ lease # "rust"
                \/ stamps.back > 0 /\ stamps.taken < stamps.back

(* lease::lock: run and serve start over; handback runs on an install whose*)
(* window a takeover closed, or, where the owner runs it Again, on any.    *)
Locks(p) ==
  /\ At(p, "down") /\ flock = None /\ now < MaxTime
  /\ flock' = p /\ now' = now + 1
  /\ \/ proc' = [proc EXCEPT ![p] = [pc |-> "locked", job |-> "serve"]]
     \/ /\ ~NewOwnership \/ Again
        /\ proc' = [proc EXCEPT ![p] = [pc |-> "claimed", job |-> "handback"]]
  /\ UNCHANGED <<lease, stamps, rails, queue, journal, calls, marked, owed, ranked, lines, outcomes>>

(* A start refused before the claim gives the lock up and shows a page.    *)
Refuses(p) ==
  /\ At(p, "locked") /\ now < MaxTime
  /\ Goes(p, "refused") /\ flock' = None
  /\ UNCHANGED <<now, lease, stamps, rails, queue, journal, calls, marked, owed, ranked, lines, outcomes>>

\* Mutant: the journal of rows acted on is not consulted.
UnfinishedAgain == {r \in Rows : queue[r] \in {"waiting", "claimed", "failed"}}

Unfinished == {r \in Rows : queue[r] \in {"waiting", "claimed", "failed"}} \ journal.done
Ambiguous  == {c \in Calls \cap Unfinished : queue[c] # "waiting"}
Imported   == ((Calls \cap Unfinished) \ Ambiguous) \ journal.importing
Stopped    == StopJobs \cap Unfinished
HardStop   == Ambiguous # {} /\ marked
(* take_over's transaction: the stops Rails had queued, the markers of the *)
(* calls it may have placed, the waiting calls, and what Rails may have    *)
(* sent unrecorded since the last handback, with the journal of the rows.  *)
Claims(p) ==
  /\ At(p, "locked") /\ ~HardStop
  /\ journal' = [done |-> journal.done \cup Stopped \cup Ambiguous,
                  importing |-> journal.importing \cup Imported]
  /\ calls' = calls \cup Imported
  /\ marked' = (marked \/ Ambiguous # {})
  /\ outcomes' = [outcomes EXCEPT
       !.acted = [r \in Rows |-> @[r] + IF r \in Stopped \cup Ambiguous \cup Imported THEN 1 ELSE 0],
       !.answered = @ \cup Stopped \cup Ambiguous]
  /\ lease' = "rust"
  /\ IF NewOwnership
       THEN /\ stamps' = [stamps EXCEPT !.taken = now]
            /\ ranked' = "none"
            /\ lines' = [lines EXCEPT !.found = @ \cup {t \in lines.written : t > stamps.back /\ t < now}]
       ELSE UNCHANGED <<stamps, ranked, lines>>
  /\ Goes(p, "claimed")
  /\ UNCHANGED <<now, flock, rails, queue, owed>>

(* finish_signal_import: the imported rows go one by one, then the set.    *)
DeletesImported(p) ==
  /\ At(p, "claimed")
  /\ \E c \in journal.importing : queue[c] # "gone" /\ queue' = [queue EXCEPT ![c] = "gone"]
  /\ UNCHANGED <<now, install, rails, proc, journal, calls, marked, owed, ranked, lines, outcomes>>

ClearsImport(p) ==
  /\ At(p, "claimed") /\ \A c \in journal.importing : queue[c] = "gone"
  /\ journal' = [journal EXCEPT !.importing = {}]
  /\ Goes(p, IF proc[p].job = "serve" THEN "emptied" ELSE "imported")
  /\ UNCHANGED <<now, install, rails, queue, calls, marked, owed, ranked, lines, outcomes>>

\* Mutant: a handback leaves the stored calls in the database.
HandKeepsCalls(p) ==
  /\ At(p, "imported")
  /\ Goes(p, "emptied")
  /\ UNCHANGED <<now, install, rails, queue, journal, calls, marked, owed, ranked, lines, outcomes>>

(* hand_back_calls: once every stored call has expired they go, unplaced.  *)
HandExpires(p) ==
  /\ At(p, "imported")
  /\ calls' = {} /\ outcomes' = [outcomes EXCEPT !.answered = @ \cup calls]
  /\ Goes(p, "emptied")
  /\ UNCHANGED <<now, install, rails, queue, journal, marked, owed, ranked, lines>>

\* Mutant: only waiting rows are deleted.
DeletesDoneWaiting(p) ==
  /\ At(p, "emptied")
  /\ \E r \in journal.done : queue[r] = "waiting" /\ queue' = [queue EXCEPT ![r] = "gone"]
  /\ UNCHANGED <<now, install, rails, proc, journal, calls, marked, owed, ranked, lines, outcomes>>

(* finish_queue_work *)
DeletesDone(p) ==
  /\ At(p, "emptied")
  /\ \E r \in journal.done : queue[r] # "gone" /\ queue' = [queue EXCEPT ![r] = "gone"]
  /\ UNCHANGED <<now, install, rails, proc, journal, calls, marked, owed, ranked, lines, outcomes>>

ClearsDone(p) ==
  /\ At(p, "emptied") /\ \A r \in journal.done : queue[r] = "gone"
  /\ journal' = [journal EXCEPT !.done = {}]
  /\ Goes(p, "worked")
  /\ UNCHANGED <<now, install, rails, queue, calls, marked, owed, ranked, lines, outcomes>>

(* The resyncs Rails had not finished, a failed one is over: marked first, *)
(* then deleted.                                                           *)
Resyncs == {b \in IndexBots : queue[b] \in {"waiting", "claimed"}}

\* Mutant: a resync a Rails process had claimed is not marked.
MarksWaiting(p) ==
  /\ At(p, "worked") /\ proc[p].job = "serve"
  /\ owed' = owed \cup {b \in IndexBots : queue[b] = "waiting"}
  /\ Goes(p, "listed")
  /\ UNCHANGED <<now, install, rails, queue, journal, calls, marked, ranked, lines, outcomes>>

MarksResyncs(p) ==
  /\ At(p, "worked") /\ proc[p].job = "serve"
  /\ owed' = owed \cup Resyncs
  /\ Goes(p, "listed")
  /\ UNCHANGED <<now, install, rails, queue, journal, calls, marked, ranked, lines, outcomes>>

DeletesResyncs(p) ==
  /\ At(p, "listed")
  /\ IF Resyncs = {} THEN Goes(p, "running") /\ UNCHANGED queue
     ELSE UNCHANGED proc /\ \E b \in Resyncs : queue' = [queue EXCEPT ![b] = "gone"]
  /\ UNCHANGED <<now, install, rails, journal, calls, marked, owed, ranked, lines, outcomes>>

(* run_signals: no call while an import is unfinished; an expired one goes.*)
RunsCall(p) ==
  /\ At(p, "running") /\ journal.importing = {}
  /\ \E c \in calls : \E places \in BOOLEAN :
       /\ places => ~marked
       /\ calls' = calls \ {c}
       /\ outcomes' = [outcomes EXCEPT !.placed[c] = @ + IF places THEN 1 ELSE 0,
                                        !.answered = @ \cup {c}]
  /\ UNCHANGED <<now, install, rails, proc, queue, journal, marked, owed, ranked, lines>>

RunsResync(p) ==
  /\ At(p, "running")
  /\ \E b \in owed : owed' = owed \ {b} /\ outcomes' = [outcomes EXCEPT !.answered = @ \cup {b}]
  /\ UNCHANGED <<now, install, rails, proc, queue, journal, calls, marked, ranked, lines>>

AttestsRanking(p) ==
  /\ At(p, "running") /\ ranked = "none"
  /\ ranked' = "fresh"
  /\ UNCHANGED <<now, install, rails, proc, queue, journal, calls, marked, owed, lines, outcomes>>

OwnerResolves(p) ==
  /\ At(p, "running") /\ marked
  /\ marked' = FALSE
  /\ UNCHANGED <<now, install, rails, proc, queue, journal, calls, owed, ranked, lines, outcomes>>

\* Mutant: the engine's end frees the lock while its page still serves.
EngineFreesLock(p) ==
  /\ At(p, "running") /\ now < MaxTime
  /\ Goes(p, "serving") /\ flock' = None
  /\ UNCHANGED <<now, lease, stamps, rails, queue, journal, calls, marked, owed, ranked, lines, outcomes>>

(* serve keeps a clone of the lock until the process ends.                 *)
EngineReturns(p) ==
  /\ At(p, "running") /\ now < MaxTime
  /\ Goes(p, "serving")
  /\ UNCHANGED <<now, install, rails, queue, journal, calls, marked, owed, ranked, lines, outcomes>>

(* hand_back_since's last transaction, refused while the journal holds a   *)
(* row.  The row a takeover acted on can not be given back to Rails.       *)
HandsBack(p) ==
  /\ At(p, "worked") /\ proc[p].job = "handback" /\ journal.done = {}
  /\ lease' = "handed" /\ stamps' = [stamps EXCEPT !.back = now]
  /\ Goes(p, "serving")
  /\ UNCHANGED <<now, flock, rails, queue, journal, calls, marked, owed, ranked, lines, outcomes>>

(* Exit, a crash, or a refusal further on: the system drops the lock.      *)
Ends(p) ==
  /\ ~At(p, "down")
  /\ At(p, "serving") \/ At(p, "refused") \/ now < MaxTime
  /\ Goes(p, "down") /\ flock' = IF flock = p THEN None ELSE flock
  /\ UNCHANGED <<now, lease, stamps, rails, queue, journal, calls, marked, owed, ranked, lines, outcomes>>

Finishes(p) ==
  \/ Claims(p) \/ DeletesImported(p) \/ ClearsImport(p) \/ HandExpires(p)
  \/ DeletesDone(p) \/ ClearsDone(p) \/ MarksResyncs(p) \/ DeletesResyncs(p)

RustActs(p) ==
  \/ Locks(p) \/ Refuses(p) \/ Finishes(p) \/ RunsCall(p) \/ RunsResync(p) \/ AttestsRanking(p)
  \/ OwnerResolves(p) \/ EngineReturns(p) \/ HandsBack(p) \/ Ends(p)

RailsActs ==
  \/ RailsLocks \/ RailsRefuses \/ AdoptEnqueues \/ AdoptClears \/ RailsOpens
  \/ RailsRuns \/ RailsParks \/ RailsFinishes \/ RailsPrunes
  \/ RailsWritesLine \/ RailsPullsIndex \/ RailsDies
  \/ \E r \in Rows : RailsEnqueues(r) \/ RailsClaims(r)

Next == RailsActs \/ \E p \in Processes : RustActs(p)

Spec == Init /\ [][Next]_vars

(* The restart policy starts a Rust process that ended again and again, a  *)
(* booting Rails that is refused exits, the owner closes a refusal page,   *)
(* and a step of a start that can run runs.  Nothing makes Rails start,    *)
(* die or work.                                                            *)
FairSpec ==
  /\ Spec
  /\ WF_vars(RailsRefuses)
  /\ SF_vars(\E p \in Processes : Locks(p)) /\ WF_vars(\E p \in Processes : Finishes(p))
  /\ WF_vars(\E p \in Processes : At(p, "refused") /\ Ends(p))

-----------------------------------------------------------------------------
(* Properties *)

Holds(p) == proc[p].pc \notin {"down", "refused"}

(* Two engines never act on one install: while Rails runs, no Rust process *)
(* is past the lock, and one at most is.                                   *)
OneEngine ==
  /\ \A p \in Processes : Holds(p) => rails.pc = "down"
  /\ \A p, q \in Processes : Holds(p) /\ Holds(q) => p = q

(* A row of Rails' queue is acted on by one takeover however often it is   *)
(* cut short, and a call is placed once, by Rails or by Rust.              *)
ActedOnce ==
  /\ \A r \in StopJobs \cup Calls : outcomes.acted[r] <= 1
  /\ \A c \in Calls : outcomes.placed[c] <= 1

(* Work leaves the queue only when it was done, or is stored on its bot.   *)
NothingLost ==
  \A r \in Rows : queue[r] = "gone" => r \in outcomes.answered \cup calls \cup owed

(* A handback never gives Rails a row a takeover has acted on, nor a call  *)
(* that Rust still holds.                                                  *)
HandedClean ==
  rails.pc = "up" =>
    /\ calls = {}
    /\ \A r \in StopJobs \cup Calls : outcomes.acted[r] > 0 => queue[r] = "gone"

(* Once the engine runs, every placement Rails left unrecorded while it    *)
(* owned the install has its obligation (handover.rs:214).                 *)
WindowCollected == \A p \in Processes : At(p, "running") => lines.written \subseteq lines.found

(* And no ranking Rust attested before Rails rewrote the rows is trusted:   *)
(* the window is closed whichever way the install came to Rust.            *)
WindowClosed ==
  /\ WindowCollected
  /\ \A p \in Processes : At(p, "running") => ranked # "stale"

(* One engine acts at a time, Rails only on what Rust handed back.         *)
Actor == CASE rails.pc = "up" -> "rails"
           [] \E p \in Processes : At(p, "running") -> "rust"
           [] OTHER -> "nobody"
Owner == CASE lease = "rust" -> "rust" [] lease = "handed" -> "released" [] OTHER -> "rails"
Owned == INSTANCE Ownership WITH owner <- Owner, actor <- Actor
OwnershipHolds == Owned!Spec

(* What a takeover has acted on leaves the queue and the journal.          *)
JournalEmpties ==
  (journal.done \cup journal.importing # {}) ~> (journal.done \cup journal.importing = {})
=============================================================================
