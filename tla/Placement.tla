------------------------------ MODULE Placement ------------------------------
(***************************************************************************)
(* The placement protocol of one DCA bot (rust/src/engine/placement.rs):   *)
(* a tick of the engine claims a run, commits an order intent, marks it    *)
(* dispatched, sends at most one order request, and records the answer.    *)
(* Whatever interrupts it (a stop, a restart of the bot, a rotated key, a  *)
(* lost reply, a failed write, a killed process) leaves the intent, and a  *)
(* later pass settles it by asking the venue for its client order id.      *)
(*                                                                         *)
(* Every write transaction of the code is one action: model::immediate     *)
(* takes SQLite's write lock before it reads.  The engine is one           *)
(* sequential task, so it has a single program counter; the web server,    *)
(* the operator's command, the venue and the clock interleave with it.     *)
(*                                                                         *)
(* The orders are the REGULAR legs of a run: the orders of a rebalance, a  *)
(* liquidation, a redeploy and a webhook call add their own claims to the  *)
(* same protocol and are other components.                                 *)
(***************************************************************************)
EXTENDS Integers, FiniteSets

CONSTANTS
  Orders,          \* client order ids: a fresh uuid for every intent
  Keys,            \* the API key ids the user may store for the exchange
  None,            \* no intent, no order
  DeadlineSent,    \* the venue drops an order after its deadline (Kraken)
  AbsenceProvable, \* a lookup that finds nothing may prove absence
  SendWindow,      \* an intent may be sent until `at` + SendWindow ...
  Reach,           \* ... and no request leaves after `at` + Reach
  NetDelay,        \* a request that left is accepted within NetDelay or never
  AbsenceAfter,    \* what a lookup waits after a deadline the venue enforces
  Margin,          \* what it waits after `at` and the process start otherwise
  Frozen,          \* when a process frozen mid-write delivers its request late
  MaxTime,         \* bound: the last instant of the clock
  MaxGeneration,   \* bound: starts and stops of the bot
  MaxTicks,        \* bound: claims of a tick
  MaxVersion,      \* bound: edits of the stored API key
  MaxCrashes       \* bound: kills of the process

ASSUME KeysAssumption == Keys # {} /\ {"none", "refused"} \cap Keys = {}

ASSUME FlagsAssumption ==
  /\ DeadlineSent \in BOOLEAN /\ AbsenceProvable \in BOOLEAN
  /\ Frozen \in {"never", "killed", "resumed"}

ASSUME TimesAssumption ==
  /\ {SendWindow, Reach, NetDelay, AbsenceAfter, Margin} \subseteq Nat
  /\ SendWindow <= Reach /\ 0 < AbsenceAfter
  /\ Reach + NetDelay < Margin

ASSUME BoundsAssumption ==
  {MaxTime, MaxGeneration, MaxTicks, MaxVersion, MaxCrashes} \subseteq Nat

VARIABLES
  now,      \* the wall clock
  status,   \* bots.status
  gen,      \* transient_data.run_generation
  ticks,    \* transient_data.tick_generation
  cred,     \* the stored API key: its id, and the version of its ciphertext
  intent,   \* transient_data.rust_placement
  used,     \* the client order ids ever drawn
  rows,     \* accepted transaction rows written for each order
  failed,   \* the orders with a failed transaction row
  pc,       \* the engine's place in the tick in hand
  run,      \* the run identity the tick carries
  handle,   \* the credentials its venue handle was built from
  held,     \* the intent it holds in memory
  reply,    \* the answer it has read and not yet recorded
  asked,    \* when the lookup in hand started
  since,    \* when the process started
  crashes,  \* kills of the process so far
  wire,     \* order requests on their way to the venue
  verdict,  \* what the venue made of each order
  sent      \* history: order requests that left, by order

database == <<status, gen, ticks, cred, intent, used, rows, failed>>
engine   == <<pc, run, handle, held, reply, asked, since, crashes>>
venue    == <<wire, verdict, sent>>
vars     == <<now, database, engine, venue>>

Status  == {"created", "scheduled", "stopped", "deleted",
            "executing", "retrying", "waiting", "archived"}
Working == {"scheduled", "executing", "retrying", "waiting"}

Run        == [gen : Nat, tick : Nat]
Credential == [key : Keys, version : Nat]
Intent     == [id : Orders, at : Nat, run : Run, key : Keys, dispatched : BOOLEAN]
Request    == [id : Orders, key : Keys, left : Nat, deadline : Nat]

ASSUME NoneAssumption == None \notin Intent \cup Run \cup Credential

CurrentRun   == [gen |-> gen, tick |-> ticks]
\* mutant: a restart within the same instant is the same run
OwnsRunOfAnyGeneration(r) == status \in Working /\ ticks = r.tick
OwnsRun(r)   == status \in Working /\ CurrentRun = r
StillPending == intent # None /\ held # None /\ intent.id = held.id
CredentialIsCurrent == handle = cred

\* The venue may still accept an order whose request is on the wire.
Deliverable(w) == now <= w.left + NetDelay /\ (DeadlineSent => now <= w.deadline)
Reachable(o)   == \E w \in wire : w.id = o /\ Deliverable(w)
Booked(o)      == verdict[o] \in Keys

Init ==
  /\ now = 0 /\ status \in {"created", "scheduled"} /\ gen = 0 /\ ticks = 0
  /\ cred \in [key : Keys, version : {0}]
  /\ intent = None /\ used = {} /\ rows = [o \in Orders |-> 0] /\ failed = {}
  /\ pc = "down" /\ run = None /\ handle = None /\ held = None
  /\ reply = "none" /\ asked = 0 /\ since = 0 /\ crashes = 0
  /\ wire = {} /\ verdict = [o \in Orders |-> "none"]
  /\ sent = [o \in Orders |-> 0]

-----------------------------------------------------------------------------
(* The web server: the owner's lifecycle actions and edits of the API key. *)

Start ==
  /\ status \in {"created", "stopped"} /\ gen < MaxGeneration
  /\ status' = "scheduled" /\ gen' = gen + 1
  /\ UNCHANGED <<now, ticks, cred, intent, used, rows, failed, engine, venue>>

Stop ==
  /\ status # "deleted" /\ gen < MaxGeneration
  /\ status' = "stopped" /\ gen' = gen + 1
  /\ UNCHANGED <<now, ticks, cred, intent, used, rows, failed, engine, venue>>

Delete == \* the generation does not move: a deleted bot never runs again
  /\ status # "deleted" /\ status' = "deleted"
  /\ UNCHANGED <<now, gen, ticks, cred, intent, used, rows, failed, engine, venue>>

Archive == \* a stop, and the archived status over it
  /\ status \notin {"deleted", "archived"} /\ gen < MaxGeneration
  /\ status' = "archived" /\ gen' = gen + 1
  /\ UNCHANGED <<now, ticks, cred, intent, used, rows, failed, engine, venue>>

Unarchive ==
  /\ status = "archived" /\ status' = "stopped"
  /\ UNCHANGED <<now, gen, ticks, cred, intent, used, rows, failed, engine, venue>>

\* mutant: the settings page saves a key whatever is unsettled
EditKeyAnyTime(k) ==
  /\ cred.version < MaxVersion
  /\ cred' = [key |-> k, version |-> cred.version + 1]
  /\ UNCHANGED <<now, status, gen, ticks, intent, used, rows, failed, engine, venue>>

\* A new secret for the same key id, or another key id after a removal; refused while an
\* order is unresolved.  (It is also refused while a recorded order is open, which the
\* rows of this module do not tell.)
EditKey(k) ==
  /\ intent = None /\ cred.version < MaxVersion
  /\ cred' = [key |-> k, version |-> cred.version + 1]
  /\ UNCHANGED <<now, status, gen, ticks, intent, used, rows, failed, engine, venue>>

-----------------------------------------------------------------------------
(* The tick of a due bot without an unresolved order. *)

\* Puts the task between ticks.
Idle == /\ pc' = "idle" /\ held' = None /\ reply' = "none"
        /\ run' = None /\ handle' = None /\ asked' = 0
        /\ UNCHANGED <<since, crashes>>

\* A status left by a tick that an error cut short goes back to scheduled.
Unstick == status' = IF status \in {"executing", "waiting"} THEN "scheduled" ELSE status

\* The pass loads the bot and builds its venue handle.
LoadBot ==
  /\ pc = "idle" /\ status \in Working /\ intent = None /\ Unstick
  /\ pc' = "loaded" /\ run' = CurrentRun /\ handle' = cred
  /\ UNCHANGED <<now, gen, ticks, cred, intent, used, rows, failed,
                 held, reply, asked, since, crashes, venue>>

\* The claim: the checkpoint is taken under a new tick generation.
Claim ==
  /\ pc = "loaded" /\ OwnsRun(run) /\ CredentialIsCurrent /\ ticks < MaxTicks
  /\ ticks' = ticks + 1 /\ run' = [run EXCEPT !.tick = ticks + 1]
  /\ pc' = "claimed"
  /\ UNCHANGED <<now, status, gen, cred, intent, used, rows, failed,
                 handle, held, reply, asked, since, crashes, venue>>

Execute ==
  /\ pc = "claimed" /\ OwnsRun(run) /\ status \in {"scheduled", "retrying"}
  /\ status' = "executing" /\ pc' = "sizing"
  /\ UNCHANGED <<now, gen, ticks, cred, intent, used, rows, failed,
                 run, handle, held, reply, asked, since, crashes, venue>>

\* begin_checked: the intent of one leg, committed before anything is sent.
Begin(o) ==
  /\ pc = "sizing" /\ o \notin used
  /\ intent = None /\ CredentialIsCurrent
  /\ status = "executing" /\ CurrentRun = run
  /\ LET i == [id |-> o, at |-> now, run |-> run, key |-> handle.key, dispatched |-> FALSE]
     IN  intent' = i /\ held' = i
  /\ used' = used \cup {o} /\ pc' = "begun"
  /\ UNCHANGED <<now, status, gen, ticks, cred, rows, failed,
                 run, handle, reply, asked, since, crashes, venue>>

\* send, under its write lock: the run still owns the intent.
Dispatch ==
  /\ pc = "begun" /\ OwnsRun(held.run) /\ StillPending /\ CredentialIsCurrent
  /\ intent' = [intent EXCEPT !.dispatched = TRUE] /\ pc' = "dispatched"
  /\ UNCHANGED <<now, status, gen, ticks, cred, used, rows, failed,
                 run, handle, held, reply, asked, since, crashes, venue>>

\* send, fenced: the invocation discards its own intent unless it was dispatched.
Fence ==
  /\ pc = "begun" /\ ~(OwnsRun(held.run) /\ StillPending)
  /\ intent' = IF StillPending /\ ~intent.dispatched THEN None ELSE intent
  /\ Idle
  /\ UNCHANGED <<now, status, gen, ticks, cred, used, rows, failed, venue>>

\* Nothing leaves: splits restated under the lock, a refused preparation, the send
\* window or the transport's bound passed, no connection; or the engine's own limit
\* refusal, which is recorded as a rejection.
NotSent ==
  /\ \/ pc \in {"begun", "dispatched", "sending"} /\ reply' = "not_sent"
     \/ pc = "sending" /\ reply' = "rejected"
  /\ pc' = "answered"
  /\ UNCHANGED <<now, database, run, handle, held, asked, since, crashes, venue>>

CheckWindow ==
  /\ pc = "dispatched" /\ now <= held.at + SendWindow
  /\ pc' = "sending"
  /\ UNCHANGED <<now, database, run, handle, held, reply, asked, since, crashes, venue>>

\* The request leaves under the handle's key.
Leave ==
  /\ wire' = wire \cup {[id |-> held.id, key |-> handle.key, left |-> now,
                         deadline |-> held.at + SendWindow]}
  /\ sent' = [sent EXCEPT ![held.id] = @ + 1]
  /\ UNCHANGED verdict

\* mutant: the transport sends the request again
TransmitAgain ==
  /\ pc = "sending" /\ (now <= held.at + Reach \/ Frozen = "resumed")
  /\ Leave /\ pc' \in {"sending", "awaiting"}
  /\ UNCHANGED <<now, database, run, handle, held, reply, asked, since, crashes>>

Transmit ==
  /\ pc = "sending" /\ (now <= held.at + Reach \/ Frozen = "resumed")
  /\ Leave /\ pc' = "awaiting"
  /\ UNCHANGED <<now, database, run, handle, held, reply, asked, since, crashes>>

\* The answer, or none within the request's time: then the outcome is unknown.
Answer ==
  /\ pc = "awaiting" /\ pc' = "answered"
  /\ \/ Booked(held.id) /\ reply' \in {"accepted", "ambiguous"}
     \/ verdict[held.id] = "refused"
        /\ reply' \in {"rejected", "safe", "below_minimum", "ambiguous"}
     \/ verdict[held.id] = "none" /\ reply' = "ambiguous"
  /\ UNCHANGED <<now, database, run, handle, held, asked, since, crashes, venue>>

-----------------------------------------------------------------------------
(* Recording the answer, and the end of the tick. *)

\* An accepted order is recorded even when a stop or a restart took the run.
RecordAccepted ==
  /\ pc = "answered" /\ reply = "accepted" /\ StillPending
  /\ rows' = [rows EXCEPT ![held.id] = @ + 1]
  /\ intent' = None /\ held' = None /\ reply' = "none" /\ pc' = "sizing"
  /\ UNCHANGED <<now, status, gen, ticks, cred, used, failed,
                 run, handle, asked, since, crashes, venue>>

\* mutant: a lost reply counts as a refusal
RecordRejectedOrLost ==
  /\ pc = "answered" /\ reply \in {"rejected", "safe", "ambiguous"}
  /\ CredentialIsCurrent /\ StillPending
  /\ failed' = IF reply = "rejected" THEN failed \cup {held.id} ELSE failed
  /\ intent' = None /\ held' = None /\ reply' = "none" /\ pc' = "failing"
  /\ UNCHANGED <<now, status, gen, ticks, cred, used, rows,
                 run, handle, asked, since, crashes, venue>>

\* A definitive refusal: a failed row, unless the refusal is a safe transient one.
RecordRejected ==
  /\ pc = "answered" /\ reply \in {"rejected", "safe"}
  /\ CredentialIsCurrent /\ StillPending
  /\ failed' = IF reply = "rejected" THEN failed \cup {held.id} ELSE failed
  /\ intent' = None /\ held' = None /\ reply' = "none" /\ pc' = "failing"
  /\ UNCHANGED <<now, status, gen, ticks, cred, used, rows,
                 run, handle, asked, since, crashes, venue>>

RecordNotSent ==
  /\ pc = "answered" /\ reply = "not_sent" /\ StillPending
  /\ intent' = None /\ held' = None /\ reply' = "none" /\ pc' = "failing"
  /\ UNCHANGED <<now, status, gen, ticks, cred, used, rows, failed,
                 run, handle, asked, since, crashes, venue>>

\* The venue's "too small": the leg is skipped and the loop goes on.
RecordBelowMinimum ==
  /\ pc = "answered" /\ reply = "below_minimum"
  /\ CredentialIsCurrent /\ StillPending
  /\ intent' = None /\ held' = None /\ reply' = "none" /\ pc' = "sizing"
  /\ UNCHANGED <<now, status, gen, ticks, cred, used, rows, failed,
                 run, handle, asked, since, crashes, venue>>

\* mutant: a lost reply drops the intent
ForgetAmbiguous ==
  /\ pc = "answered" /\ reply = "ambiguous"
  /\ intent' = None /\ held' = None /\ reply' = "none" /\ pc' = "failing"
  /\ UNCHANGED <<now, status, gen, ticks, cred, used, rows, failed, run, handle, asked, since, crashes, venue>>

\* An unknown outcome: the intent stays, and the tick fails.
KeepAmbiguous ==
  /\ pc = "answered" /\ reply = "ambiguous"
  /\ held' = None /\ reply' = "none" /\ pc' = "failing"
  /\ UNCHANGED <<now, database, run, handle, asked, since, crashes, venue>>

\* Every leg is placed or skipped: waiting while the funds are read, then scheduled.
FinishLegs ==
  /\ pc = "sizing" /\ OwnsRun(run)
  /\ status' = "waiting" /\ pc' = "tail"
  /\ UNCHANGED <<now, gen, ticks, cred, intent, used, rows, failed,
                 run, handle, held, reply, asked, since, crashes, venue>>

\* The end of a tick, also of one whose splits are not reconciled and that placed nothing.
EndTick ==
  /\ pc \in {"claimed", "tail"} /\ OwnsRun(run) /\ CredentialIsCurrent
  /\ status' = "scheduled" /\ Idle
  /\ UNCHANGED <<now, gen, ticks, cred, intent, used, rows, failed, venue>>

\* unclaim: the ledger went stale under the legs; the tick gives its claim back.
Unclaim ==
  /\ pc = "sizing" /\ OwnsRun(run) /\ CredentialIsCurrent
  /\ status' \in {"scheduled", "retrying"} /\ Idle
  /\ UNCHANGED <<now, gen, ticks, cred, intent, used, rows, failed, venue>>

\* Where an error leaves the tick: between two of its write transactions.
Interruptible == {"loaded", "claimed", "sizing", "begun", "answered", "failing",
                  "tail", "asking", "found", "absent"}

\* A failure of the tick: the bot waits for its retry, the intent as it is.
FailTick ==
  /\ pc \in {"claimed", "sizing", "begun", "answered", "failing", "tail"}
  /\ OwnsRun(run) /\ CredentialIsCurrent
  /\ status' = "retrying" /\ Idle
  /\ UNCHANGED <<now, gen, ticks, cred, intent, used, rows, failed, venue>>

\* The key was edited under the tick: back to scheduled, run again at once.
RetryCredentials ==
  /\ pc \in Interruptible /\ ~CredentialIsCurrent /\ OwnsRun(run)
  /\ status' = "scheduled" /\ Idle
  /\ UNCHANGED <<now, gen, ticks, cred, intent, used, rows, failed, venue>>

\* The run was fenced, a lookup failed, or a write failed and nothing was kept.
Abandon ==
  /\ pc \in Interruptible /\ Idle
  /\ UNCHANGED <<now, database, venue>>

-----------------------------------------------------------------------------
(* Recovery: the unresolved intent is asked for by its client order id,     *)
(* whatever the bot's status, and only in the account it was sent to.       *)

\* mutant: only a bot that works is reconciled
AskIfWorking ==
  /\ pc = "idle" /\ intent # None /\ status \in Working /\ intent.key = cred.key
  /\ pc' = "asking" /\ held' = intent /\ handle' = cred /\ run' = CurrentRun
  /\ asked' = now /\ Unstick
  /\ UNCHANGED <<now, gen, ticks, cred, intent, used, rows, failed,
                 reply, since, crashes, venue>>

Ask ==
  /\ pc = "idle" /\ intent # None /\ intent.key = cred.key
  /\ pc' = "asking" /\ held' = intent /\ handle' = cred /\ run' = CurrentRun
  /\ asked' = now /\ Unstick
  /\ UNCHANGED <<now, gen, ticks, cred, intent, used, rows, failed,
                 reply, since, crashes, venue>>

LookupAnswers ==
  /\ pc = "asking"
  /\ pc' = IF verdict[held.id] = handle.key THEN "found" ELSE "absent"
  /\ UNCHANGED <<now, database, run, handle, held, reply, asked, since, crashes, venue>>

\* Only a lookup that started after this instant can prove absence.
Latest(a, b) == IF a >= b THEN a ELSE b
\* mutant: the start of the process does not count
AbsentFromIntentAlone(i) == IF DeadlineSent THEN i.at + SendWindow + AbsenceAfter
                                            ELSE i.at + Margin
AbsentFrom(i) == IF DeadlineSent THEN i.at + SendWindow + AbsenceAfter
                                 ELSE Latest(i.at, since) + Margin

\* mutant: the recovered order stays unresolved
ConcludeFoundTwice ==
  /\ pc = "found" /\ CredentialIsCurrent /\ StillPending
  /\ rows' = [rows EXCEPT ![held.id] = @ + 1] /\ UNCHANGED intent
  /\ \/ UNCHANGED <<status, gen>>
     \/ status \notin {"deleted", "archived"} /\ gen < MaxGeneration
        /\ status' = "stopped" /\ gen' = gen + 1
  /\ Idle
  /\ UNCHANGED <<now, ticks, cred, used, failed, venue>>

\* The order is recorded, and its fill may reach the amount limit and stop the bot.
ConcludeFound ==
  /\ pc = "found" /\ CredentialIsCurrent /\ StillPending
  /\ rows' = [rows EXCEPT ![held.id] = @ + 1] /\ intent' = None
  /\ \/ UNCHANGED <<status, gen>>
     \/ status \notin {"deleted", "archived"} /\ gen < MaxGeneration
        /\ status' = "stopped" /\ gen' = gen + 1
  /\ Idle
  /\ UNCHANGED <<now, ticks, cred, used, failed, venue>>

ConcludeAbsent ==
  /\ pc = "absent" /\ AbsenceProvable /\ asked >= AbsentFrom(held)
  /\ CredentialIsCurrent /\ StillPending
  /\ intent' = None /\ Idle
  /\ UNCHANGED <<now, status, gen, ticks, cred, used, rows, failed, venue>>

\* resolve-placement takes the engine's lock, so the engine is down: a person who
\* looked at the venue says what became of the order.
OperatorResolves ==
  /\ pc = "down" /\ intent # None
  /\ \/ Booked(intent.id) /\ rows[intent.id] = 0
        /\ rows' = [rows EXCEPT ![intent.id] = @ + 1]
     \/ ~Booked(intent.id) /\ ~Reachable(intent.id) /\ UNCHANGED rows
  /\ intent' = None
  /\ UNCHANGED <<now, status, gen, ticks, cred, used, failed, engine, venue>>

-----------------------------------------------------------------------------
(* The process, the venue and the clock. *)

Restart ==
  /\ pc = "down" /\ pc' = "idle" /\ since' = now
  /\ UNCHANGED <<now, database, run, handle, held, reply, asked, crashes, venue>>

Die == /\ crashes < MaxCrashes /\ crashes' = crashes + 1
       /\ pc' = "down" /\ held' = None /\ reply' = "none"
       /\ run' = None /\ handle' = None /\ asked' = 0
       /\ UNCHANGED <<now, database, since>>

Crash == pc # "down" /\ Die /\ UNCHANGED venue

\* Frozen mid-write, resumed later and killed before any answer was read.
DieMidWrite == pc = "sending" /\ Frozen # "never" /\ Leave /\ Die

Accept(w) ==
  /\ w \in wire /\ Deliverable(w) /\ wire' = wire \ {w}
  /\ verdict' = [verdict EXCEPT ![w.id] = w.key]
  /\ UNCHANGED <<now, database, engine, sent>>

Refuse(w) ==
  /\ w \in wire /\ wire' = wire \ {w}
  /\ verdict' = [verdict EXCEPT ![w.id] = IF Booked(w.id) THEN @ ELSE "refused"]
  /\ UNCHANGED <<now, database, engine, sent>>

Tick ==
  /\ now < MaxTime /\ now' = now + 1
  /\ UNCHANGED <<database, engine, venue>>

-----------------------------------------------------------------------------

Web == Start \/ Stop \/ Delete \/ Archive \/ Unarchive
       \/ \E k \in Keys : EditKey(k)

Place == LoadBot \/ Claim \/ Execute \/ (\E o \in Orders : Begin(o))
         \/ Dispatch \/ Fence \/ NotSent \/ CheckWindow \/ Transmit \/ Answer

Record == RecordAccepted \/ RecordRejected \/ RecordNotSent
          \/ RecordBelowMinimum \/ KeepAmbiguous

Finish == FinishLegs \/ EndTick \/ Unclaim \/ FailTick \/ RetryCredentials \/ Abandon

Recover == Ask \/ LookupAnswers \/ ConcludeFound \/ ConcludeAbsent

Venue == \E w \in wire : Accept(w) \/ Refuse(w)

Next == Web \/ Place \/ Record \/ Finish \/ Recover \/ OperatorResolves
        \/ Restart \/ Crash \/ DieMidWrite \/ Venue \/ Tick

Spec == Init /\ [][Next]_vars

\* The clock runs, the process is started again, the engine takes its steps, and
\* neither the venue's lookup nor the database fails for ever.
FairSpec ==
  /\ Spec /\ WF_vars(Tick) /\ WF_vars(Restart) /\ WF_vars(Place \/ Record \/ Finish)
  /\ SF_vars(Ask) /\ SF_vars(LookupAnswers)
  /\ SF_vars(ConcludeFound) /\ SF_vars(ConcludeAbsent)

-----------------------------------------------------------------------------

TypeOK ==
  /\ now \in Nat /\ status \in Status /\ gen \in Nat /\ ticks \in Nat
  /\ cred \in Credential /\ intent \in Intent \cup {None}
  /\ used \subseteq Orders /\ rows \in [Orders -> Nat] /\ failed \subseteq Orders
  /\ pc \in Interruptible \cup {"down", "idle", "dispatched", "sending", "awaiting"}
  /\ run \in Run \cup {None} /\ handle \in Credential \cup {None} /\ held \in Intent \cup {None}
  /\ reply \in {"none", "accepted", "ambiguous", "rejected", "safe",
                "below_minimum", "not_sent"}
  /\ asked \in Nat /\ since \in Nat /\ crashes \in Nat
  /\ wire \subseteq Request
  /\ verdict \in [Orders -> Keys \cup {"none", "refused"}]
  /\ sent \in [Orders -> Nat]

\* No order of the user's is lost: one the venue has, or may still accept, is the
\* unresolved intent or has its transaction row ("not placed" is never concluded of it).
NoOrderLost ==
  \A o \in Orders : Booked(o) \/ Reachable(o) =>
    (intent # None /\ intent.id = o) \/ rows[o] > 0

\* What is recorded happened, once: a transaction row is an order the venue accepted,
\* written by one of the reply, the recovery and the operator; a failed row never is one.
RecordedOnceAndTrue ==
  \A o \in Orders :
    /\ rows[o] <= 1
    /\ rows[o] = 1 => Booked(o)
    /\ o \in failed => ~Booked(o) /\ ~Reachable(o)

\* An order request leaves at most once for a client order id.
SentAtMostOnce == \A o \in Orders : sent[o] <= 1

Fenced(o) == /\ intent # None /\ intent.id = o /\ ~intent.dispatched
             /\ ~OwnsRun(intent.run)

\* A stop, a delete or an archive committed before the dispatch keeps the order from
\* the venue: it stays barred until it is dropped unsent, even when the bot was started
\* again within the same instant.
StoppedOrderNeverLeaves ==
  [][\A o \in Orders : Fenced(o) => sent'[o] = 0 /\ (Fenced(o)' \/ intent' = None)]_vars

\* While an order is unaccounted for the bot sends no other one.
OneUnresolvedOrder ==
  [][\A o, p \in Orders : o # p /\ sent'[o] # sent[o] =>
       ~(Reachable(p) \/ (Booked(p) /\ rows[p] = 0))]_vars

\* An unresolved order is settled: its key stays stored until it is.  The one exception is
\* the model's: absence that only becomes provable after the end of its clock.
EventuallySettled ==
  intent # None ~> intent = None \/ AbsentFrom(intent) > MaxTime

-----------------------------------------------------------------------------
(* What the owner sees of an order, and the ledger it implements.           *)

Fate(o) == IF intent # None /\ intent.id = o THEN "open"
           ELSE IF rows[o] > 0 THEN "recorded"
           ELSE IF o \in used THEN "void" ELSE "new"

Ledger == INSTANCE OrderLedger WITH
            fate <- [o \in Orders |-> Fate(o)],
            accepted <- {o \in Orders : Booked(o)}

\* Every behaviour of the placement protocol is one of the order ledger: an order is
\* recorded only when the venue has it and given up only when the venue never will.
ImplementsLedger == Ledger!Spec
=============================================================================
