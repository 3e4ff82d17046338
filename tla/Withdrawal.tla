----------------------------- MODULE Withdrawal -----------------------------
(***************************************************************************)
(* Withdrawal rules (rust/src/engine/withdrawal, rust/src/engine/rules and *)
(* rust/src/web/rules/service): every four hours, and when a rule starts,  *)
(* each active rule gets an evaluation row.  The engine's serial phase     *)
(* recovers the attempts a crash left, then takes the evaluations in id    *)
(* order: it reads the venue, consumes the row and persists an attempt in  *)
(* one transaction, checks the attempt again, marks it dispatched, sends   *)
(* it once and settles the reply.  What cannot be proved either way stays  *)
(* unresolved until an operator decides it while the process is down.      *)
(*                                                                         *)
(* Every committed write is one action.  The web server and the sync jobs  *)
(* change rules and keys between any two of them.  A rule is one user,     *)
(* venue and asset; all rules of the model share one withdrawal key.  The  *)
(* amount, the fee and the listing are not kept: a read may end either way.*)
(***************************************************************************)
EXTENDS Integers, FiniteSets, Functions

CONSTANTS
  Rules,            \* the withdrawal rules
  Destinations,     \* where a rule may send
  None,
  MaxEvaluations,   \* bound: evaluation rows ever inserted
  MaxEdits,         \* bound: writes of the web to one rule
  MaxKeys,          \* bound: withdrawal keys ever entered
  MaxCrashes        \* bound: kills of the process

ASSUME BoundsAssumption == /\ MaxEvaluations \in Nat /\ MaxEdits \in Nat
                           /\ MaxKeys \in Nat \ {0} /\ MaxCrashes \in Nat
ASSUME RulesAssumption == IsFiniteSet(Rules)

VARIABLES
  life,         \* the process: up, down, or the engine's own error that ended it
  crashes,      \* kills so far
  rule,         \* rules: status, destination, and updated_at as a revision
  key,          \* the withdrawal key: its version, and whether its status is correct
  evaluation,   \* rust_rule_evaluations, by id
  intent,       \* rust_withdrawal_intents, by rule
  log,          \* rule_logs of the attempts, by the evaluation that made them
  engine,       \* the phase: where it is and what it read
  venue,        \* what became of the request of an evaluation
  sends,        \* history: requests that left, by evaluation
  barred        \* history: evaluations whose rule was stopped before they were dispatched

web  == <<rule, key>>
sent == <<venue, sends>>
vars == <<life, crashes, web, evaluation, intent, log, engine, sent, barred>>

Ids == 1..MaxEvaluations

Rule       == [status : {"on", "off", "deleted"}, destination : Destinations,
               revision : 0..MaxEdits]
Key        == [version : 1..MaxKeys, valid : BOOLEAN]
Evaluation == [rule : Rules, outcome : {"pending", "skipped", "logged", "intent"}]
Intent     == [state : {"prepared", "dispatched", "unresolved"}, id : Ids,
               destination : Destinations, key : 1..MaxKeys]
Engine     == [pc : {"idle", "recover", "lookup", "pick", "opened", "reading", "prepared",
                     "listing", "send", "reply"},
               owners : SUBSET Rules, todo : SUBSET Ids, at : Ids \cup {0},
               row : Rule \cup {None}, key : 0..MaxKeys]
Idle       == [pc |-> "idle", owners |-> {}, todo |-> {}, at |-> 0, row |-> None, key |-> 0]
Verdicts   == {"withdrew", "failed"}
ASSUME NoneAssumption == None \notin Rules \cup Rule \cup Evaluation \cup Intent

On            == {r \in Rules : rule[r].status = "on"}
Made          == Cardinality({e \in Ids : evaluation[e] # None})
Pending(e)    == evaluation[e] # None /\ evaluation[e].outcome = "pending"
Current(v)    == key.valid /\ key.version = v
Open          == {"dispatched", "unresolved"}
In(r, states) == intent[r] # None /\ intent[r].state \in states
HasPreparedOnly(r) == In(r, {"prepared"})   \* mutant: unresolved attempts do not count
HasIntent(r)  == intent[r] # None
Attempt(e)    == evaluation[e] # None /\ \E r \in Rules : In(r, Open) /\ intent[r].id = e
\* The rule whose evaluation the engine works on.
Mine          == evaluation[engine.at].rule

\* An evaluation of each rule of `on`; the statement inserts them in any order.
Insert(on) ==
  LET new == (Made + 1)..(Made + Cardinality(on)) IN
  /\ new \subseteq Ids
  /\ \E f \in Bijection(new, on) :
       evaluation' = [e \in Ids |->
         IF e \in new THEN [rule |-> f[e], outcome |-> "pending"] ELSE evaluation[e]]
Consume(ids, outcome) ==
  evaluation' = [e \in Ids |->
    IF e \in ids /\ Pending(e) THEN [evaluation[e] EXCEPT !.outcome = outcome]
    ELSE evaluation[e]]
ConsumeAll(r) == Consume({e \in Ids : Pending(e) /\ evaluation[e].rule = r}, "skipped")

Record(e, verdict) == log' = log \cup {<<e, verdict>>}
Remove(r)          == intent' = [intent EXCEPT ![r] = None]
Uncertain(r)       == intent' = [intent EXCEPT ![r].state = "unresolved"]
Goes(pc)           == engine' = [engine EXCEPT !.pc = pc]
OnToNext           == engine' = [engine EXCEPT !.pc = "pick", !.at = 0, !.row = None, !.key = 0]

Init ==
  /\ life = "down" /\ crashes = 0
  /\ rule \in [Rules -> [status : {"off"}, destination : Destinations, revision : {0}]]
  /\ key = [version |-> 1, valid |-> TRUE]
  /\ evaluation = [e \in Ids |-> None] /\ intent = [r \in Rules |-> None]
  /\ log = {} /\ engine = Idle
  /\ venue = [e \in Ids |-> "none"] /\ sends = [e \in Ids |-> 0] /\ barred = {}

-----------------------------------------------------------------------------
(* The web server.  A command reads the rule, awaits the venue's listing   *)
(* when it has a destination to check, and writes in a transaction that    *)
(* makes every check again and refuses a rule that changed meanwhile: its  *)
(* effect is that of the last transaction.                                 *)

Write(r, status, d) ==
  /\ life = "up" /\ rule[r].revision < MaxEdits
  /\ rule' = [rule EXCEPT ![r] = [status |-> status, destination |-> d,
                                  revision |-> rule[r].revision + 1]]
  /\ UNCHANGED <<life, crashes, key, intent, log, engine, sent>>

\* mutant: a rule may start again while its attempt is open
StartAnyway(r, d) ==
  /\ rule[r].status = "off" /\ key.valid
  /\ Write(r, "on", d) /\ Insert(On \cup {r}) /\ UNCHANGED barred

Update(r, d) ==
  /\ rule[r].status = "off" /\ ~HasIntent(r)
  /\ Write(r, "off", d) /\ UNCHANGED <<evaluation, barred>>

\* Every active rule gets an evaluation, not only the one that starts.
Start(r, d) ==
  /\ rule[r].status = "off" /\ ~HasIntent(r) /\ key.valid
  /\ Write(r, "on", d) /\ Insert(On \cup {r}) /\ UNCHANGED barred

\* The one command an open attempt does not bar.
Stop(r) ==
  /\ rule[r].status = "on"
  /\ Write(r, "off", rule[r].destination) /\ ConsumeAll(r)
  /\ barred' = barred \cup {e \in Ids : /\ evaluation[e] # None /\ evaluation[e].rule = r
                                        /\ sends[e] = 0 /\ ~Attempt(e)}

Delete(r) ==
  /\ rule[r].status = "off" /\ ~HasIntent(r)
  /\ Write(r, "deleted", rule[r].destination) /\ ConsumeAll(r) /\ UNCHANGED barred

Create(r, d) ==
  /\ rule[r].status = "deleted" /\ ~HasIntent(r) /\ key.valid
  /\ Write(r, "off", d) /\ ConsumeAll(r) /\ UNCHANGED barred

Command(r) == \/ \E d \in Destinations : Update(r, d) \/ Start(r, d) \/ Create(r, d)
              \/ Stop(r) \/ Delete(r)

\* Another key is entered; or the same one is saved again, or found incorrect, and
\* waits for a check that may find it correct.
ReplaceKey ==
  /\ life = "up" /\ key.version < MaxKeys
  /\ key' = [version |-> key.version + 1, valid |-> TRUE]
  /\ UNCHANGED <<life, crashes, rule, evaluation, intent, log, engine, sent, barred>>
CheckKey ==
  /\ life = "up" /\ key' = [key EXCEPT !.valid = ~key.valid]
  /\ UNCHANGED <<life, crashes, rule, evaluation, intent, log, engine, sent, barred>>

-----------------------------------------------------------------------------
(* The phase: open attempts first. *)

\* The four-hourly schedule may have fired since the last pass.
PhaseBegins ==
  /\ life = "up" /\ engine.pc = "idle"
  /\ Insert(On) \/ UNCHANGED evaluation
  /\ engine' = [Idle EXCEPT !.pc = "recover", !.owners = {r \in Rules : intent[r] # None}]
  /\ UNCHANGED <<life, crashes, web, intent, log, sent, barred>>

Recovering(r) == life = "up" /\ engine.pc = "recover" /\ r \in engine.owners
Recovered(r)  == engine' = [engine EXCEPT !.pc = "recover", !.at = 0,
                                          !.owners = engine.owners \ {r}]

\* mutant: what was dispatched is dropped as what was only prepared
DropAny(r) ==
  /\ Recovering(r) /\ In(r, {"prepared", "dispatched"})
  /\ Remove(r) /\ Recovered(r)
  /\ UNCHANGED <<life, crashes, web, evaluation, log, sent, barred>>
\* Nothing left: the crash came before the send was marked.
DropLeftOver(r) ==
  /\ Recovering(r) /\ In(r, {"prepared"})
  /\ Remove(r) /\ Recovered(r)
  /\ UNCHANGED <<life, crashes, web, evaluation, log, sent, barred>>

\* An attempt whose key changed cannot be looked up.
LeaveUnresolved(r) ==
  /\ Recovering(r) /\ In(r, Open) /\ ~Current(intent[r].key)
  /\ Uncertain(r) /\ Recovered(r)
  /\ UNCHANGED <<life, crashes, web, evaluation, log, sent, barred>>

LookUp(r) ==
  /\ Recovering(r) /\ In(r, Open) /\ Current(intent[r].key)
  /\ Uncertain(r)
  /\ engine' = [engine EXCEPT !.pc = "lookup", !.at = intent[r].id]
  /\ UNCHANGED <<life, crashes, web, evaluation, log, sent, barred>>

\* mutant: absence taken for proof
AbsenceProves(r) ==
  /\ life = "up" /\ engine.pc = "lookup" /\ In(r, {"unresolved"}) /\ intent[r].id = engine.at
  /\ Current(intent[r].key) /\ Remove(r)
  /\ IF venue[engine.at] = "took" THEN Record(engine.at, "withdrew")
     ELSE Record(engine.at, "failed")
  /\ Recovered(r)
  /\ UNCHANGED <<life, crashes, web, evaluation, sent, barred>>
\* Only the venues that answer for one client id exactly settle an attempt, and only
\* by finding it: that it is not found proves nothing.
LookedUp(r) ==
  /\ life = "up" /\ engine.pc = "lookup" /\ In(r, {"unresolved"}) /\ intent[r].id = engine.at
  /\ \/ UNCHANGED <<intent, log>>
     \/ /\ Current(intent[r].key) /\ Remove(r)
        /\ \/ venue[engine.at] = "took"   /\ Record(engine.at, "withdrew")
           \/ venue[engine.at] = "undone" /\ Record(engine.at, "failed")
  /\ Recovered(r)
  /\ UNCHANGED <<life, crashes, web, evaluation, sent, barred>>

-----------------------------------------------------------------------------
(* The phase: evaluations, from a snapshot of the pending ones. *)

ReadEvaluations ==
  /\ life = "up" /\ engine.pc = "recover" /\ engine.owners = {}
  /\ engine' = [Idle EXCEPT !.pc = "pick", !.todo = {e \in Ids : Pending(e)}]
  /\ UNCHANGED <<life, crashes, web, evaluation, intent, log, sent, barred>>

PhaseEnds ==
  /\ life = "up" /\ engine.pc = "pick" /\ engine.todo = {}
  /\ engine' = Idle
  /\ UNCHANGED <<life, crashes, web, evaluation, intent, log, sent, barred>>

Picks(e) == /\ life = "up" /\ engine.pc = "pick"
            /\ e \in engine.todo /\ \A f \in engine.todo : e <= f
Rest(e)  == engine.todo \ {e}

\* mutant: the evaluation of a stopped rule is passed over
PassOver(e) ==
  /\ Picks(e) /\ rule[evaluation[e].rule].status # "on"
  /\ engine' = [engine EXCEPT !.todo = Rest(e)]
  /\ UNCHANGED <<life, crashes, web, evaluation, intent, log, sent, barred>>
\* evaluation_rule: a rule that is not active, or whose row cannot be read.
Unfit(e) == Consume({e}, IF rule[evaluation[e].rule].status = "on" THEN "logged" ELSE "skipped")
Skip(e) ==
  /\ Picks(e) /\ Unfit(e)
  /\ engine' = [engine EXCEPT !.todo = Rest(e)]
  /\ UNCHANGED <<life, crashes, web, intent, log, sent, barred>>

Take(e) ==
  /\ Picks(e) /\ rule[evaluation[e].rule].status = "on"
  /\ engine' = [engine EXCEPT !.pc = "opened", !.todo = Rest(e), !.at = e,
                 !.row = rule[evaluation[e].rule],
                 !.key = IF key.valid THEN key.version ELSE 0]
  /\ UNCHANGED <<life, crashes, web, evaluation, intent, log, sent, barred>>

\* The engine ends by its own error, and the process with it: `?` carries the error out
\* of the phase, the pass and the run loop.
Ends(error) ==
  /\ life' = error /\ engine' = Idle
  /\ UNCHANGED <<crashes, web, evaluation, intent, log, sent, barred>>

\* evaluate's first transaction: consumed meanwhile, unfit meanwhile, or an attempt is
\* open and the evaluation stays for a later pass.
Claim ==
  /\ life = "up" /\ engine.pc = "opened" /\ engine.key # 0
  /\ LET e == engine.at IN
     \/ /\ ~Pending(e) \/ (rule[Mine].status = "on" /\ HasIntent(Mine))
        /\ OnToNext
        /\ UNCHANGED <<life, crashes, web, evaluation, intent, log, sent, barred>>
     \/ /\ Pending(e) /\ Unfit(e) /\ OnToNext
        /\ UNCHANGED <<life, crashes, web, intent, log, sent, barred>>
     \/ /\ Pending(e) /\ rule[Mine].status = "on" /\ ~HasIntent(Mine)
        /\ \/ /\ key.valid => Current(engine.key)
              /\ engine' = [engine EXCEPT !.pc = "reading", !.row = rule[Mine],
                              !.key = IF key.valid THEN key.version ELSE 0]
              /\ UNCHANGED <<life, crashes, web, evaluation, intent, log, sent, barred>>
           \/ key.valid /\ ~Current(engine.key) /\ Ends("CredentialsChanged")

\* Between the reads of the venue, and in the transaction that ends an evaluation, the
\* rule must be as read and the key it was read with current.  Without a valid key
\* there is nothing to read.
Reading   == life = "up" /\ (engine.pc = "reading" \/ (engine.pc = "opened" /\ engine.key = 0))
KeyAsRead == engine.key = 0 \/ Current(engine.key)
Unchanged == KeyAsRead /\ rule[Mine] = engine.row

\* A read failed, the balance is below the threshold, the address is not listed ...
LogOutcome ==
  /\ Reading /\ Unchanged
  /\ Consume({engine.at}, "logged") /\ OnToNext
  /\ UNCHANGED <<life, crashes, web, intent, log, sent, barred>>

Fenced == /\ Reading /\ ~Unchanged
          /\ Ends(IF KeyAsRead THEN "RunFenced" ELSE "CredentialsChanged")

\* A rule whose asset has no available ticker, or a setting out of range.  Its evaluation
\* is not consumed, so the next start takes it again, as often as the data stays bad.
BadData ==
  /\ life = "up" /\ engine.pc = "reading" /\ engine.key # 0
  /\ Ends("Data")

Persist(outcome) ==
  /\ life = "up" /\ engine.pc = "reading" /\ engine.key # 0 /\ Unchanged
  /\ Pending(engine.at) /\ ~HasIntent(Mine)
  /\ Consume({engine.at}, outcome)
  /\ intent' = [intent EXCEPT ![Mine] =
       [state |-> "prepared", id |-> engine.at, destination |-> rule[Mine].destination,
        key |-> engine.key]]
  /\ Goes("prepared")
  /\ UNCHANGED <<life, crashes, web, log, sent, barred>>
PrepareOnly == Persist("pending")   \* mutant: the evaluation is not consumed
\* The evaluation is consumed and the attempt persisted in one transaction.
Prepare == Persist("intent")

-----------------------------------------------------------------------------
(* The phase: one attempt. *)

Sendable == rule[Mine].status = "on" /\ Current(intent[Mine].key)
Attempting(pc, state) == /\ life = "up" /\ engine.pc = pc
                         /\ In(Mine, {state}) /\ intent[Mine].id = engine.at

CheckPrepared ==
  /\ Attempting("prepared", "prepared") /\ Sendable
  /\ Goes("listing")
  /\ UNCHANGED <<life, crashes, web, evaluation, intent, log, sent, barred>>

\* Stopped; or the key changed, its seconds passed, or its destination is not listed.
DropPrepared ==
  /\ Attempting("prepared", "prepared") \/ Attempting("listing", "prepared")
  /\ Remove(Mine) /\ OnToNext
  /\ IF rule[Mine].status = "on" THEN Record(engine.at, "failed") ELSE UNCHANGED log
  /\ UNCHANGED <<life, crashes, web, evaluation, sent, barred>>

Mark(state) ==
  /\ Attempting("listing", "prepared") /\ Sendable
  /\ rule[Mine].destination = intent[Mine].destination
  /\ intent' = [intent EXCEPT ![Mine].state = state]
  /\ Goes("send")
  /\ UNCHANGED <<life, crashes, web, evaluation, log, sent, barred>>

\* Chosen again from the rule as it is now, under the lock of the state change.
MarkDispatched == Mark("dispatched")

Send ==
  /\ Attempting("send", "dispatched")
  /\ venue' = [venue EXCEPT ![engine.at] = "flying"]
  /\ sends' = [sends EXCEPT ![engine.at] = @ + 1]
  /\ Goes("reply")
  /\ UNCHANGED <<life, crashes, web, evaluation, intent, log, barred>>

\* A reply under a key that is no longer current proves nothing.
Settle(verdict) ==
  /\ IF verdict # "unclear" /\ Current(intent[Mine].key)
     THEN Record(engine.at, verdict) /\ Remove(Mine)
     ELSE Uncertain(Mine) /\ UNCHANGED log
  /\ OnToNext
  /\ UNCHANGED <<life, crashes, web, evaluation, sent, barred>>

\* The adapter refuses the request before it leaves.
NotSent == Attempting("send", "dispatched") /\ Settle("failed")

\* The venue's answer, or none: a timeout, an unreadable body, a rejection that is not
\* definitive, an id already recorded.
Reply ==
  /\ Attempting("reply", "dispatched")
  /\ \/ venue[engine.at] = "took" /\ Settle("withdrew")
     \/ venue[engine.at] = "refused" /\ Settle("failed")
     \/ Settle("unclear")

Attempts == \/ CheckPrepared \/ DropPrepared \/ MarkDispatched
            \/ Send \/ NotSent \/ Reply
Phase    == \/ PhaseBegins
            \/ \E r \in Rules : \/ DropLeftOver(r) \/ LeaveUnresolved(r)
                                \/ LookUp(r) \/ LookedUp(r)
            \/ ReadEvaluations \/ PhaseEnds
            \/ \E e \in Ids : Skip(e) \/ Take(e)
            \/ Claim \/ LogOutcome \/ Fenced \/ Prepare
            \/ Attempts

-----------------------------------------------------------------------------
(* The venue, the operator and the process. *)

\* A request arrives, or not; the venue takes it or refuses it, and may undo it later.
Venue(e) ==
  /\ \/ /\ venue[e] = "flying"
        /\ \E answer \in {"took", "refused", "lost"} : venue' = [venue EXCEPT ![e] = answer]
     \/ venue[e] = "took" /\ venue' = [venue EXCEPT ![e] = "undone"]
  /\ UNCHANGED <<life, crashes, web, evaluation, intent, log, engine, sends, barred>>

\* The operator's command takes the engine's lock: the process is down.  What it
\* states is taken to be true.
Operator(r) ==
  /\ life # "up" /\ In(r, Open) /\ Remove(r)
  /\ \/ venue[intent[r].id] \in {"took", "undone"} /\ Record(intent[r].id, "withdrew")
     \/ /\ venue[intent[r].id] \notin {"flying", "took"}
        /\ Record(intent[r].id, "failed")
  /\ UNCHANGED <<life, crashes, web, evaluation, engine, sent, barred>>

\* At a start the rules of a venue this build does not withdraw from are stopped; their
\* evaluations stay.
SetAside(r) ==
  /\ life # "up" /\ rule[r].status = "on" /\ rule[r].revision < MaxEdits
  /\ rule' = [rule EXCEPT ![r].status = "off", ![r].revision = @ + 1]
  /\ UNCHANGED <<life, crashes, key, evaluation, intent, log, engine, sent, barred>>

StartUp ==
  /\ life # "up" /\ life' = "up"
  /\ UNCHANGED <<crashes, web, evaluation, intent, log, engine, sent, barred>>

Crash ==
  /\ life = "up" /\ crashes < MaxCrashes
  /\ life' = "down" /\ crashes' = crashes + 1 /\ engine' = Idle
  /\ UNCHANGED <<web, evaluation, intent, log, sent, barred>>

Next ==
  \/ \E r \in Rules : Command(r) \/ Operator(r) \/ SetAside(r)
  \/ ReplaceKey \/ CheckKey
  \/ Phase \/ BadData
  \/ \E e \in Ids : Venue(e)
  \/ StartUp \/ Crash

Spec == Init /\ [][Next]_vars

\* The process is started again whenever it ends (docker's restart policy, or the user
\* of the desktop shell), and the loop runs on: every call to a venue returns or times out.
Fairness == WF_vars(StartUp) /\ WF_vars(Phase)
\* No one withdraws and restores the key for ever, each time in the middle of a check.
KeySettles == <>[][key' = key]_vars
FairSpec == Spec /\ Fairness /\ KeySettles

-----------------------------------------------------------------------------
(* Properties. *)

\* Every variable keeps its type: rows have only states the queries know.
TypeOK ==
  /\ life \in {"up", "down", "RunFenced", "CredentialsChanged", "Data"} /\ crashes \in 0..MaxCrashes
  /\ rule \in [Rules -> Rule] /\ key \in Key
  /\ evaluation \in [Ids -> Evaluation \cup {None}]
  /\ intent \in [Rules -> Intent \cup {None}]
  /\ log \subseteq Ids \X Verdicts /\ engine \in Engine
  /\ venue \in [Ids -> {"none", "flying", "took", "refused", "lost", "undone"}]
  /\ sends \in [Ids -> Nat] /\ barred \subseteq Ids

\* Money that may have left is never forgotten: a request the venue has or may still
\* get is logged as a withdrawal, or its attempt is on file for recovery or the operator.
NoAttemptLost ==
  \A e \in Ids : venue[e] \in {"flying", "took"} => <<e, "withdrew">> \in log \/ Attempt(e)

\* One evaluation never sends twice, whatever crashed in between.
SentOnce == \A e \in Ids : sends[e] <= 1

\* What the log says of an attempt stays true: a logged withdrawal was taken by the
\* venue, a logged failure never will be, and no attempt has both rows.
LogIsTrue ==
  /\ \A e \in Ids : <<e, "withdrew">> \in log => venue[e] \in {"took", "undone"}
  /\ \A e \in Ids : <<e, "failed">> \in log => venue[e] \notin {"flying", "took"}
  /\ \A e \in Ids : ~({<<e, "withdrew">>, <<e, "failed">>} \subseteq log)

\* What a stop found undispatched never leaves, not even when the rule starts again.
NothingAfterStop == \A e \in barred : sends[e] = 0

\* A failure of one job is recorded with it and the next is taken: every evaluation ends,
\* unless an earlier attempt of its rule waits for the operator (evaluation_rule).
FailuresRecorded ==
  \A e \in Ids : Pending(e) ~> (~Pending(e) \/ In(evaluation[e].rule, {"unresolved"}))

\* So it is, whatever is stopped, edited, replaced or killed, unless bad data of a rule ends
\* the engine again and again, each time before its evaluation is consumed (evaluate).
EvaluationsEnd == []<>(life = "Data") \/ FailuresRecorded

\* A rule stopped by its user never ends the engine.
StopEndsNoEngine == life # "RunFenced"

-----------------------------------------------------------------------------
(* What the rules promise the owner of the money. *)

\* The attempt an evaluation became, as the owner sees it.
Became(e) == evaluation[e] # None /\ evaluation[e].outcome = "intent"
OnFile(e)  == \E r \in Rules : intent[r] # None /\ intent[r].id = e
Fate(e)    == IF ~Became(e) THEN "new"
              ELSE IF OnFile(e) THEN "open"
              ELSE IF <<e, "withdrew">> \in log THEN "withdrew"
              ELSE IF <<e, "failed">> \in log THEN "failed" ELSE "void"
Owner(e)   == IF Became(e) THEN evaluation[e].rule ELSE None
Request(e) == IF venue[e] = "took" THEN "taken"
              ELSE IF venue[e] \in {"flying", "refused", "lost"} THEN "left" ELSE venue[e]

Ledger == INSTANCE WithdrawalLedger WITH
  fate <- [e \in Ids |-> Fate(e)], owner <- [e \in Ids |-> Owner(e)],
  request <- [e \in Ids |-> Request(e)]

\* Every withdrawal of a rule keeps to the ledger, whatever is edited, stopped, replaced
\* or killed meanwhile: one is open at a time, so that no balance is read while an
\* earlier request may or may not have left; none leaves or is taken once it has ended;
\* and what the log says at its end is so.
ImplementsLedger == Ledger!Spec

=============================================================================
