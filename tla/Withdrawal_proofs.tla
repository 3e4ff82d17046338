--------------------------- MODULE Withdrawal_proofs ---------------------------
(***************************************************************************)
(* Proofs about Withdrawal, for every finite set of rules, every number of *)
(* evaluations, edits, keys and kills.                                     *)
(***************************************************************************)
EXTENDS Withdrawal, FiniteSetTheorems, TLAPS

\* The evaluation rows are numbered from 1 without a gap.
Dense == \E n \in 0..MaxEvaluations : \A e \in Ids : evaluation[e] # None <=> e <= n

\* What the phase works on is an evaluation that was made.
Hand ==
  /\ \A e \in engine.todo : evaluation[e] # None
  /\ engine.pc \in {"opened", "reading", "prepared", "listing", "send", "reply"} =>
       engine.at \in Ids /\ evaluation[engine.at] # None
  /\ engine.pc = "lookup" => engine.at \in Ids
  /\ engine.pc = "send" => sends[engine.at] = 0

\* An attempt was made by an evaluation of its rule, which it consumed.
MadeBy(r) ==
  intent[r] # None =>
    /\ evaluation[intent[r].id] # None /\ evaluation[intent[r].id].rule = r
    /\ evaluation[intent[r].id].outcome = "intent"

\* Requests are sent by evaluations that became attempts, once, and not while one is
\* only prepared.
Requested(e) ==
  /\ sends[e] <= 1 /\ (venue[e] = "none" <=> sends[e] = 0)
  /\ sends[e] # 0 => evaluation[e] # None /\ evaluation[e].outcome = "intent"
  /\ \A r \in Rules : In(r, {"prepared"}) /\ intent[r].id = e => sends[e] = 0

\* A logged attempt is over, and its row says what became of it.
Logged(e) ==
  /\ \A verdict \in Verdicts : <<e, verdict>> \in log =>
       /\ evaluation[e] # None /\ evaluation[e].outcome = "intent"
       /\ \A r \in Rules : intent[r] # None => intent[r].id # e
  /\ <<e, "withdrew">> \in log => venue[e] \in {"took", "undone"} /\ <<e, "failed">> \notin log
  /\ <<e, "failed">> \in log => venue[e] \notin {"flying", "took"}

\* What the venue has or may still get is logged or on file.
Kept(e) == venue[e] \in {"flying", "took"} => <<e, "withdrew">> \in log \/ Attempt(e)

\* A barred evaluation is consumed; an attempt it made is only prepared, and its rule
\* does not start again beside it.
Barred(e) ==
  e \in barred =>
    /\ sends[e] = 0 /\ evaluation[e] # None /\ evaluation[e].outcome # "pending"
    /\ \A r \in Rules : intent[r] # None /\ intent[r].id = e =>
         intent[r].state = "prepared" /\ rule[r].status # "on"

Orderly(e) == Requested(e) /\ Logged(e) /\ Kept(e) /\ Barred(e)

IInv ==
  /\ TypeOK /\ Dense /\ Hand
  /\ \A r \in Rules : MadeBy(r)
  /\ \A e \in Ids : Orderly(e)

-----------------------------------------------------------------------------
(* Evaluations: rows are added and consumed, and never change otherwise. *)

\* Every row that is there stays, with its rule; a consumed one as it is.
Evolves ==
  /\ evaluation' \in [Ids -> Evaluation \cup {None}]
  /\ \A e \in Ids : evaluation[e] # None =>
       /\ evaluation'[e] # None /\ evaluation'[e].rule = evaluation[e].rule
       /\ evaluation[e].outcome # "pending" => evaluation'[e] = evaluation[e]
  /\ Dense'

LEMMA InsertEvolves ==
  ASSUME TypeOK, Dense, NEW on \in SUBSET Rules, Insert(on)
  PROVE  Evolves
<1> USE BoundsAssumption, RulesAssumption, NoneAssumption
<1>1. PICK n \in 0..MaxEvaluations : \A e \in Ids : evaluation[e] # None <=> e <= n
  BY DEF Dense
<1>2. Made = n
  <2>1. {e \in Ids : evaluation[e] # None} = 1..n
    BY <1>1 DEF Ids
  <2>2. Cardinality(1..n) = n
    BY FS_Interval
  <2> QED BY <2>1, <2>2 DEF Made
<1>3. Cardinality(on) \in Nat
  BY FS_Subset, FS_CardinalityType
<1> DEFINE new == (n + 1)..(n + Cardinality(on))
<1>4. PICK f \in Bijection(new, on) :
        new \subseteq Ids /\ evaluation' = [e \in Ids |->
          IF e \in new THEN [rule |-> f[e], outcome |-> "pending"] ELSE evaluation[e]]
  BY <1>2 DEF Insert
<1>5. new \subseteq Ids
  BY <1>4
<1>6. f \in [new -> on]
  BY DEF Bijection, Injection
<1>7. \A e \in Ids : e \in new => evaluation'[e] \in Evaluation
  BY <1>4, <1>6 DEF Evaluation
<1>8. \A e \in Ids : e \notin new => evaluation'[e] = evaluation[e]
  BY <1>4
<1>9. evaluation' \in [Ids -> Evaluation \cup {None}]
  BY <1>4, <1>7, <1>8 DEF TypeOK
<1>10. \A e \in Ids : e \in new => evaluation[e] = None
  BY <1>1, <1>3 DEF Ids
<1>11. Dense'
  <2> DEFINE m == n + Cardinality(on)
  <2>1. m \in 0..MaxEvaluations
    BY <1>3, <1>5 DEF Ids
  <2>2. ASSUME NEW e \in Ids PROVE evaluation'[e] # None <=> e <= m
    BY <1>1, <1>3, <1>7, <1>8 DEF Ids
  <2> HIDE DEF m
  <2> QED BY <2>1, <2>2 DEF Dense, Ids
<1> QED BY <1>8, <1>9, <1>10, <1>11 DEF Evolves

LEMMA ConsumeEvolves ==
  ASSUME TypeOK, Dense, NEW ids, NEW outcome \in {"skipped", "logged", "intent"},
         Consume(ids, outcome)
  PROVE  /\ Evolves
         /\ \A e \in ids \cap Ids : evaluation[e] # None => evaluation'[e].outcome # "pending"
         /\ \A e \in ids \cap Ids : Pending(e) => evaluation'[e].outcome = outcome
         /\ \A e \in Ids : e \notin ids \/ ~Pending(e) => evaluation'[e] = evaluation[e]
<1> USE NoneAssumption
<1>1. \A e \in Ids : e \notin ids \/ ~Pending(e) => evaluation'[e] = evaluation[e]
  BY DEF Consume
<1>2. ASSUME NEW e \in Ids, e \in ids, Pending(e)
      PROVE  /\ evaluation'[e] = [rule |-> evaluation[e].rule, outcome |-> outcome]
             /\ evaluation'[e] \in Evaluation
  <2>1. evaluation[e] \in Evaluation
    BY <1>2 DEF TypeOK, Pending
  <2>2. evaluation'[e] = [evaluation[e] EXCEPT !.outcome = outcome]
    BY <1>2 DEF Consume
  <2> QED BY <2>1, <2>2 DEF Evaluation
<1>3. \A e \in Ids : evaluation'[e] \in Evaluation \cup {None}
  BY <1>1, <1>2 DEF TypeOK
<1>4. evaluation' \in [Ids -> Evaluation \cup {None}]
  BY <1>3 DEF Consume
<1>5. \A e \in Ids : evaluation'[e] # None <=> evaluation[e] # None
  BY <1>1, <1>2 DEF Pending
<1>6. Dense'
  BY <1>5 DEF Dense
<1> QED BY <1>1, <1>2, <1>4, <1>5, <1>6 DEF Evolves, Pending

LEMMA StandsEvolves ==
  ASSUME TypeOK, Dense, UNCHANGED evaluation
  PROVE  Evolves
BY DEF TypeOK, Dense, Evolves

\* An evaluation that ends because its rule is not there to evaluate it.
LEMMA UnfitEvolves ==
  ASSUME TypeOK, Dense, NEW e \in Ids, Unfit(e)
  PROVE  Evolves
<1>1. PICK outcome \in {"skipped", "logged"} : Consume({e}, outcome)
  BY DEF Unfit
<1> QED BY <1>1, ConsumeEvolves

-----------------------------------------------------------------------------
(* Types. *)

LEMMA IdleTyped == Idle \in Engine
BY BoundsAssumption DEF Idle, Engine

LEMMA OnToNextTyped ==
  ASSUME TypeOK, OnToNext
  PROVE  engine' \in Engine
<1>1. 0 \in Ids \cup {0} /\ None \in Rule \cup {None} /\ 0 \in 0..MaxKeys
  BY BoundsAssumption
<1>2. engine \in Engine /\ engine' = [engine EXCEPT !.pc = "pick", !.at = 0, !.row = None, !.key = 0]
  BY DEF TypeOK, OnToNext
<1> QED BY <1>1, <1>2 DEF Engine

LEMMA RowsTyped ==
  ASSUME TypeOK
  PROVE  /\ \A r \in Rules : rule[r] \in Rule
         /\ key.version \in 1..MaxKeys /\ key.valid \in BOOLEAN
         /\ engine.pc \in {"idle", "recover", "lookup", "pick", "opened", "reading", "prepared",
                           "listing", "send", "reply"}
         /\ engine.owners \in SUBSET Rules /\ engine.todo \in SUBSET Ids
         /\ engine.at \in Ids \cup {0} /\ engine.row \in Rule \cup {None}
         /\ engine.key \in 0..MaxKeys
         /\ \A e \in Ids : evaluation[e] # None => evaluation[e].rule \in Rules
         /\ \A r \in Rules : intent[r] # None => /\ intent[r] \in Intent /\ intent[r].id \in Ids
                                                 /\ intent[r].key \in 1..MaxKeys
BY DEF TypeOK, Rule, Key, Engine, Evaluation, Intent

LEMMA RuleWritten ==
  ASSUME TypeOK, NEW r \in Rules, NEW status \in {"on", "off", "deleted"},
         NEW d \in Destinations, Write(r, status, d)
  PROVE  /\ rule' \in [Rules -> Rule] /\ rule'[r].status = status
         /\ \A q \in Rules \ {r} : rule'[q] = rule[q]
<1>1. rule[r] \in Rule /\ rule[r].revision < MaxEdits
  BY DEF TypeOK, Write
<1>2. [status |-> status, destination |-> d, revision |-> rule[r].revision + 1] \in Rule
  BY <1>1, BoundsAssumption DEF Rule
<1> QED BY <1>2 DEF TypeOK, Write

LEMMA StateChanges ==
  ASSUME TypeOK, NEW r \in Rules, intent[r] # None, NEW state \in Open,
         intent' = [intent EXCEPT ![r].state = state]
  PROVE  /\ intent' \in [Rules -> Intent \cup {None}]
         /\ intent'[r] # None /\ intent'[r].state = state /\ intent'[r].id = intent[r].id
         /\ \A q \in Rules \ {r} : intent'[q] = intent[q]
<1> USE NoneAssumption
<1>1. intent[r] \in Intent
  BY DEF TypeOK
<1>2. intent'[r] = [intent[r] EXCEPT !.state = state]
  BY DEF TypeOK
<1>3. [intent[r] EXCEPT !.state = state] \in Intent
  BY <1>1 DEF Intent, Open
<1>4. intent'[r].state = state /\ intent'[r].id = intent[r].id
  BY <1>1, <1>2 DEF Intent
<1> QED BY <1>2, <1>3, <1>4 DEF TypeOK

LEMMA IntentRemoved ==
  ASSUME TypeOK, NEW r \in Rules, Remove(r)
  PROVE  /\ intent' \in [Rules -> Intent \cup {None}] /\ intent'[r] = None
         /\ \A q \in Rules \ {r} : intent'[q] = intent[q]
BY DEF TypeOK, Remove

LEMMA Recorded ==
  ASSUME TypeOK, NEW e \in Ids, NEW verdict \in Verdicts, Record(e, verdict)
  PROVE  log' \subseteq Ids \X Verdicts
BY DEF TypeOK, Record

-----------------------------------------------------------------------------
(* Every step. *)

\* What the four commands that write an evaluation do to it.
LEMMA CommandEvolves ==
  ASSUME TypeOK, Dense, NEW r \in Rules, Command(r)
  PROVE  Evolves
<1>1. ASSUME NEW d \in Destinations, Update(r, d) PROVE Evolves
  BY <1>1, StandsEvolves DEF Update
<1>2. ASSUME NEW d \in Destinations, Start(r, d) PROVE Evolves
  <2>1. Insert(On \cup {r})
    BY <1>2 DEF Start
  <2>2. On \cup {r} \in SUBSET Rules
    BY DEF On
  <2> QED BY <2>1, <2>2, InsertEvolves
<1>3. ASSUME ConsumeAll(r) PROVE Evolves
  BY <1>3, ConsumeEvolves DEF ConsumeAll
<1> QED BY <1>1, <1>2, <1>3 DEF Command, Create, Stop, Delete

LEMMA PhaseEvolves ==
  ASSUME TypeOK, Dense, Hand, Phase
  PROVE  Evolves
<1>1. CASE PhaseBegins
  <2>1. CASE UNCHANGED evaluation
    BY <2>1, StandsEvolves
  <2>2. CASE Insert(On)
    BY <2>2, InsertEvolves DEF On
  <2> QED BY <1>1, <2>1, <2>2 DEF PhaseBegins
<1>2. ASSUME NEW r \in Rules, DropLeftOver(r) \/ LeaveUnresolved(r) \/ LookUp(r) \/ LookedUp(r)
      PROVE  Evolves
  BY <1>2, StandsEvolves DEF DropLeftOver, LeaveUnresolved, LookUp, LookedUp
<1>3. CASE ReadEvaluations \/ PhaseEnds \/ Fenced \/ Attempts
  BY <1>3, StandsEvolves DEF ReadEvaluations, PhaseEnds, Fenced, Ends, Attempts, CheckPrepared, DropPrepared,
     MarkDispatched, Mark, Send, NotSent, Reply, Settle
<1>4. ASSUME NEW e \in Ids, Skip(e) \/ Take(e)
      PROVE  Evolves
  BY <1>4, UnfitEvolves, StandsEvolves DEF Skip, Take
<1>5. CASE Claim
  <2>1. CASE UNCHANGED evaluation
    BY <2>1, StandsEvolves
  <2>2. CASE Unfit(engine.at)
    BY <1>5, <2>2, UnfitEvolves DEF Claim, Hand
  <2> QED BY <1>5, <2>1, <2>2 DEF Claim, Ends
<1>6. CASE LogOutcome
  BY <1>6, ConsumeEvolves DEF LogOutcome
<1>7. CASE Prepare
  BY <1>7, ConsumeEvolves DEF Prepare, Persist
<1> QED BY <1>1, <1>2, <1>3, <1>4, <1>5, <1>6, <1>7 DEF Phase

LEMMA NextEvolves ==
  ASSUME TypeOK, Dense, Hand, [Next]_vars
  PROVE  Evolves
<1>1. ASSUME NEW r \in Rules, Operator(r) \/ SetAside(r) PROVE Evolves
  BY <1>1, StandsEvolves DEF Operator, SetAside
<1>2. CASE ReplaceKey \/ CheckKey \/ BadData \/ StartUp \/ Crash
  BY <1>2, StandsEvolves DEF ReplaceKey, CheckKey, BadData, Ends, StartUp, Crash
<1>3. ASSUME NEW e \in Ids, Venue(e) PROVE Evolves
  BY <1>3, StandsEvolves DEF Venue
<1>4. CASE UNCHANGED vars
  BY <1>4, StandsEvolves DEF vars
<1> QED BY <1>1, <1>2, <1>3, <1>4, CommandEvolves, PhaseEvolves DEF Next

\* The rows of rules, keys and evaluations a step leaves alone keep their types.
LEMMA CommandTyped ==
  ASSUME TypeOK, Evolves, NEW r \in Rules, Command(r)
  PROVE  TypeOK'
<1>1. ASSUME NEW status \in {"on", "off", "deleted"}, NEW d \in Destinations, Write(r, status, d),
             barred' \subseteq Ids
      PROVE  TypeOK'
  BY <1>1, RuleWritten DEF Write, TypeOK, Evolves, sent
<1>2. rule[r].destination \in Destinations
  BY DEF TypeOK, Rule
<1>3. barred \subseteq Ids
  BY DEF TypeOK
<1> QED BY <1>1, <1>2, <1>3 DEF Command, Update, Start, Create, Stop, Delete

LEMMA RecoveryTyped ==
  ASSUME TypeOK, Evolves,
         NEW r \in Rules, DropLeftOver(r) \/ LeaveUnresolved(r) \/ LookUp(r) \/ LookedUp(r)
  PROVE  TypeOK'
<1>1. intent[r] # None /\ intent[r].id \in Ids
  BY RowsTyped DEF DropLeftOver, LeaveUnresolved, LookUp, LookedUp, In
<1>2. intent' \in [Rules -> Intent \cup {None}]
  BY <1>1, StateChanges, IntentRemoved DEF DropLeftOver, LeaveUnresolved, LookUp, LookedUp, Uncertain, Open, TypeOK
<1>3. engine' \in Engine
  <2>1. CASE LookUp(r)
    BY <1>1, <2>1 DEF LookUp, TypeOK, Engine
  <2>2. CASE Recovered(r)
    <3>1. engine \in Engine /\ engine.owners \ {r} \in SUBSET Rules
      BY DEF TypeOK, Engine
    <3> QED BY <2>2, <3>1 DEF Recovered, Engine
  <2> QED BY <2>1, <2>2 DEF DropLeftOver, LeaveUnresolved, LookedUp
<1>4. log' \subseteq Ids \X Verdicts
  BY <1>1, Recorded DEF DropLeftOver, LeaveUnresolved, LookUp, LookedUp, Verdicts, TypeOK
<1>5. UNCHANGED <<life, crashes, rule, key, venue, sends, barred>>
  BY DEF DropLeftOver, LeaveUnresolved, LookUp, LookedUp, web, sent
<1> QED BY <1>2, <1>3, <1>4, <1>5 DEF TypeOK, Evolves

LEMMA EvaluationTyped ==
  ASSUME TypeOK, Hand, Evolves,
         \/ PhaseBegins \/ ReadEvaluations \/ PhaseEnds \/ (\E e \in Ids : Skip(e) \/ Take(e))
         \/ Claim \/ LogOutcome \/ Fenced
  PROVE  TypeOK'
<1>1. engine' \in Engine
  <2>1. CASE PhaseBegins \/ ReadEvaluations \/ PhaseEnds \/ Fenced
    BY <2>1, IdleTyped DEF PhaseBegins, ReadEvaluations, PhaseEnds, Fenced, Ends, Engine
  <2>2. ASSUME NEW e \in Ids, Skip(e) PROVE engine' \in Engine
    BY <2>2 DEF Skip, Rest, TypeOK, Engine
  <2>3. ASSUME NEW e \in Ids, Take(e) PROVE engine' \in Engine
    <3>1. rule[evaluation[e].rule] \in Rule
      BY <2>3, RowsTyped DEF Take, Picks, Hand
    <3>2. (IF key.valid THEN key.version ELSE 0) \in 0..MaxKeys
      BY RowsTyped, BoundsAssumption
    <3>3. PICK row \in Rule, version \in 0..MaxKeys :
            engine' = [engine EXCEPT !.pc = "opened", !.todo = engine.todo \ {e}, !.at = e,
                         !.row = row, !.key = version]
      BY <2>3, <3>1, <3>2 DEF Take, Rest
    <3> QED BY <3>3 DEF TypeOK, Engine
  <2>4. CASE Claim
    <3>1. rule[Mine] \in Rule
      BY <2>4, RowsTyped DEF Claim, Hand, Mine
    <3>2. (IF key.valid THEN key.version ELSE 0) \in 0..MaxKeys
      BY RowsTyped, BoundsAssumption
    <3>3. CASE engine' = [engine EXCEPT !.pc = "reading", !.row = rule[Mine],
                            !.key = IF key.valid THEN key.version ELSE 0]
      <4>1. PICK row \in Rule, version \in 0..MaxKeys :
              engine' = [engine EXCEPT !.pc = "reading", !.row = row, !.key = version]
        BY <3>1, <3>2, <3>3
      <4> QED BY <4>1 DEF TypeOK, Engine
    <3>4. CASE OnToNext
      BY <3>4, OnToNextTyped
    <3> QED BY <2>4, <3>3, <3>4, IdleTyped DEF Claim, Ends
  <2>5. CASE LogOutcome
    BY <2>5, OnToNextTyped DEF LogOutcome
  <2> QED BY <2>1, <2>2, <2>3, <2>4, <2>5
<1>2. life' \in {"up", "down", "RunFenced", "CredentialsChanged", "Data"}
  BY DEF TypeOK, PhaseBegins, ReadEvaluations, PhaseEnds, Skip, Take, Claim, LogOutcome, Fenced, Ends
<1>3. UNCHANGED <<crashes, rule, key, intent, log, venue, sends, barred>>
  BY DEF PhaseBegins, ReadEvaluations, PhaseEnds, Skip, Take, Claim, LogOutcome, Fenced, Ends, web, sent
<1> QED BY <1>1, <1>2, <1>3 DEF TypeOK, Evolves

LEMMA AttemptTyped ==
  ASSUME TypeOK, Hand, Evolves, Prepare \/ Attempts
  PROVE  TypeOK'
<1>1. engine.at \in Ids /\ evaluation[engine.at] # None /\ Mine \in Rules
  BY RowsTyped DEF Hand, Mine, Prepare, Persist, Attempts, CheckPrepared, DropPrepared,
     MarkDispatched, Mark, Send, NotSent, Reply, Attempting
<1>2. ASSUME NEW pc \in {"prepared", "listing", "send", "reply"}, Goes(pc)
      PROVE  engine' \in Engine
  BY <1>2 DEF Goes, TypeOK, Engine
<1>3. CASE Prepare
  <2>1. rule[Mine].destination \in Destinations /\ engine.key \in 1..MaxKeys
    BY <1>1, <1>3, RowsTyped, BoundsAssumption DEF Rule, Prepare, Persist
  <2>2. [state |-> "prepared", id |-> engine.at, destination |-> rule[Mine].destination,
         key |-> engine.key] \in Intent
    BY <1>1, <2>1 DEF Intent
  <2>3. intent' \in [Rules -> Intent \cup {None}]
    BY <1>3, <2>2 DEF TypeOK, Prepare, Persist
  <2> QED BY <1>2, <1>3, <2>3 DEF Prepare, Persist, TypeOK, Evolves, web, sent
<1>4. CASE CheckPrepared
  BY <1>2, <1>4 DEF CheckPrepared, TypeOK, Evolves, web, sent
<1>5. CASE DropPrepared
  <2>1. engine' \in Engine /\ intent' \in [Rules -> Intent \cup {None}]
    BY <1>1, <1>5, OnToNextTyped, IntentRemoved DEF DropPrepared
  <2>2. log' \subseteq Ids \X Verdicts
    BY <1>1, <1>5, Recorded DEF DropPrepared, Verdicts, TypeOK
  <2> QED BY <1>5, <2>1, <2>2 DEF DropPrepared, TypeOK, Evolves, web, sent
<1>6. CASE MarkDispatched
  <2>1. intent' \in [Rules -> Intent \cup {None}]
    BY <1>1, <1>6, StateChanges DEF MarkDispatched, Mark, Attempting, In, Open
  <2> QED BY <1>2, <1>6, <2>1 DEF MarkDispatched, Mark, TypeOK, Evolves, web, sent
<1>7. CASE Send
  <2>1. venue' \in [Ids -> {"none", "flying", "took", "refused", "lost", "undone"}]
    BY <1>7 DEF Send, TypeOK
  <2>2. sends' \in [Ids -> Nat]
    BY <1>1, <1>7 DEF Send, TypeOK
  <2> QED BY <1>2, <1>7, <2>1, <2>2 DEF Send, TypeOK, Evolves, web
<1>8. CASE NotSent \/ Reply
  <2>1. PICK verdict \in {"withdrew", "failed", "unclear"} : Settle(verdict)
    BY <1>8 DEF NotSent, Reply
  <2>2. intent[Mine] # None
    BY <1>8 DEF NotSent, Reply, Attempting, In
  <2>3. intent' \in [Rules -> Intent \cup {None}]
    BY <1>1, <2>1, <2>2, StateChanges, IntentRemoved DEF Settle, Uncertain, Open
  <2>4. log' \subseteq Ids \X Verdicts
    BY <1>1, <2>1, Recorded DEF Settle, Verdicts, TypeOK
  <2> QED BY <2>1, <2>3, <2>4, OnToNextTyped DEF Settle, TypeOK, Evolves, web, sent
<1> QED BY <1>3, <1>4, <1>5, <1>6, <1>7, <1>8 DEF Attempts

LEMMA OthersTyped ==
  ASSUME TypeOK, Evolves,
         \/ \E r \in Rules : Operator(r) \/ SetAside(r)
         \/ ReplaceKey \/ CheckKey \/ BadData \/ (\E e \in Ids : Venue(e)) \/ StartUp \/ Crash
  PROVE  TypeOK'
<1>1. ASSUME NEW r \in Rules, Operator(r) PROVE TypeOK'
  <2>1. intent[r] # None /\ intent[r].id \in Ids
    BY <1>1, RowsTyped DEF Operator, In
  <2>2. intent' \in [Rules -> Intent \cup {None}]
    BY <1>1, IntentRemoved DEF Operator
  <2>3. log' \subseteq Ids \X Verdicts
    BY <1>1, <2>1, Recorded DEF Operator, Verdicts
  <2> QED BY <1>1, <2>2, <2>3 DEF Operator, TypeOK, Evolves, web, sent
<1>2. ASSUME NEW r \in Rules, SetAside(r) PROVE TypeOK'
  <2>1. rule[r] \in Rule /\ rule[r].revision < MaxEdits
    BY <1>2 DEF SetAside, TypeOK
  <2>2. rule[r].revision + 1 \in 0..MaxEdits
    BY <2>1, BoundsAssumption DEF Rule
  <2>3. PICK revision \in 0..MaxEdits : rule' = [rule EXCEPT ![r].status = "off", ![r].revision = revision]
    BY <1>2, <2>2 DEF SetAside
  <2>4. rule' \in [Rules -> Rule]
    BY <2>1, <2>3 DEF TypeOK, Rule
  <2> QED BY <1>2, <2>4 DEF SetAside, TypeOK, Evolves, sent
<1>3. CASE ReplaceKey
  <2>1. key' \in Key
    BY <1>3, RowsTyped, BoundsAssumption DEF ReplaceKey, Key
  <2> QED BY <1>3, <2>1 DEF ReplaceKey, TypeOK, Evolves, sent
<1>4. CASE CheckKey
  <2>1. key \in Key
    BY DEF TypeOK
  <2>2. PICK valid \in BOOLEAN : key' = [key EXCEPT !.valid = valid]
    BY <1>4, <2>1 DEF CheckKey
  <2>3. key' \in Key
    BY <2>1, <2>2 DEF Key
  <2> QED BY <1>4, <2>3 DEF CheckKey, TypeOK, Evolves, sent
<1>5. CASE BadData \/ Crash
  <2>1. crashes' \in 0..MaxCrashes
    BY <1>5, BoundsAssumption DEF BadData, Ends, Crash, TypeOK
  <2> QED BY <1>5, <2>1, IdleTyped DEF BadData, Ends, Crash, TypeOK, Evolves, web, sent
<1>6. ASSUME NEW e \in Ids, Venue(e) PROVE TypeOK'
  <2>1. venue' \in [Ids -> {"none", "flying", "took", "refused", "lost", "undone"}]
    BY <1>6 DEF Venue, TypeOK
  <2> QED BY <1>6, <2>1 DEF Venue, TypeOK, Evolves, web
<1>7. CASE StartUp
  BY <1>7 DEF StartUp, TypeOK, Evolves, web, sent
<1> QED BY <1>1, <1>2, <1>3, <1>4, <1>5, <1>6, <1>7

LEMMA NextTyped ==
  ASSUME TypeOK, Dense, Hand, [Next]_vars
  PROVE  TypeOK'
<1>1. Evolves
  BY NextEvolves
<1>2. CASE UNCHANGED vars
  BY <1>2 DEF vars, web, sent, TypeOK
<1> QED BY <1>1, <1>2, CommandTyped, RecoveryTyped, EvaluationTyped, AttemptTyped, OthersTyped DEF Next, Phase

-----------------------------------------------------------------------------
(* The phase's memory. *)

LEMMA HandKept ==
  ASSUME TypeOK, Hand, Evolves, UNCHANGED <<engine, sends>>
  PROVE  Hand'
BY DEF TypeOK, Engine, Hand, Evolves

LEMMA HandMoves ==
  ASSUME TypeOK, Hand, Evolves, engine' = Idle \/ OnToNext
  PROVE  Hand'
<1>1. CASE engine' = Idle
  BY <1>1 DEF Idle, Hand
<1>2. CASE OnToNext
  <2>1. engine'.pc = "pick" /\ engine'.todo = engine.todo
    BY <1>2 DEF OnToNext, TypeOK, Engine
  <2> QED BY <2>1, RowsTyped DEF Hand, Evolves
<1> QED BY <1>1, <1>2

LEMMA HandPhase ==
  ASSUME IInv, Evolves, Phase
  PROVE  Hand'
<1> USE DEF IInv
<1>1. CASE PhaseBegins
  <2>1. engine'.pc = "recover" /\ engine'.todo = {}
    BY <1>1 DEF PhaseBegins, Idle
  <2> QED BY <2>1 DEF Hand
<1>2. ASSUME NEW r \in Rules, DropLeftOver(r) \/ LeaveUnresolved(r) \/ LookedUp(r)
      PROVE  Hand'
  <2>1. engine'.pc = "recover" /\ engine'.todo = engine.todo
    BY <1>2 DEF DropLeftOver, LeaveUnresolved, LookedUp, Recovered, TypeOK, Engine
  <2> QED BY <2>1, RowsTyped DEF Hand, Evolves
<1>3. ASSUME NEW r \in Rules, LookUp(r) PROVE Hand'
  <2>1. engine'.pc = "lookup" /\ engine'.at = intent[r].id /\ engine'.todo = engine.todo
    BY <1>3 DEF LookUp, TypeOK, Engine
  <2>2. intent[r].id \in Ids
    BY <1>3, RowsTyped DEF LookUp, In
  <2> QED BY <2>1, <2>2, RowsTyped DEF Hand, Evolves
<1>4. CASE ReadEvaluations
  <2>1. engine'.pc = "pick" /\ engine'.todo = {e \in Ids : Pending(e)}
    BY <1>4 DEF ReadEvaluations, Idle
  <2> QED BY <2>1 DEF Hand, Evolves, Pending
<1>5. CASE PhaseEnds \/ Fenced \/ LogOutcome \/ DropPrepared \/ NotSent \/ Reply
  BY <1>5, HandMoves DEF PhaseEnds, Fenced, Ends, LogOutcome, DropPrepared, NotSent, Reply, Settle
<1>6. ASSUME NEW e \in Ids, Skip(e) PROVE Hand'
  <2>1. engine'.pc = "pick" /\ engine'.todo = engine.todo \ {e}
    BY <1>6 DEF Skip, Picks, Rest, TypeOK, Engine
  <2> QED BY <2>1, RowsTyped DEF Hand, Evolves
<1>7. ASSUME NEW e \in Ids, Take(e) PROVE Hand'
  <2>1. engine'.pc = "opened" /\ engine'.at = e /\ engine'.todo = engine.todo \ {e} /\ e \in engine.todo
    BY <1>7 DEF Take, Picks, Rest, TypeOK, Engine
  <2> QED BY <2>1, RowsTyped DEF Hand, Evolves
<1>8. CASE Claim
  <2>1. engine.at \in Ids /\ evaluation[engine.at] # None
    BY <1>8 DEF Claim, Hand
  <2>2. engine' = Idle \/ OnToNext \/ (/\ engine'.pc = "reading" /\ engine'.at = engine.at
                                       /\ engine'.todo = engine.todo)
    BY <1>8 DEF Claim, Ends, TypeOK, Engine
  <2> QED BY <2>1, <2>2, HandMoves, RowsTyped DEF Hand, Evolves
<1>9. ASSUME NEW pc \in {"prepared", "listing", "reply"}, Goes(pc),
             engine.pc \in {"reading", "prepared", "listing", "send"}
      PROVE  Hand'
  <2>1. engine'.pc = pc /\ engine'.at = engine.at /\ engine'.todo = engine.todo
    BY <1>9 DEF Goes, TypeOK, Engine
  <2> QED BY <1>9, <2>1, RowsTyped DEF Hand, Evolves
<1>10. CASE MarkDispatched
  <2>1. engine'.pc = "send" /\ engine'.at = engine.at /\ engine'.todo = engine.todo
    BY <1>10 DEF MarkDispatched, Mark, Goes, TypeOK, Engine
  <2>2. engine.at \in Ids /\ evaluation[engine.at] # None /\ Mine \in Rules
    BY <1>10, RowsTyped DEF MarkDispatched, Mark, Attempting, Hand, Mine
  <2>3. sends'[engine.at] = 0
    BY <1>10, <2>2 DEF MarkDispatched, Mark, Attempting, sent, Orderly, Requested
  <2> QED BY <2>1, <2>2, <2>3, RowsTyped DEF Hand, Evolves
<1> QED BY <1>1, <1>2, <1>3, <1>4, <1>5, <1>6, <1>7, <1>8, <1>9, <1>10
    DEF Phase, Prepare, Persist, Attempts, CheckPrepared, Send, Attempting

LEMMA NextHand ==
  ASSUME IInv, Evolves, [Next]_vars
  PROVE  Hand'
<1>1. TypeOK /\ Hand
  BY DEF IInv
<1>2. ASSUME NEW r \in Rules, Command(r) \/ Operator(r) \/ SetAside(r) PROVE Hand'
  BY <1>1, <1>2, HandKept DEF Command, Update, Start, Create, Stop, Delete, Write, Operator, SetAside, sent
<1>3. CASE ReplaceKey \/ CheckKey \/ (\E e \in Ids : Venue(e)) \/ StartUp \/ UNCHANGED vars
  BY <1>1, <1>3, HandKept DEF ReplaceKey, CheckKey, Venue, StartUp, vars, sent
<1>4. CASE BadData \/ Crash
  BY <1>1, <1>4, HandMoves DEF BadData, Ends, Crash
<1> QED BY <1>2, <1>3, <1>4, HandPhase DEF Next

-----------------------------------------------------------------------------
(* What a step does to the attempts. *)

\* A rule that waits beside its attempt does not start.
RulesWait == \A r \in Rules : intent[r] # None /\ rule[r].status # "on" => rule'[r].status # "on"

LEMMA AttemptsStand ==
  ASSUME IInv, Evolves, RulesWait, UNCHANGED <<intent, log, sent>>,
         \A e \in Ids : e \in barred' => e \in barred
  PROVE  (\A r \in Rules : MadeBy(r)') /\ (\A e \in Ids : Orderly(e)')
<1> USE DEF IInv, sent
<1>1. ASSUME NEW r \in Rules PROVE MadeBy(r)'
  BY RowsTyped DEF MadeBy, Evolves
<1>2. ASSUME NEW e \in Ids PROVE Orderly(e)'
  <2>1. Requested(e)'
    BY DEF Orderly, Requested, In, Evolves
  <2>2. Logged(e)'
    BY DEF Orderly, Logged, Evolves
  <2>3. Kept(e)'
    BY DEF Orderly, Kept, Attempt, In, Evolves
  <2>4. Barred(e)'
    BY DEF Orderly, Barred, RulesWait, Evolves
  <2> QED BY <2>1, <2>2, <2>3, <2>4 DEF Orderly
<1> QED BY <1>1, <1>2

\* No two rules have an attempt of one evaluation.
LEMMA Apart ==
  ASSUME IInv, NEW q \in Rules, NEW r \in Rules, intent[q] # None, intent[r] # None, q # r
  PROVE  intent[q].id # intent[r].id
BY DEF IInv, MadeBy

\* An attempt is over: what becomes of it is on file, unless nothing left.
LEMMA AttemptOver ==
  ASSUME IInv, Evolves, NEW r \in Rules, intent[r] # None, Remove(r), UNCHANGED <<rule, sent, barred>>,
         NEW id \in Ids, id = intent[r].id,
         \/ Record(id, "withdrew") /\ venue[id] \in {"took", "undone"}
         \/ Record(id, "failed") /\ venue[id] \notin {"flying", "took"}
         \/ UNCHANGED log /\ venue[id] \notin {"flying", "took"}
  PROVE  (\A q \in Rules : MadeBy(q)') /\ (\A e \in Ids : Orderly(e)')
<1> USE DEF IInv, sent
<1>1. intent'[r] = None /\ \A q \in Rules \ {r} : intent'[q] = intent[q]
  BY IntentRemoved
<1>2. \A q \in Rules : intent'[q] # None => intent[q] # None /\ intent'[q] = intent[q]
  BY <1>1
<1>3. ASSUME NEW q \in Rules PROVE MadeBy(q)'
  BY <1>2, RowsTyped DEF MadeBy, Evolves
<1>4. evaluation[id] # None /\ evaluation[id].outcome = "intent" /\ evaluation'[id] = evaluation[id]
  BY DEF MadeBy, Evolves
<1>5. \A verdict \in Verdicts : <<id, verdict>> \notin log
  BY DEF Orderly, Logged
<1>6. \A q \in Rules : intent'[q] # None => intent'[q].id # id
  BY <1>1, <1>2, Apart
<1>7. ASSUME NEW e \in Ids PROVE Orderly(e)'
  <2>1. Requested(e)'
    BY <1>2 DEF Orderly, Requested, In, Evolves
  <2>2. Logged(e)'
    <3>1. CASE e = id
      BY <1>4, <1>5, <1>6, <3>1 DEF Logged, Record, Verdicts, Orderly
    <3>2. CASE e # id
      <4>1. \A verdict \in Verdicts : <<e, verdict>> \in log' <=> <<e, verdict>> \in log
        BY <3>2 DEF Record
      <4>2. \A verdict \in Verdicts : <<e, verdict>> \in log =>
              evaluation'[e] # None /\ evaluation'[e].outcome = "intent"
        BY DEF Orderly, Logged, Evolves
      <4> QED BY <1>2, <4>1, <4>2 DEF Orderly, Logged, Verdicts
    <3> QED BY <3>1, <3>2
  <2>3. Kept(e)'
    <3>1. CASE e = id
      BY <1>5, <3>1 DEF Kept, Record, Orderly, Verdicts
    <3>2. CASE e # id
      <4>1. Attempt(e) => Attempt(e)'
        BY <1>1, <3>2 DEF Attempt, In, Evolves
      <4> QED BY <3>2, <4>1 DEF Orderly, Kept, Record
    <3> QED BY <3>1, <3>2
  <2>4. Barred(e)'
    BY <1>2 DEF Orderly, Barred, Evolves
  <2> QED BY <2>1, <2>2, <2>3, <2>4 DEF Orderly
<1> QED BY <1>3, <1>7

\* An attempt is marked, for the send or as unresolved.
LEMMA AttemptMarked ==
  ASSUME IInv, NEW r \in Rules, intent[r] # None, NEW state \in Open,
         intent' = [intent EXCEPT ![r].state = state], UNCHANGED <<evaluation, rule, log, sent, barred>>,
         intent[r].state \in Open \/ rule[r].status = "on"
  PROVE  (\A q \in Rules : MadeBy(q)') /\ (\A e \in Ids : Orderly(e)')
<1> USE DEF IInv, sent
<1>1. /\ intent'[r] # None /\ intent'[r].state = state /\ intent'[r].id = intent[r].id
      /\ \A q \in Rules \ {r} : intent'[q] = intent[q]
  BY StateChanges
<1>2. \A q \in Rules : intent'[q] # None => intent[q] # None /\ intent'[q].id = intent[q].id
  BY <1>1
<1>3. ASSUME NEW q \in Rules PROVE MadeBy(q)'
  BY <1>2 DEF MadeBy
<1>4. ASSUME NEW e \in Ids PROVE Orderly(e)'
  <2>1. Requested(e)'
    BY <1>1 DEF Orderly, Requested, In, Open
  <2>2. Logged(e)'
    BY <1>2 DEF Orderly, Logged
  <2>3. Kept(e)'
    BY <1>1 DEF Orderly, Kept, Attempt, In, Open
  <2>4. Barred(e)'
    BY <1>1 DEF Orderly, Barred, Open
  <2> QED BY <2>1, <2>2, <2>3, <2>4 DEF Orderly
<1> QED BY <1>3, <1>4

LEMMA AttemptMade ==
  ASSUME IInv, TypeOK', Evolves, Prepare
  PROVE  (\A q \in Rules : MadeBy(q)') /\ (\A e \in Ids : Orderly(e)')
<1> USE NoneAssumption DEF IInv, sent
<1>1. PICK id \in Ids, r \in Rules :
        id = engine.at /\ r = Mine /\ evaluation[id] # None /\ evaluation[id].rule = r
        /\ evaluation[id].outcome = "pending" /\ intent[r] = None /\ rule[r] = engine.row
  BY RowsTyped DEF Prepare, Persist, Hand, Pending, HasIntent, Mine, Unchanged
<1>2. evaluation'[id] # None /\ evaluation'[id].rule = r /\ evaluation'[id].outcome = "intent"
  BY <1>1, ConsumeEvolves DEF Prepare, Persist, Evolves, Pending
<1>3. PICK attempt \in Intent : attempt.state = "prepared" /\ attempt.id = id
                                /\ intent' = [intent EXCEPT ![r] = attempt]
  <2>1. rule[r].destination \in Destinations /\ engine.key \in 1..MaxKeys
    BY RowsTyped, BoundsAssumption DEF Rule, Prepare, Persist
  <2>2. [state |-> "prepared", id |-> id, destination |-> rule[r].destination,
         key |-> engine.key] \in Intent
    BY <2>1 DEF Intent
  <2> QED BY <1>1, <2>2 DEF Prepare, Persist
<1>4. intent'[r] = attempt /\ intent'[r] # None /\ \A q \in Rules \ {r} : intent'[q] = intent[q]
  BY <1>3 DEF TypeOK
<1>5. \A q \in Rules : intent[q] # None => intent[q].id # id
  BY <1>1 DEF MadeBy
<1>6. \A e \in Ids : e # id /\ evaluation[e] # None /\ evaluation[e].outcome = "intent" =>
        evaluation'[e] # None /\ evaluation'[e].outcome = "intent"
  BY DEF Evolves
<1>7. ASSUME NEW q \in Rules PROVE MadeBy(q)'
  <2>1. CASE q = r
    BY <1>2, <1>3, <1>4, <2>1 DEF MadeBy
  <2>2. CASE q # r
    BY <1>4, <2>2, RowsTyped DEF MadeBy, Evolves
  <2> QED BY <2>1, <2>2
<1>8. UNCHANGED <<log, venue, sends, barred, rule>>
  BY DEF Prepare, Persist, web
<1>9. sends[id] = 0 /\ venue[id] = "none" /\ id \notin barred
      /\ \A verdict \in Verdicts : <<id, verdict>> \notin log
  BY <1>1 DEF Orderly, Requested, Logged, Barred, TypeOK
<1>10. ASSUME NEW e \in Ids PROVE Orderly(e)'
  <2>1. Requested(e)'
    BY <1>3, <1>4, <1>6, <1>8, <1>9 DEF Orderly, Requested, In
  <2>2. Logged(e)'
    BY <1>3, <1>4, <1>6, <1>8, <1>9 DEF Orderly, Logged, Verdicts
  <2>3. Kept(e)'
    <3>1. Attempt(e) => Attempt(e)'
      BY <1>1, <1>4 DEF Attempt, In, Evolves
    <3> QED BY <1>8, <3>1 DEF Orderly, Kept
  <2>4. Barred(e)'
    BY <1>3, <1>4, <1>8, <1>9 DEF Orderly, Barred, Evolves
  <2> QED BY <2>1, <2>2, <2>3, <2>4 DEF Orderly
<1> QED BY <1>7, <1>10

LEMMA RequestLeaves ==
  ASSUME IInv, Send
  PROVE  (\A q \in Rules : MadeBy(q)') /\ (\A e \in Ids : Orderly(e)')
<1> USE DEF IInv, sent
<1>1. PICK id \in Ids, r \in Rules :
        id = engine.at /\ intent[r] # None /\ intent[r].state = "dispatched" /\ intent[r].id = id
  BY RowsTyped DEF Send, Attempting, In, Hand, Mine
<1>2. UNCHANGED <<evaluation, intent, log, barred, rule>>
  BY DEF Send, web
<1>3. sends[id] = 0
  BY <1>1 DEF Send, Attempting, Hand
<1>4. sends'[id] = 1 /\ venue'[id] = "flying"
      /\ \A e \in Ids \ {id} : sends'[e] = sends[e] /\ venue'[e] = venue[e]
  BY <1>1, <1>3 DEF Send, TypeOK
<1>5. evaluation[id] # None /\ evaluation[id].outcome = "intent"
  BY <1>1 DEF MadeBy
<1>6. \A verdict \in Verdicts : <<id, verdict>> \notin log
  BY <1>1 DEF Orderly, Logged
<1>7. ASSUME NEW q \in Rules PROVE MadeBy(q)'
  BY <1>2 DEF MadeBy
<1>8. ASSUME NEW e \in Ids PROVE Orderly(e)'
  <2>1. \A q \in Rules : In(q, {"prepared"}) => intent[q].id # id
    <3> SUFFICES ASSUME NEW q \in Rules, In(q, {"prepared"}) PROVE intent[q].id # id
      OBVIOUS
    <3>1. q # r /\ intent[q] # None
      BY <1>1 DEF In
    <3> QED BY <1>1, <3>1, Apart
  <2>2. Requested(e)'
    BY <1>2, <1>4, <1>5, <2>1 DEF Orderly, Requested, In
  <2>3. Logged(e)'
    BY <1>2, <1>4, <1>6 DEF Orderly, Logged, Verdicts
  <2>4. Attempt(e)' <=> Attempt(e)
    BY <1>2 DEF Attempt, In
  <2>5. Kept(e)'
    BY <1>1, <1>2, <1>4, <1>5, <2>4 DEF Orderly, Kept, Attempt, In, Open
  <2>6. Barred(e)'
    BY <1>1, <1>2, <1>4 DEF Orderly, Barred
  <2> QED BY <2>2, <2>3, <2>5, <2>6 DEF Orderly
<1> QED BY <1>7, <1>8

LEMMA VenueAnswers ==
  ASSUME IInv, NEW id \in Ids, Venue(id)
  PROVE  (\A q \in Rules : MadeBy(q)') /\ (\A e \in Ids : Orderly(e)')
<1> USE DEF IInv, sent
<1>1. UNCHANGED <<evaluation, intent, log, sends, barred, rule>>
  BY DEF Venue, web
<1>2. /\ \A e \in Ids \ {id} : venue'[e] = venue[e]
      /\ \/ venue[id] = "flying" /\ venue'[id] \in {"took", "refused", "lost"}
         \/ venue[id] = "took" /\ venue'[id] = "undone"
  BY DEF Venue, TypeOK
<1>3. ASSUME NEW q \in Rules PROVE MadeBy(q)'
  BY <1>1 DEF MadeBy
<1>4. ASSUME NEW e \in Ids PROVE Orderly(e)'
  <2>1. Requested(e)'
    BY <1>1, <1>2 DEF Orderly, Requested, In
  <2>2. Logged(e)'
    BY <1>1, <1>2 DEF Orderly, Logged
  <2>3. Attempt(e)' <=> Attempt(e)
    BY <1>1 DEF Attempt, In
  <2>4. Kept(e)'
    BY <1>1, <1>2, <2>3 DEF Orderly, Kept
  <2>5. Barred(e)'
    BY <1>1 DEF Orderly, Barred
  <2> QED BY <2>1, <2>2, <2>4, <2>5 DEF Orderly
<1> QED BY <1>3, <1>4

\* A stop bars what it finds undispatched: what waits is consumed, and what is prepared
\* has its rule off.
LEMMA RuleStops ==
  ASSUME IInv, Evolves, NEW r \in Rules, Stop(r)
  PROVE  (\A q \in Rules : MadeBy(q)') /\ (\A e \in Ids : Orderly(e)')
<1> USE DEF IInv, sent
<1>1. rule'[r].status = "off" /\ \A q \in Rules \ {r} : rule'[q] = rule[q]
  <2>1. rule[r].destination \in Destinations
    BY RowsTyped DEF Rule
  <2> QED BY <2>1, RuleWritten DEF Stop
<1>2. UNCHANGED <<intent, log, venue, sends>>
  BY DEF Stop, Write
<1>3. \A q \in Rules : rule[q].status # "on" => rule'[q].status # "on"
  BY <1>1
<1>4. ASSUME NEW q \in Rules PROVE MadeBy(q)'
  BY <1>2, RowsTyped DEF MadeBy, Evolves
<1>5. ASSUME NEW e \in Ids PROVE Orderly(e)'
  <2>1. Requested(e)'
    BY <1>2 DEF Orderly, Requested, In, Evolves
  <2>2. Logged(e)'
    BY <1>2 DEF Orderly, Logged, Evolves
  <2>3. Kept(e)'
    BY <1>2 DEF Orderly, Kept, Attempt, In, Evolves
  <2>4. CASE e \in barred
    <3>1. Barred(e)
      BY DEF Orderly
    <3>2. evaluation'[e] = evaluation[e] /\ sends'[e] = 0
      BY <1>2, <2>4, <3>1 DEF Barred, Evolves
    <3>3. \A q \in Rules : intent'[q] # None /\ intent'[q].id = e =>
            intent'[q].state = "prepared" /\ rule'[q].status # "on"
      BY <1>2, <1>3, <2>4, <3>1 DEF Barred
    <3>4. Barred(e)'
      BY <2>4, <3>1, <3>2, <3>3 DEF Barred
    <3> QED BY <2>1, <2>2, <2>3, <3>4 DEF Orderly
  <2>5. CASE e \notin barred
    <3> SUFFICES ASSUME e \in barred' PROVE Barred(e)'
      BY <2>1, <2>2, <2>3 DEF Orderly, Barred
    <3>1. evaluation[e] # None /\ evaluation[e].rule = r /\ sends[e] = 0 /\ ~Attempt(e)
      BY <2>5 DEF Stop
    <3>2. evaluation'[e] # None /\ evaluation'[e].outcome # "pending"
      <4> DEFINE waiting == {x \in Ids : Pending(x) /\ evaluation[x].rule = r}
      <4>1. Consume(waiting, "skipped")
        BY DEF Stop, ConsumeAll
      <4>2. CASE evaluation[e].outcome = "pending"
        <5>1. e \in waiting
          BY <3>1, <4>2 DEF Pending
        <5> HIDE DEF waiting
        <5>2. \A x \in waiting \cap Ids : evaluation[x] # None => evaluation'[x].outcome # "pending"
          BY <4>1, ConsumeEvolves
        <5> QED BY <3>1, <5>1, <5>2 DEF Evolves
      <4>3. CASE evaluation[e].outcome # "pending"
        BY <3>1, <4>3 DEF Evolves
      <4> QED BY <4>2, <4>3
    <3>3. ASSUME NEW q \in Rules, intent[q] # None, intent[q].id = e
          PROVE  intent[q].state = "prepared" /\ q = r
      <4>1. q = r
        BY <3>1, <3>3 DEF MadeBy
      <4>2. intent[q].state \in {"prepared"} \cup Open
        BY <3>3, RowsTyped DEF Intent, Open
      <4> QED BY <3>1, <3>3, <4>1, <4>2 DEF Attempt, In
    <3> QED BY <1>1, <1>2, <3>1, <3>2, <3>3 DEF Barred
  <2> QED BY <2>1, <2>2, <2>3, <2>4, <2>5 DEF Orderly
<1> QED BY <1>4, <1>5

-----------------------------------------------------------------------------
(* The invariant. *)

Books == (\A r \in Rules : MadeBy(r)) /\ (\A e \in Ids : Orderly(e))

LEMMA CommandBooks ==
  ASSUME IInv, Evolves, NEW r \in Rules, Command(r)
  PROVE  Books'
<1>1. CASE Stop(r)
  BY <1>1, RuleStops DEF Books
<1>2. ASSUME NEW status \in {"on", "off", "deleted"}, NEW d \in Destinations, Write(r, status, d),
             status = "on" => intent[r] = None, UNCHANGED barred
      PROVE  Books'
  <2>1. RulesWait
    BY <1>2, RuleWritten DEF RulesWait, IInv
  <2>2. UNCHANGED <<intent, log, sent>>
    BY <1>2 DEF Write
  <2> QED BY <1>2, <2>1, <2>2, AttemptsStand DEF Books
<1>3. rule[r].destination \in Destinations
  BY RowsTyped DEF IInv, Rule
<1> QED BY <1>1, <1>2, <1>3 DEF Command, Update, Start, Create, Delete, HasIntent

LEMMA StepBooks ==
  ASSUME IInv, Evolves, UNCHANGED <<rule, intent, log, sent, barred>>
  PROVE  Books'
BY AttemptsStand DEF RulesWait, Books

LEMMA RecoveryBooks ==
  ASSUME IInv, Evolves,
         NEW r \in Rules, DropLeftOver(r) \/ LeaveUnresolved(r) \/ LookUp(r) \/ LookedUp(r)
  PROVE  Books'
<1>1. intent[r] # None /\ intent[r].id \in Ids
  BY RowsTyped DEF IInv, DropLeftOver, LeaveUnresolved, LookUp, LookedUp, In
<1>2. CASE DropLeftOver(r)
  <2>1. venue[intent[r].id] = "none"
    BY <1>1, <1>2 DEF DropLeftOver, IInv, Orderly, Requested
  <2> QED BY <1>1, <1>2, <2>1, AttemptOver DEF DropLeftOver, Books, web
<1>3. CASE LeaveUnresolved(r) \/ LookUp(r)
  <2>1. UNCHANGED <<evaluation, rule, log, sent, barred>> /\ intent[r].state \in Open
    BY <1>3 DEF LeaveUnresolved, LookUp, In, web
  <2>2. intent' = [intent EXCEPT ![r].state = "unresolved"]
    BY <1>3 DEF LeaveUnresolved, LookUp, Uncertain
  <2> QED BY <1>1, <2>1, <2>2, AttemptMarked DEF Books, Open
<1>4. CASE LookedUp(r)
  <2>1. UNCHANGED <<rule, sent, barred>> /\ intent[r].id = engine.at
    BY <1>4 DEF LookedUp, web
  <2>2. CASE UNCHANGED <<intent, log>>
    BY <2>1, <2>2, StepBooks
  <2>3. CASE Remove(r) /\ venue[engine.at] = "took" /\ Record(engine.at, "withdrew")
    BY <1>1, <2>1, <2>3, AttemptOver DEF Books
  <2>4. CASE Remove(r) /\ venue[engine.at] = "undone" /\ Record(engine.at, "failed")
    BY <1>1, <2>1, <2>4, AttemptOver DEF Books
  <2> QED BY <1>4, <2>2, <2>3, <2>4 DEF LookedUp
<1> QED BY <1>2, <1>3, <1>4

LEMMA AttemptBooks ==
  ASSUME IInv, Evolves, Attempts
  PROVE  Books'
<1>1. PICK r \in Rules, id \in Ids :
        r = Mine /\ id = engine.at /\ intent[r] # None /\ intent[r].id = id
  BY RowsTyped DEF IInv, Hand, Mine, Attempts, CheckPrepared, DropPrepared,
     MarkDispatched, Mark, Send, NotSent, Reply, Attempting, In
<1>2. CASE CheckPrepared
  BY <1>2, StepBooks DEF CheckPrepared, web
<1>3. CASE DropPrepared
  <2>1. venue[id] = "none"
    BY <1>1, <1>3 DEF DropPrepared, Attempting, IInv, Orderly, Requested
  <2> QED BY <1>1, <1>3, <2>1, AttemptOver DEF DropPrepared, Books, web
<1>4. CASE MarkDispatched
  <2>1. intent' = [intent EXCEPT ![r].state = "dispatched"] /\ rule[r].status = "on"
        /\ UNCHANGED <<evaluation, rule, log, sent, barred>>
    BY <1>1, <1>4 DEF MarkDispatched, Mark, Sendable, web
  <2> QED BY <1>1, <2>1, AttemptMarked DEF Books, Open
<1>5. CASE Send
  BY <1>5, RequestLeaves DEF Books
<1>6. ASSUME NEW verdict \in {"withdrew", "failed", "unclear"}, Settle(verdict), intent[r].state = "dispatched",
             verdict = "withdrew" => venue[id] = "took",
             verdict = "failed" => venue[id] \notin {"flying", "took"}
      PROVE  Books'
  <2>1. UNCHANGED <<evaluation, rule, sent, barred>>
    BY <1>6 DEF Settle, web
  <2>2. CASE Uncertain(r) /\ UNCHANGED log
    BY <1>1, <1>6, <2>1, <2>2, AttemptMarked DEF Books, Open, Uncertain
  <2>3. CASE verdict # "unclear" /\ Record(id, verdict) /\ Remove(r)
    BY <1>1, <1>6, <2>1, <2>3, AttemptOver DEF Books
  <2> QED BY <1>1, <1>6, <2>2, <2>3 DEF Settle
<1>7. CASE NotSent
  <2>1. venue[id] = "none"
    BY <1>1, <1>7 DEF NotSent, Attempting, IInv, Hand, Orderly, Requested
  <2> QED BY <1>1, <1>6, <1>7, <2>1 DEF NotSent, Attempting, In
<1>8. CASE Reply
  BY <1>1, <1>6, <1>8 DEF Reply, Attempting, In
<1> QED BY <1>2, <1>3, <1>4, <1>5, <1>7, <1>8 DEF Attempts

LEMMA NextBooks ==
  ASSUME IInv, TypeOK', Evolves, [Next]_vars
  PROVE  Books'
<1>1. CASE Phase
  <2>1. CASE PhaseBegins \/ ReadEvaluations \/ PhaseEnds \/ (\E e \in Ids : Skip(e) \/ Take(e))
             \/ Claim \/ LogOutcome \/ Fenced
    BY <2>1, StepBooks DEF PhaseBegins, ReadEvaluations, PhaseEnds, Skip, Take, Claim, LogOutcome,
       Fenced, Ends, web
  <2> QED BY <1>1, <2>1, RecoveryBooks, AttemptBooks, AttemptMade DEF Phase, Books
<1>2. ASSUME NEW r \in Rules, Operator(r) PROVE Books'
  <2>1. intent[r] # None /\ intent[r].id \in Ids
    BY <1>2, RowsTyped DEF IInv, Operator, In
  <2> QED BY <1>2, <2>1, AttemptOver DEF Operator, Books, web
<1>3. ASSUME NEW r \in Rules, SetAside(r) PROVE Books'
  <2>1. UNCHANGED <<intent, log, sent, barred>>
    BY <1>3 DEF SetAside
  <2>2. rule'[r].status = "off" /\ \A q \in Rules \ {r} : rule'[q] = rule[q]
    <3>1. rule[r] \in Rule
      BY DEF IInv, TypeOK
    <3> QED BY <1>3, <3>1 DEF SetAside, IInv, TypeOK, Rule
  <2> QED BY <2>1, <2>2, AttemptsStand DEF RulesWait, Books
<1>4. CASE ReplaceKey \/ CheckKey \/ BadData \/ StartUp \/ Crash \/ UNCHANGED vars
  BY <1>4, StepBooks DEF ReplaceKey, CheckKey, BadData, Ends, StartUp, Crash, vars, web
<1>5. ASSUME NEW e \in Ids, Venue(e) PROVE Books'
  BY <1>5, VenueAnswers DEF Books
<1> QED BY <1>1, <1>2, <1>3, <1>4, <1>5, CommandBooks DEF Next

LEMMA Initial == Init => IInv
<1> SUFFICES ASSUME Init PROVE IInv
  OBVIOUS
<1> USE BoundsAssumption DEF Init
<1>1. TypeOK
  <2>1. rule \in [Rules -> Rule]
    BY DEF Rule
  <2>2. key \in Key
    BY DEF Key
  <2> QED BY <2>1, <2>2, IdleTyped DEF TypeOK
<1>2. Dense
  <2>1. 0 \in 0..MaxEvaluations /\ \A e \in Ids : evaluation[e] # None <=> e <= 0
    BY DEF Ids
  <2> QED BY <2>1 DEF Dense
<1>3. Hand
  BY DEF Hand, Idle
<1>4. \A r \in Rules : MadeBy(r)
  BY DEF MadeBy
<1>5. \A e \in Ids : Orderly(e)
  BY DEF Orderly, Requested, Logged, Kept, Barred, In
<1> QED BY <1>1, <1>2, <1>3, <1>4, <1>5 DEF IInv

LEMMA Inductive == IInv /\ [Next]_vars => IInv'
<1> SUFFICES ASSUME IInv, [Next]_vars PROVE IInv'
  OBVIOUS
<1>1. Evolves
  BY NextEvolves DEF IInv
<1>2. TypeOK'
  BY NextTyped DEF IInv
<1>3. Hand' /\ Books'
  BY <1>1, <1>2, NextHand, NextBooks
<1> QED BY <1>1, <1>2, <1>3 DEF IInv, Evolves, Books

LEMMA Invariant == Spec => []IInv
BY Initial, Inductive, PTL DEF Spec

-----------------------------------------------------------------------------
\* Rules, keys, evaluations, attempts and the phase's memory keep their types.
THEOREM WithdrawalTyped == Spec => []TypeOK
<1>1. IInv => TypeOK
  BY DEF IInv
<1> QED BY <1>1, Invariant, PTL

\* A request the venue has, or may still get, is logged or its attempt is on file.
THEOREM AttemptsKept == Spec => []NoAttemptLost
<1>1. IInv => NoAttemptLost
  BY DEF IInv, Orderly, Kept, NoAttemptLost
<1> QED BY <1>1, Invariant, PTL

\* An evaluation sends its request once, over every death and recovery.
THEOREM WithdrawalSentOnce == Spec => []SentOnce
<1>1. IInv => SentOnce
  BY DEF IInv, Orderly, Requested, SentOnce
<1> QED BY <1>1, Invariant, PTL

\* What the log says of an attempt is so, and stays so.
THEOREM LogTrue == Spec => []LogIsTrue
<1>1. IInv => LogIsTrue
  BY DEF IInv, Orderly, Logged, LogIsTrue
<1> QED BY <1>1, Invariant, PTL

\* What a stop found undispatched never leaves, though the rule starts again.
THEOREM StopBars == Spec => []NothingAfterStop
<1>1. IInv => NothingAfterStop
  BY DEF IInv, TypeOK, Orderly, Barred, NothingAfterStop
<1> QED BY <1>1, Invariant, PTL

-----------------------------------------------------------------------------
(* The ledger. *)

view == <<[e \in Ids |-> Fate(e)], [e \in Ids |-> Owner(e)], [e \in Ids |-> Request(e)]>>

\* No further evaluation becomes an attempt.
NoneBecomes == \A e \in Ids : Became(e)' => Became(e)

LEMMA InsertBecomes ==
  ASSUME NEW on, Insert(on)
  PROVE  NoneBecomes
<1>1. PICK new, f :
        evaluation' = [e \in Ids |->
          IF e \in new THEN [rule |-> f[e], outcome |-> "pending"] ELSE evaluation[e]]
  BY DEF Insert
<1> QED BY <1>1 DEF NoneBecomes, Became

LEMMA ConsumeBecomes ==
  ASSUME TypeOK, Dense, NEW ids, NEW outcome \in {"skipped", "logged"}, Consume(ids, outcome)
  PROVE  NoneBecomes
<1> SUFFICES ASSUME NEW e \in Ids, Became(e)' PROVE Became(e)
  BY DEF NoneBecomes
<1>1. CASE e \in ids /\ Pending(e)
  <2>1. evaluation'[e].outcome = outcome
    BY <1>1, ConsumeEvolves
  <2> QED BY <2>1 DEF Became
<1>2. CASE ~(e \in ids /\ Pending(e))
  <2>1. evaluation'[e] = evaluation[e]
    BY <1>2, ConsumeEvolves
  <2> QED BY <2>1 DEF Became
<1> QED BY <1>1, <1>2

\* What an evaluation became, and for which rule, stays.
LEMMA OwnerStays ==
  ASSUME Evolves, NEW e \in Ids, Became(e)' => Became(e)
  PROVE  Became(e)' = Became(e) /\ Owner(e)' = Owner(e)
BY DEF Became, Owner, Evolves

\* A step that makes no attempt, ends none and moves no request.
Quiet ==
  /\ NoneBecomes /\ \A e \in Ids : OnFile(e)' <=> OnFile(e)
  /\ UNCHANGED <<log, venue>>

LEMMA QuietStutters ==
  ASSUME Evolves, Quiet
  PROVE  UNCHANGED view
<1>1. ASSUME NEW e \in Ids
      PROVE  Fate(e)' = Fate(e) /\ Owner(e)' = Owner(e) /\ Request(e)' = Request(e)
  <2>1. Became(e)' = Became(e) /\ Owner(e)' = Owner(e)
    BY OwnerStays DEF Quiet, NoneBecomes
  <2> QED BY <2>1 DEF Quiet, Fate, Request
<1> QED BY <1>1 DEF view

\* The evaluations of the steps that leave the attempts alone.
LEMMA AsideQuiet ==
  ASSUME IInv,
         \/ \E r \in Rules : Command(r) \/ SetAside(r)
         \/ ReplaceKey \/ CheckKey \/ BadData \/ StartUp \/ Crash \/ UNCHANGED vars
         \/ PhaseBegins \/ ReadEvaluations \/ PhaseEnds \/ (\E e \in Ids : Skip(e) \/ Take(e))
         \/ Claim \/ LogOutcome \/ Fenced \/ CheckPrepared
  PROVE  Quiet
<1>1. UNCHANGED <<intent, log, venue>>
  BY DEF Command, Update, Start, Create, Stop, Delete, Write, SetAside, ReplaceKey, CheckKey, BadData,
     StartUp, Crash, vars, sent, PhaseBegins, ReadEvaluations, PhaseEnds, Skip, Take, Claim, LogOutcome,
     Fenced, Ends, CheckPrepared
<1>2. ASSUME UNCHANGED evaluation PROVE NoneBecomes
  BY <1>2 DEF NoneBecomes, Became
<1>3. ASSUME NEW e, Unfit(e) PROVE NoneBecomes
  <2>1. PICK outcome \in {"skipped", "logged"} : Consume({e}, outcome)
    BY <1>3 DEF Unfit
  <2> QED BY <2>1, ConsumeBecomes DEF IInv
<1>4. ASSUME NEW r \in Rules, Command(r) PROVE NoneBecomes
  <2>1. CASE UNCHANGED evaluation
    BY <1>2, <2>1
  <2>2. CASE Insert(On \cup {r})
    BY <2>2, InsertBecomes
  <2>3. CASE ConsumeAll(r)
    BY <2>3, ConsumeBecomes DEF ConsumeAll, IInv
  <2> QED BY <1>4, <2>1, <2>2, <2>3 DEF Command, Update, Start, Create, Stop, Delete
<1>5. NoneBecomes
  <2>1. CASE PhaseBegins
    BY <1>2, <2>1, InsertBecomes DEF PhaseBegins
  <2>2. CASE Claim \/ (\E e \in Ids : Skip(e) \/ Take(e))
    BY <1>2, <1>3, <2>2 DEF Claim, Ends, Skip, Take
  <2>3. CASE LogOutcome
    BY <2>3, ConsumeBecomes DEF LogOutcome, IInv
  <2>4. CASE \/ \E r \in Rules : SetAside(r)
             \/ ReplaceKey \/ CheckKey \/ BadData \/ StartUp \/ Crash \/ UNCHANGED vars
             \/ ReadEvaluations \/ PhaseEnds \/ Fenced \/ CheckPrepared
    BY <1>2, <2>4 DEF SetAside, ReplaceKey, CheckKey, BadData, StartUp, Crash, vars, ReadEvaluations,
       PhaseEnds, Fenced, Ends, CheckPrepared
  <2> QED BY <1>4, <2>1, <2>2, <2>3, <2>4
<1> QED BY <1>1, <1>5 DEF Quiet, OnFile

\* An attempt that is only marked stays open.
LEMMA MarkQuiet ==
  ASSUME IInv, NEW r \in Rules, intent[r] # None, NEW state \in Open,
         intent' = [intent EXCEPT ![r].state = state], UNCHANGED <<evaluation, log, venue>>
  PROVE  Quiet
<1>1. /\ intent'[r] # None /\ intent'[r].id = intent[r].id
      /\ \A q \in Rules \ {r} : intent'[q] = intent[q]
  BY StateChanges DEF IInv
<1>2. \A e \in Ids : OnFile(e)' <=> OnFile(e)
  BY <1>1 DEF OnFile
<1> QED BY <1>2 DEF Quiet, NoneBecomes, Became

\* An attempt is made: a withdrawal of its rule opens.
LEMMA MadeOpens ==
  ASSUME IInv, Evolves, Prepare
  PROVE  Ledger!Next
<1> USE NoneAssumption DEF IInv
<1>1. PICK id \in Ids, r \in Rules :
        id = engine.at /\ r = Mine /\ evaluation[id] # None /\ evaluation[id].rule = r
        /\ evaluation[id].outcome = "pending" /\ intent[r] = None
  BY RowsTyped DEF Prepare, Persist, Hand, Pending, HasIntent, Mine, Unchanged
<1>2. /\ evaluation'[id] # None /\ evaluation'[id].rule = r /\ evaluation'[id].outcome = "intent"
      /\ \A e \in Ids \ {id} : evaluation'[e] = evaluation[e]
  BY <1>1, ConsumeEvolves DEF Prepare, Persist, Evolves, Pending
<1>3. PICK attempt \in Intent : attempt.id = id /\ intent' = [intent EXCEPT ![r] = attempt]
  <2>1. rule[r].destination \in Destinations /\ engine.key \in 1..MaxKeys
    BY RowsTyped, BoundsAssumption DEF Rule, Prepare, Persist
  <2>2. [state |-> "prepared", id |-> id, destination |-> rule[r].destination,
         key |-> engine.key] \in Intent
    BY <2>1 DEF Intent
  <2> QED BY <1>1, <2>2 DEF Prepare, Persist
<1>4. intent'[r] = attempt /\ intent'[r] # None /\ \A q \in Rules \ {r} : intent'[q] = intent[q]
  BY <1>3 DEF TypeOK
<1>5. UNCHANGED <<log, venue>>
  BY DEF Prepare, Persist, sent
<1>6. Fate(id) = "new" /\ Owner(id) = None /\ Fate(id)' = "open" /\ Owner(id)' = r
  BY <1>1, <1>2, <1>3, <1>4 DEF Fate, Became, Owner, OnFile
<1>7. ASSUME NEW e \in Ids, e # id
      PROVE  Fate(e)' = Fate(e) /\ Owner(e)' = Owner(e)
  <2>1. OnFile(e)' <=> OnFile(e)
    BY <1>1, <1>3, <1>4, <1>7 DEF OnFile
  <2> QED BY <1>2, <1>5, <1>7, <2>1 DEF Fate, Became, Owner
<1>8. \A e \in Ids : Request(e)' = Request(e)
  BY <1>5 DEF Request
<1>9. ASSUME NEW e \in Ids, Fate(e) = "open"
      PROVE  Owner(e) # r
  <2>1. Became(e) /\ OnFile(e)
    BY <1>9 DEF Fate
  <2>2. PICK q \in Rules : intent[q] # None /\ intent[q].id = e
    BY <2>1 DEF OnFile
  <2>3. evaluation[e].rule = q
    BY <2>2 DEF MadeBy
  <2> QED BY <1>1, <2>1, <2>2, <2>3 DEF Owner
<1>10. Ledger!Open(id, r)
  BY <1>6, <1>7, <1>8, <1>9 DEF Ledger!Open
<1> QED BY <1>10 DEF Ledger!Next

\* The attempt on file of a rule is a withdrawal that is open.
LEMMA OnFileIsOpen ==
  ASSUME IInv, NEW r \in Rules, intent[r] # None
  PROVE  intent[r].id \in Ids /\ Fate(intent[r].id) = "open"
<1>1. intent[r].id \in Ids /\ Became(intent[r].id)
  BY RowsTyped DEF IInv, MadeBy, Became
<1> QED BY <1>1 DEF Fate, OnFile

\* An attempt goes off file: its withdrawal ends as what the step records, and as void
\* when it records nothing of a request that never left.
LEMMA OverEnds ==
  ASSUME IInv, NEW r \in Rules, intent[r] # None, Remove(r), UNCHANGED <<evaluation, venue>>,
         NEW id \in Ids, id = intent[r].id,
         \/ Record(id, "withdrew") /\ venue[id] \in {"took", "undone"}
         \/ Record(id, "failed") /\ venue[id] \notin {"flying", "took"}
         \/ UNCHANGED log /\ venue[id] = "none"
  PROVE  Ledger!Next
<1> USE DEF IInv
<1>1. intent'[r] = None /\ \A q \in Rules \ {r} : intent'[q] = intent[q]
  BY IntentRemoved
<1>2. Became(id) /\ Fate(id) = "open"
  BY OnFileIsOpen DEF MadeBy, Became
<1>3. \A e \in Ids : Became(e)' = Became(e) /\ Owner(e)' = Owner(e) /\ Request(e)' = Request(e)
  BY DEF Became, Owner, Request
<1>4. ~OnFile(id)'
  BY <1>1, Apart DEF OnFile
<1>5. ASSUME NEW e \in Ids, e # id
      PROVE  Fate(e)' = Fate(e)
  <2>1. OnFile(e)' <=> OnFile(e)
    BY <1>1, <1>5 DEF OnFile
  <2>2. \A verdict \in Verdicts : <<e, verdict>> \in log' <=> <<e, verdict>> \in log
    BY <1>5 DEF Record
  <2> QED BY <1>3, <2>1, <2>2 DEF Fate, Verdicts
<1>6. \A verdict \in Verdicts : <<id, verdict>> \notin log
  BY DEF Orderly, Logged
<1>7. ASSUME NEW as, NEW requests, Fate(id)' = as, Request(id) \in requests
      PROVE  Ledger!Ends(id, as, requests)
  BY <1>2, <1>3, <1>5, <1>7 DEF Ledger!Ends
<1>8. venue[id] \in {"none", "flying", "took", "refused", "lost", "undone"}
  BY DEF TypeOK
<1>9. CASE Record(id, "withdrew") /\ venue[id] \in {"took", "undone"}
  <2>1. Fate(id)' = "withdrew" /\ Request(id) \in {"taken", "undone"}
    BY <1>2, <1>3, <1>4, <1>9 DEF Fate, Record, Request
  <2> QED BY <1>7, <2>1 DEF Ledger!Withdrew, Ledger!Next
<1>10. CASE Record(id, "failed") /\ venue[id] \notin {"flying", "took"}
  <2>1. Fate(id)' = "failed" /\ Request(id) \in {"none", "left", "undone"}
    BY <1>2, <1>3, <1>4, <1>6, <1>8, <1>10 DEF Fate, Record, Request, Verdicts
  <2> QED BY <1>7, <2>1 DEF Ledger!Failed, Ledger!Next
<1>11. CASE UNCHANGED log /\ venue[id] = "none"
  <2>1. Fate(id)' = "void" /\ Request(id) \in {"none"}
    BY <1>2, <1>3, <1>4, <1>6, <1>11 DEF Fate, Request, Verdicts
  <2> QED BY <1>7, <2>1 DEF Ledger!Void, Ledger!Next
<1> QED BY <1>9, <1>10, <1>11

LEMMA RecoveryRefines ==
  ASSUME IInv, Evolves,
         NEW r \in Rules, DropLeftOver(r) \/ LeaveUnresolved(r) \/ LookUp(r) \/ LookedUp(r)
  PROVE  Ledger!Next \/ UNCHANGED view
<1>1. intent[r] # None /\ intent[r].id \in Ids /\ UNCHANGED <<evaluation, venue>>
  BY RowsTyped DEF IInv, DropLeftOver, LeaveUnresolved, LookUp, LookedUp, In, sent
<1>2. CASE DropLeftOver(r)
  <2>1. venue[intent[r].id] = "none"
    BY <1>1, <1>2 DEF DropLeftOver, IInv, Orderly, Requested
  <2> QED BY <1>1, <1>2, <2>1, OverEnds DEF DropLeftOver
<1>3. CASE LeaveUnresolved(r) \/ LookUp(r)
  <2>1. intent' = [intent EXCEPT ![r].state = "unresolved"] /\ UNCHANGED log
    BY <1>3 DEF LeaveUnresolved, LookUp, Uncertain
  <2> QED BY <1>1, <2>1, MarkQuiet, QuietStutters DEF Open
<1>4. CASE LookedUp(r)
  <2>1. intent[r].id = engine.at
    BY <1>4 DEF LookedUp
  <2>2. CASE UNCHANGED <<intent, log>>
    BY <1>1, <2>2, QuietStutters DEF Quiet, NoneBecomes, Became, OnFile
  <2>3. CASE Remove(r) /\ venue[engine.at] = "took" /\ Record(engine.at, "withdrew")
    BY <1>1, <2>1, <2>3, OverEnds
  <2>4. CASE Remove(r) /\ venue[engine.at] = "undone" /\ Record(engine.at, "failed")
    BY <1>1, <2>1, <2>4, OverEnds
  <2> QED BY <1>4, <2>2, <2>3, <2>4 DEF LookedUp
<1> QED BY <1>2, <1>3, <1>4

\* The request of an attempt leaves while its withdrawal is open.
LEMMA SendLeaves ==
  ASSUME IInv, Send
  PROVE  Ledger!Next
<1> USE DEF IInv
<1>1. PICK id \in Ids, r \in Rules : id = engine.at /\ intent[r] # None /\ intent[r].id = id
  BY RowsTyped DEF Send, Attempting, In, Hand, Mine
<1>2. UNCHANGED <<evaluation, intent, log>>
  BY DEF Send
<1>3. venue[id] = "none"
  BY <1>1 DEF Send, Attempting, Hand, Orderly, Requested
<1>4. venue'[id] = "flying" /\ \A e \in Ids \ {id} : venue'[e] = venue[e]
  BY <1>1 DEF Send, TypeOK
<1>5. Fate(id) = "open" /\ \A e \in Ids : Fate(e)' = Fate(e) /\ Owner(e)' = Owner(e)
  BY <1>1, <1>2, OnFileIsOpen DEF Fate, Owner, Became, OnFile
<1>6. /\ Request(id) = "none" /\ Request(id)' = "left"
      /\ \A e \in Ids \ {id} : Request(e)' = Request(e)
  BY <1>3, <1>4 DEF Request
<1>7. Ledger!Leaves(id)
  BY <1>5, <1>6 DEF Ledger!Leaves, Ledger!Moves
<1> QED BY <1>7 DEF Ledger!Next

\* What the venue may still take is open: neither logged as a failure nor forgotten.
LEMMA VenueRefines ==
  ASSUME IInv, NEW id \in Ids, Venue(id)
  PROVE  Ledger!Next \/ UNCHANGED view
<1> USE DEF IInv
<1>1. UNCHANGED <<evaluation, intent, log>>
  BY DEF Venue
<1>2. /\ \A e \in Ids \ {id} : venue'[e] = venue[e]
      /\ \/ venue[id] = "flying" /\ venue'[id] \in {"took", "refused", "lost"}
         \/ venue[id] = "took" /\ venue'[id] = "undone"
  BY DEF Venue, TypeOK
<1>3. /\ \A e \in Ids : Fate(e)' = Fate(e) /\ Owner(e)' = Owner(e)
      /\ \A e \in Ids \ {id} : Request(e)' = Request(e)
  BY <1>1, <1>2 DEF Fate, Owner, Became, OnFile, Request
<1>4. CASE venue[id] = "flying" /\ venue'[id] # "took"
  <2>1. Request(id)' = Request(id)
    BY <1>2, <1>4 DEF Request
  <2> QED BY <1>3, <2>1 DEF view
<1>5. CASE venue[id] = "flying" /\ venue'[id] = "took"
  <2>1. Attempt(id)
    BY <1>5 DEF Orderly, Kept, Logged
  <2>2. Fate(id) = "open"
    BY <2>1, OnFileIsOpen DEF Attempt, In
  <2>3. Request(id) = "left" /\ Request(id)' = "taken"
    BY <1>5 DEF Request
  <2>4. Ledger!Takes(id)
    BY <1>3, <2>2, <2>3 DEF Ledger!Takes, Ledger!Moves
  <2> QED BY <2>4 DEF Ledger!Next
<1>6. CASE venue[id] = "took" /\ venue'[id] = "undone"
  <2>1. Request(id) = "taken" /\ Request(id)' = "undone"
    BY <1>6 DEF Request
  <2>2. Ledger!Undoes(id)
    BY <1>3, <2>1 DEF Ledger!Undoes, Ledger!Moves
  <2> QED BY <2>2 DEF Ledger!Next
<1> QED BY <1>2, <1>4, <1>5, <1>6

LEMMA AttemptRefines ==
  ASSUME IInv, Evolves, Attempts
  PROVE  Ledger!Next \/ UNCHANGED view
<1>1. PICK r \in Rules, id \in Ids :
        r = Mine /\ id = engine.at /\ intent[r] # None /\ intent[r].id = id
  BY RowsTyped DEF IInv, Hand, Mine, Attempts, CheckPrepared, DropPrepared,
     MarkDispatched, Mark, Send, NotSent, Reply, Attempting, In
<1>2. CASE CheckPrepared
  BY <1>2, AsideQuiet, QuietStutters
<1>3. CASE DropPrepared
  <2>1. venue[id] = "none" /\ UNCHANGED <<evaluation, venue>>
    BY <1>1, <1>3 DEF DropPrepared, Attempting, IInv, Orderly, Requested, sent
  <2>2. Record(id, "failed") \/ UNCHANGED log
    BY <1>1, <1>3 DEF DropPrepared
  <2> QED BY <1>1, <1>3, <2>1, <2>2, OverEnds DEF DropPrepared
<1>4. CASE MarkDispatched
  <2>1. intent' = [intent EXCEPT ![r].state = "dispatched"] /\ UNCHANGED <<evaluation, log, venue>>
    BY <1>1, <1>4 DEF MarkDispatched, Mark, sent
  <2> QED BY <1>1, <2>1, MarkQuiet, QuietStutters DEF Open
<1>5. CASE Send
  BY <1>5, SendLeaves
<1>6. ASSUME NEW verdict \in {"withdrew", "failed", "unclear"}, Settle(verdict),
             verdict = "withdrew" => venue[id] = "took",
             verdict = "failed" => venue[id] \notin {"flying", "took"}
      PROVE  Ledger!Next \/ UNCHANGED view
  <2>1. UNCHANGED <<evaluation, venue>>
    BY <1>6 DEF Settle, sent
  <2>2. CASE Uncertain(r) /\ UNCHANGED log
    BY <1>1, <2>1, <2>2, MarkQuiet, QuietStutters DEF Open, Uncertain
  <2>3. CASE verdict # "unclear" /\ Record(id, verdict) /\ Remove(r)
    BY <1>1, <1>6, <2>1, <2>3, OverEnds
  <2> QED BY <1>1, <1>6, <2>2, <2>3 DEF Settle
<1>7. CASE NotSent
  <2>1. venue[id] = "none"
    BY <1>1, <1>7 DEF NotSent, Attempting, IInv, Hand, Orderly, Requested
  <2> QED BY <1>6, <1>7, <2>1 DEF NotSent
<1>8. CASE Reply
  BY <1>1, <1>6, <1>8 DEF Reply
<1> QED BY <1>2, <1>3, <1>4, <1>5, <1>7, <1>8 DEF Attempts

LEMMA OperatorRefines ==
  ASSUME IInv, NEW r \in Rules, Operator(r)
  PROVE  Ledger!Next
<1>1. intent[r] # None /\ intent[r].id \in Ids
  BY RowsTyped DEF IInv, Operator, In
<1> QED BY <1>1, OverEnds DEF Operator, sent

LEMMA StepRefines ==
  ASSUME IInv, [Next]_vars
  PROVE  Ledger!Next \/ UNCHANGED view
<1>1. Evolves
  BY NextEvolves DEF IInv
<1>2. CASE \/ \E r \in Rules : Command(r) \/ SetAside(r)
           \/ ReplaceKey \/ CheckKey \/ BadData \/ StartUp \/ Crash \/ UNCHANGED vars
           \/ PhaseBegins \/ ReadEvaluations \/ PhaseEnds \/ (\E e \in Ids : Skip(e) \/ Take(e))
           \/ Claim \/ LogOutcome \/ Fenced
  BY <1>1, <1>2, AsideQuiet, QuietStutters
<1>3. CASE Prepare
  BY <1>1, <1>3, MadeOpens
<1> QED BY <1>1, <1>2, <1>3, RecoveryRefines, AttemptRefines, OperatorRefines, VenueRefines DEF Next, Phase

\* The withdrawal rules keep to the ledger: one withdrawal of a rule open at a time, whose
\* request leaves once and is taken only while it is open, and an end that is true and final.
THEOREM WithdrawalsImplement == Spec => ImplementsLedger
<1>1. Init => Ledger!Init
  BY DEF Init, Ledger!Init, Fate, Became, Owner, Request
<1>2. IInv /\ [Next]_vars => [Ledger!Next]_view
  BY StepRefines
<1> QED
  BY <1>1, <1>2, Invariant, PTL DEF Spec, ImplementsLedger, Ledger!Spec, view

-----------------------------------------------------------------------------
\* A withdrawal that has ended keeps its end, and the venue does not take its request any
\* more: what follows from the ledger.
Ended == {"withdrew", "failed", "void"}
Final ==
  \A e \in Ids : Fate(e) \in Ended =>
    Fate(e)' = Fate(e) /\ (Request(e)' = "taken" => Request(e) = "taken")

LEMMA LedgerFinal == ASSUME Ledger!Next PROVE Final
<1> SUFFICES ASSUME NEW e \in Ids, Fate(e) \in Ended
             PROVE  Fate(e)' = Fate(e) /\ (Request(e)' = "taken" => Request(e) = "taken")
  BY DEF Final
<1> DEFINE fates == [x \in Ids |-> Fate(x)]
           requests == [x \in Ids |-> Request(x)]
<1>1. fates[e] \in Ended
  OBVIOUS
<1>2. PICK f \in Ids : \/ \E r \in Rules : Ledger!Open(f, r)
                       \/ Ledger!Leaves(f) \/ Ledger!Takes(f) \/ Ledger!Undoes(f)
                       \/ Ledger!Withdrew(f) \/ Ledger!Failed(f) \/ Ledger!Void(f)
  BY DEF Ledger!Next
<1> USE DEF Ledger!Open, Ledger!Leaves, Ledger!Takes, Ledger!Undoes, Ledger!Moves,
            Ledger!Withdrew, Ledger!Failed, Ledger!Void, Ledger!Ends
<1>3. CASE fates[f] \in {"new", "open"}
  <2>1. f # e
    BY <1>1, <1>3 DEF Ended
  <2>2. fates' = fates \/ \E to : fates' = [fates EXCEPT ![f] = to]
    BY <1>2
  <2>3. requests' = requests \/ \E to : requests' = [requests EXCEPT ![f] = to]
    BY <1>2
  <2>4. fates'[e] = fates[e] /\ requests'[e] = requests[e]
    BY <2>1, <2>2, <2>3
  <2> QED BY <2>4
<1>4. CASE fates[f] \notin {"new", "open"}
  <2>1. fates' = fates /\ requests' = [requests EXCEPT ![f] = "undone"]
    BY <1>2, <1>4
  <2>2. fates'[e] = fates[e] /\ (requests'[e] = "taken" => requests[e] = "taken")
    BY <2>1
  <2> QED BY <2>2
<1> QED BY <1>3, <1>4

\* Nothing takes back what the log said at the end of a withdrawal: not a late reply, a
\* recovery, the operator, a new evaluation or a restart.
THEOREM EndsFinal == Spec => [][Final]_vars
<1>1. ASSUME UNCHANGED view PROVE Final
  <2> SUFFICES ASSUME NEW e \in Ids PROVE Fate(e)' = Fate(e) /\ Request(e)' = Request(e)
    BY DEF Final
  <2>1. [x \in Ids |-> Fate(x)]'[e] = [x \in Ids |-> Fate(x)][e]
    BY <1>1 DEF view
  <2>2. [x \in Ids |-> Request(x)]'[e] = [x \in Ids |-> Request(x)][e]
    BY <1>1 DEF view
  <2> QED BY <2>1, <2>2
<1>2. IInv /\ [Next]_vars => [Final]_vars
  BY <1>1, LedgerFinal, StepRefines
<1> QED BY <1>2, Invariant, PTL DEF Spec
=============================================================================
