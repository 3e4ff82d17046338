------------------------------ MODULE ApiOrders ------------------------------
(***************************************************************************)
(* An order sent through the REST API or MCP (rust/src/engine/api_orders,  *)
(* rust/src/web/bot_api/orders, rust/src/web/rest and rest_idempotency):   *)
(* the web server claims the caller's Idempotency-Key, writes a request    *)
(* row and waits; the engine takes the row, claims it, sends the order     *)
(* once and answers the row; the web server reads the answer, deletes the  *)
(* row and stores the answer on the key.  Both live in one process, and    *)
(* a start of the process settles what the previous one left behind.       *)
(*                                                                         *)
(* Every committed write is one action; what a task does between two       *)
(* commits is lost with the process.  Row ids are reused, as SQLite does.  *)
(* There is no clock: every deadline (the request's window, its last send, *)
(* the cap of the wait, the age of a swept row) may pass at any moment.    *)
(***************************************************************************)
EXTENDS Integers, FiniteSets, FiniteSetsExt

CONSTANTS
  Requests,    \* the calls the clients make, each by a task of the web server
  Keys,        \* the Idempotency-Keys they may send; MCP sends none
  None,
  Accounts,    \* whether an order may go through a bot (FALSE), or none (TRUE)
  MaxStarts    \* bound: starts of the process

ASSUME RequestsAssumption == IsFiniteSet(Requests)
ASSUME BoundsAssumption == MaxStarts \in Nat /\ Accounts \subseteq BOOLEAN

VARIABLES
  starts,    \* starts of the process so far
  up,        \* the process runs
  order,     \* rust_api_orders, with the standalone side row: by id
  key,       \* idempotency_keys: the state, and what the stored answer says
  link,      \* rust_idempotency_orders: the order row a key's claim queued
  task,      \* the web server's task of each call
  engine,    \* the request the engine works on
  unswept,   \* the sweep of the start failed: none is taken before it is retried
  sent,      \* history: the calls whose order request left
  booked     \* the calls whose order the venue accepted

database == <<order, key, link>>
venue    == <<sent, booked>>
vars     == <<starts, up, database, task, engine, unswept, venue>>

Ids == 1..Cardinality(Requests)

\* An order row: `account` marks one that goes through no bot, `for` is its call.
Live  == {"queued", "taken", "sending"}
Over  == {"done", "withdrawn"}
Order == [state : Live \cup Over, outcome : {"none", "placed", "nothing", "maybe"},
          account : BOOLEAN, for : Requests]
ASSUME NoneAssumption == None \notin Keys \cup Nat \cup Order

\* What an answer tells the caller of the venue: it has the order, it never will, or
\* the order may have been placed.
Answers == {"placed", "nothing", "maybe"}
Key     == [state : {"free", "in_progress", "completed"}, answer : Answers \cup {"none"}]

Task   == [pc : {"new", "claimed", "waiting", "reading", "answering", "over", "lost"},
           key : Keys \cup {None}, id : Ids \cup {0},
           answer : Answers \cup {"none"}]
Lost(t) == [t EXCEPT !.pc = "lost", !.id = 0, !.answer = "none"]
NoTask == [pc |-> "new", key |-> None, id |-> 0, answer |-> "none"]
Engine == [pc : {"idle", "taken", "claimed", "sent"}, id : Ids \cup {0}, again : BOOLEAN]
Idle   == [pc |-> "idle", id |-> 0, again |-> FALSE]

Exists(i)   == order[i] # None
In(i, s)    == Exists(i) /\ order[i].state \in s
Linked(k)   == link[k] \in Ids
FreeKey     == [state |-> "free", answer |-> "none"]
\* The log an API cancel reads: a placed standalone order is kept.
Kept(o)     == o.state = "done" /\ o.account /\ o.outcome = "placed"
\* SQLite's id of a new row: one more than the largest in the table.
NextId      == 1 + Max({0} \cup {i \in Ids : Exists(i)})
\* mutant: the links stay
DeleteRowsOnly(ids) == /\ order' = [i \in Ids |-> IF i \in ids THEN None ELSE order[i]]
                       /\ UNCHANGED link
\* Deletes the rows, and first the links of keys that name them.
Delete(ids) == /\ order' = [i \in Ids |-> IF i \in ids THEN None ELSE order[i]]
               /\ link' = [k \in Keys |-> IF link[k] \in ids THEN None ELSE link[k]]

Init ==
  /\ starts = 0 /\ up = FALSE
  /\ order = [i \in Ids |-> None]
  /\ key = [k \in Keys |-> FreeKey] /\ link = [k \in Keys |-> None]
  /\ task = [r \in Requests |-> NoTask] /\ engine = Idle /\ unswept = FALSE
  /\ sent = {} /\ booked = {}

-----------------------------------------------------------------------------
(* The web server's task of one call. *)

\* The key is claimed, with an empty link, in a transaction of its own.
ClaimKey(r, k) ==
  /\ up /\ task[r].pc = "new" /\ key[k].state = "free"
  /\ key' = [key EXCEPT ![k].state = "in_progress"]
  /\ link' = [link EXCEPT ![k] = 0]
  /\ task' = [task EXCEPT ![r].pc = "claimed", ![r].key = k]
  /\ UNCHANGED <<starts, up, order, engine, unswept, venue>>

\* The key is taken: the answer stored on it, or a conflict (while it is in progress, or
\* another payload than this call's was sent with it).
Replay(r, k) ==
  /\ up /\ task[r].pc = "new" /\ key[k].state # "free"
  /\ \E a \in {"none"} \cup {key[k].answer} :
       task' = [task EXCEPT ![r].pc = "over", ![r].key = k, ![r].answer = a]
  /\ UNCHANGED <<starts, up, database, engine, unswept, venue>>

\* Every check passed: the row is queued, linked to the key it was sent with.  An MCP
\* call has no key.
Queue(r, account) ==
  /\ up /\ task[r].pc \in {"new", "claimed"}
  /\ order' = [order EXCEPT ![NextId] =
       [state |-> "queued", outcome |-> "none", account |-> account, for |-> r]]
  /\ link' = IF task[r].key = None THEN link ELSE [link EXCEPT ![task[r].key] = NextId]
  /\ task' = [task EXCEPT ![r].pc = "waiting", ![r].id = NextId]
  /\ UNCHANGED <<starts, up, key, engine, unswept, venue>>

\* A check refuses the call before anything is queued.
RefuseCall(r) ==
  /\ up /\ task[r].pc = "claimed"
  /\ task' = [task EXCEPT ![r].pc = "answering", ![r].answer = "nothing"]
  /\ UNCHANGED <<starts, up, database, engine, unswept, venue>>

\* A venue this build does not trade: the key is given back unused.
NotPorted(r) ==
  /\ up /\ task[r].pc = "claimed"
  /\ key' = [key EXCEPT ![task[r].key] = FreeKey]
  /\ link' = [link EXCEPT ![task[r].key] = None]
  /\ task' = [task EXCEPT ![r].pc = "over", ![r].id = 0]
  /\ UNCHANGED <<starts, up, order, engine, unswept, venue>>

\* No pass took the request in time: exactly one of this and Take wins.
Withdraw(r) ==
  /\ up /\ task[r].pc = "waiting" /\ In(task[r].id, {"queued"})
  /\ order' = [order EXCEPT ![task[r].id].state = "withdrawn"]
  /\ task' = [task EXCEPT ![r].pc = "reading", ![r].answer = "nothing"]
  /\ UNCHANGED <<starts, up, key, link, engine, unswept, venue>>

ReadAnswer(r) ==
  /\ up /\ task[r].pc = "waiting" /\ In(task[r].id, Over)
  /\ LET o == order[task[r].id]
     IN  IF o.state = "withdrawn"
         THEN task' = [task EXCEPT ![r].pc = "answering", ![r].answer = "nothing"]
         ELSE task' = [task EXCEPT ![r].pc = "reading", ![r].answer = o.outcome]
  /\ UNCHANGED <<starts, up, database, engine, unswept, venue>>

\* mutant: the log of a placed order is deleted too
ForgetAll(r) ==
  /\ up /\ task[r].pc = "reading" /\ Delete({task[r].id})
  /\ task' = [task EXCEPT ![r].pc = "answering"]
  /\ UNCHANGED <<starts, up, key, engine, unswept, venue>>

\* What was read is deleted, unless it is the log of a placed standalone order.
Forget(r) ==
  /\ up /\ task[r].pc = "reading"
  /\ IF Kept(order[task[r].id]) THEN UNCHANGED <<order, link>> ELSE Delete({task[r].id})
  /\ task' = [task EXCEPT ![r].pc = "answering"]
  /\ UNCHANGED <<starts, up, key, engine, unswept, venue>>

\* mutant: a wait that was given up is answered as a failure
GiveUpFailed(r) ==
  /\ up /\ task[r].pc \in {"waiting", "reading"}
  /\ task' = [task EXCEPT ![r].pc = "answering", ![r].answer = "nothing"]
  /\ UNCHANGED <<starts, up, database, engine, unswept, venue>>

\* The cap passed, or the answer could not be read: it may have been placed.
GiveUp(r) ==
  /\ up /\ task[r].pc \in {"waiting", "reading"}
  /\ task' = [task EXCEPT ![r].pc = "answering", ![r].answer = "maybe"]
  /\ UNCHANGED <<starts, up, database, engine, unswept, venue>>

\* The answer is stored on the key, if there is one, and given.
Complete(r) ==
  /\ up /\ task[r].pc = "answering"
  /\ LET k == task[r].key
     IN  IF k = None THEN UNCHANGED <<key, link>>
         ELSE /\ key' = [key EXCEPT ![k] = [state |-> "completed", answer |-> task[r].answer]]
              /\ link' = [link EXCEPT ![k] = None]
  /\ task' = [task EXCEPT ![r].pc = "over", ![r].id = 0]
  /\ UNCHANGED <<starts, up, order, engine, unswept, venue>>

\* A database error: the claimed call, or its answer, is lost with the key in progress.
Strand(r) ==
  /\ up /\ task[r].pc \in {"claimed", "answering"}
  /\ task' = [task EXCEPT ![r] = Lost(task[r])]
  /\ UNCHANGED <<starts, up, database, engine, unswept, venue>>

-----------------------------------------------------------------------------
(* The engine: one request at a time. *)

\* What is left of earlier requests: nothing of it will be sent.
Settled == [i \in Ids |->
  IF In(i, {"queued"}) THEN [order[i] EXCEPT !.state = "withdrawn"]
  ELSE IF In(i, {"taken"}) THEN [order[i] EXCEPT !.state = "done", !.outcome = "nothing"]
  ELSE IF In(i, {"sending"}) THEN [order[i] EXCEPT !.state = "done", !.outcome = "maybe"]
  ELSE order[i]]

\* The sweep the start could not do, before any request is taken.
SweepOrders ==
  /\ up /\ engine = Idle /\ unswept
  /\ order' = Settled /\ unswept' = FALSE
  /\ UNCHANGED <<starts, up, key, link, task, engine, venue>>

Take(i) ==
  /\ up /\ engine = Idle /\ ~unswept /\ In(i, {"queued"})
  /\ order' = [order EXCEPT ![i].state = "taken"]
  /\ engine' = [pc |-> "taken", id |-> i, again |-> FALSE]
  /\ UNCHANGED <<starts, up, key, link, task, unswept, venue>>

\* The engine's own answer to the request in hand, in the transaction of what it wrote.
Finish(outcome) ==
  /\ order' = [order EXCEPT ![engine.id].state = "done", ![engine.id].outcome = outcome]
  /\ engine' = Idle

\* Refused while it is still taken: late, another key, a cap, a lock, a sizing error.
Refuse ==
  /\ up /\ engine.pc = "taken" /\ Finish("nothing")
  /\ UNCHANGED <<starts, up, key, link, task, unswept, venue>>

\* The claim, the last write before the request: from now it may have gone out.
Claim ==
  /\ up /\ engine.pc = "taken"
  /\ order' = [order EXCEPT ![engine.id].state = "sending"]
  /\ engine' = [engine EXCEPT !.pc = "claimed"]
  /\ UNCHANGED <<starts, up, key, link, task, unswept, venue>>

\* The commit waited past the send window: nothing is sent.
NotSent ==
  /\ up /\ engine.pc = "claimed" /\ Finish("nothing")
  /\ UNCHANGED <<starts, up, key, link, task, unswept, venue>>

Send ==
  /\ up /\ engine.pc = "claimed"
  /\ sent' = sent \cup {order[engine.id].for}
  /\ booked' \in {booked, booked \cup {order[engine.id].for}}
  /\ engine' = [engine EXCEPT !.pc = "sent"]
  /\ UNCHANGED <<starts, up, database, task, unswept>>

\* The venue's answer, or none that can be told: then it may have been placed.
Answer ==
  /\ up /\ engine.pc = "sent"
  /\ \/ Finish("maybe")
     \/ order[engine.id].for \in booked /\ Finish("placed")
     \/ order[engine.id].for \notin booked /\ Finish("nothing")
  /\ UNCHANGED <<starts, up, key, link, task, unswept, venue>>

\* A bot's order refused as never booked is sent once more, under a new intent.
Replace ==
  /\ up /\ engine.pc = "sent" /\ ~engine.again
  /\ ~order[engine.id].account /\ order[engine.id].for \notin booked
  /\ engine' = [engine EXCEPT !.pc = "claimed", !.again = TRUE]
  /\ UNCHANGED <<starts, up, database, task, unswept, venue>>

\* An error of the pass: answered by what the row says, or the pass ends with the row
\* as it is.
Fail ==
  /\ up /\ engine.pc # "idle"
  /\ \/ order[engine.id].state = "sending" /\ Finish("maybe")
     \/ order[engine.id].state = "taken" /\ Finish("nothing")
     \/ engine' = Idle /\ UNCHANGED order
  /\ UNCHANGED <<starts, up, key, link, task, unswept, venue>>

-----------------------------------------------------------------------------
(* The process. *)

\* mutant: an order whose outcome is unknown counts as one that was not placed
PlacedNothingKnown(k, rows) ==
  \/ link[k] = 0
  \/ Linked(k) /\ rows[link[k]] # None
     /\ \/ rows[link[k]].state = "withdrawn"
        \/ rows[link[k]].state = "done" /\ rows[link[k]].outcome \in {"nothing", "maybe"}

\* Whether the dead process's claim of the key provably placed nothing.
PlacedNothing(k, rows) ==
  \/ link[k] = 0
  \/ Linked(k) /\ rows[link[k]] # None
     /\ \/ rows[link[k]].state = "withdrawn"
        \/ rows[link[k]].state = "done" /\ rows[link[k]].outcome = "nothing"

\* sweep_at_start: the requests, then the keys in progress, then answered rows that are
\* old enough, with their links.
Sweep ==
  LET stale == {k \in Keys : key[k].state = "in_progress"}
      freed == {k \in stale : PlacedNothing(k, Settled)}
      ended == {i \in Ids : Exists(i) /\ ~Kept(Settled[i])}
  IN  \E old \in SUBSET ended :
        /\ key' = [k \in Keys |-> IF k \in freed THEN FreeKey
                                  ELSE IF k \in stale THEN [state |-> "completed", answer |-> "maybe"]
                                  ELSE key[k]]
        /\ link' = [k \in Keys |-> IF k \in stale \/ link[k] \in old THEN None ELSE link[k]]
        /\ order' = [i \in Ids |-> IF i \in old THEN None ELSE Settled[i]]
        /\ unswept' = FALSE

Start ==
  /\ ~up /\ starts < MaxStarts
  /\ up' = TRUE /\ starts' = starts + 1 /\ engine' = Idle
  /\ Sweep \/ (unswept' = TRUE /\ UNCHANGED database)
  /\ UNCHANGED <<task, venue>>

Crash ==
  /\ up /\ up' = FALSE /\ engine' = Idle
  /\ task' = [r \in Requests |-> IF task[r].pc \in {"new", "over"} THEN task[r]
                                 ELSE Lost(task[r])]
  /\ UNCHANGED <<starts, database, unswept, venue>>

-----------------------------------------------------------------------------

Call(r) ==
  \/ \E k \in Keys : ClaimKey(r, k) \/ Replay(r, k)
  \/ \E account \in Accounts : Queue(r, account)
  \/ RefuseCall(r) \/ NotPorted(r) \/ Withdraw(r) \/ ReadAnswer(r) \/ Forget(r)
  \/ GiveUp(r) \/ Complete(r) \/ Strand(r)

Pass == SweepOrders \/ (\E i \in Ids : Take(i)) \/ Refuse \/ Claim \/ NotSent \/ Send
        \/ Answer \/ Replace \/ Fail

Next == (\E r \in Requests : Call(r)) \/ Pass \/ Start \/ Crash

Spec == Init /\ [][Next]_vars

-----------------------------------------------------------------------------

TypeOK ==
  /\ starts \in Nat /\ up \in BOOLEAN /\ unswept \in BOOLEAN
  /\ order \in [Ids -> Order \cup {None}]
  /\ key \in [Keys -> Key] /\ link \in [Keys -> Ids \cup {0, None}]
  /\ task \in [Requests -> Task] /\ engine \in Engine
  /\ sent \subseteq Requests /\ booked \subseteq sent

\* What a caller was told, or a key will answer, is so: of "nothing was placed" no order
\* exists at the venue, then or later; of "placed" one does.
Tells(answer, calls) ==
  /\ answer = "nothing" => calls \cap booked = {}
  /\ answer = "placed" => calls \cap booked # {}
AnswersAreTrue ==
  /\ \A r \in Requests : task[r].key = None => Tells(task[r].answer, {r})
  /\ \A k \in Keys : Tells(key[k].answer, {r \in Requests : task[r].key = k})

\* A key in progress names no other call's order, though row ids are reused.
LinksNameTheirOwn ==
  \A k \in Keys : Linked(k) =>
    Exists(link[k]) /\ task[order[link[k]].for].key = k

\* A placed standalone order stays in the log that an API cancel reads: its row is never
\* deleted, rewritten or given to another call.
PlacedStaysLogged ==
  [][\A i \in Ids : Exists(i) /\ Kept(order[i]) => order'[i] = order[i]]_vars

-----------------------------------------------------------------------------
(* What an Idempotency-Key promises. *)

Stands(k)   == IF key[k].state = "completed" THEN key[k].answer
               ELSE IF key[k].state = "in_progress" THEN "held" ELSE "free"
OrdersOf(k) == {r \in booked : task[r].key = k}

Promise == INSTANCE IdempotencyKeys WITH
  stands <- [k \in Keys |-> Stands(k)], orders <- [k \in Keys |-> OrdersOf(k)]

\* However often a client resends a call with its Idempotency-Key, over crashes, failed
\* sweeps and reused row ids, the venue accepts one order of it at most, and none once the
\* key was given back or answered that nothing was placed; every answer is one of three,
\* true, and final.
ImplementsPromise == Promise!Spec
=============================================================================
