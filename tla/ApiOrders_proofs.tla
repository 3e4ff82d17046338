--------------------------- MODULE ApiOrders_proofs ---------------------------
(***************************************************************************)
(* Proofs about ApiOrders, for every set of calls and keys and any number  *)
(* of starts.                                                              *)
(***************************************************************************)
EXTENDS ApiOrders, FiniteSetTheorems, WellFoundedInduction, TLAPS

\* A call that may queue its order yet.
Early(r) == task[r].pc \in {"new", "claimed"}
Active(r) == task[r].pc \in {"claimed", "waiting", "reading", "answering"}
CallsOf(k) == {r \in Requests : task[r].key = k}

\* The venue has no order of the call, and no row of it can still be sent.
Unplaced(r) ==
  /\ r \notin booked
  /\ \A i \in Ids : Exists(i) /\ order[i].for = r => order[i].state \in Over

\* ... and no task will queue one.
Dead(r) == task[r].pc \in {"over", "lost"} /\ Unplaced(r)

\* A row is its call's only one, and says of the venue what is so.
Row(i) ==
  Exists(i) =>
    /\ ~Early(order[i].for)
    /\ \/ order[i].state \in {"queued", "taken", "withdrawn"}
       \/ order[i].state = "done" /\ order[i].outcome = "nothing"
       => order[i].for \notin booked
    /\ order[i].state = "done" /\ order[i].outcome = "placed" => order[i].for \in booked
Unique ==
  \A i, j \in Ids : Exists(i) /\ Exists(j) /\ order[i].for = order[j].for => i = j
\* Ids are used up by calls only: the next one is free to take.
Counted ==
  \A i \in Ids : Exists(i) => i <= Cardinality({r \in Requests : ~Early(r)})

Tasked(r) ==
  /\ task[r].pc = "new" => task[r].key = None
  /\ task[r].pc = "claimed" => task[r].key # None
  /\ Early(r) => r \notin booked
  /\ task[r].pc \in {"new", "claimed", "waiting", "lost"} => task[r].answer = "none"
  /\ task[r].pc \in {"waiting", "reading"} =>
       task[r].id \in Ids /\ Exists(task[r].id) /\ order[task[r].id].for = r
  /\ task[r].pc = "reading" => order[task[r].id].state \in Over
  /\ task[r].pc \in {"reading", "answering"} \/ task[r].key = None =>
       /\ task[r].answer = "nothing" => Unplaced(r)
       /\ task[r].answer = "placed" => r \in booked
  /\ Active(r) => up
  /\ Active(r) /\ task[r].key # None => key[task[r].key].state = "in_progress"

Keyed(k) ==
  /\ key[k].state # "completed" => key[k].answer = "none"
  /\ key[k].state = "free" => \A r \in CallsOf(k) : Dead(r)
  /\ key[k].answer = "nothing" \/ link[k] = 0 => \A r \in CallsOf(k) : Unplaced(r)
  /\ key[k].answer = "placed" => \E r \in CallsOf(k) : r \in booked
  /\ Linked(k) =>
       /\ Exists(link[k]) /\ task[order[link[k]].for].key = k
       /\ \A r \in CallsOf(k) : r # order[link[k]].for => Dead(r)
  /\ \A r, s \in CallsOf(k) : r # s => Dead(r) \/ Dead(s)

Hand ==
  /\ engine.pc # "idle" => up /\ engine.id \in Ids /\ Exists(engine.id)
  /\ engine.pc = "taken" => order[engine.id].state = "taken"
  /\ engine.pc \in {"claimed", "sent"} => order[engine.id].state = "sending"
  /\ engine.pc = "claimed" => order[engine.id].for \notin booked

IInv ==
  /\ TypeOK /\ Hand /\ Unique /\ Counted
  /\ \A i \in Ids : Row(i)
  /\ \A r \in Requests : Tasked(r)
  /\ \A k \in Keys : Keyed(k)
-----------------------------------------------------------------------------
\* Of the ids in use, the next one is the first above.
LEMMA NextFree ==
  ASSUME IsFiniteSet(Requests)
  PROVE  /\ NextId \in Nat \ {0}
         /\ \A i \in Ids : Exists(i) => i < NextId
         /\ NextId = 1 \/ (NextId - 1 \in Ids /\ Exists(NextId - 1))
<1> DEFINE used == {0} \cup {i \in Ids : Exists(i)}
           above == {n \in Nat : \A i \in used : i <= n}
<1>1. Cardinality(Requests) \in Nat
  BY FS_CardinalityType
<1>2. used \subseteq Nat /\ 0 \in used /\ \A i \in used : i <= Cardinality(Requests)
  BY <1>1 DEF Ids
<1> HIDE DEF used
<1>3. Cardinality(Requests) \in above
  BY <1>1, <1>2
<1>4. PICK n \in above : \A m \in above : ~(<<m, n>> \in OpToRel(<, Nat))
  BY <1>3, NatLessThanWellFounded, WFMin
<1>5. \A m \in above : ~(m < n)
  BY <1>4 DEF OpToRel
<1>6. n \in used
  <2>1. CASE n = 0
    BY <1>2, <2>1
  <2>2. CASE n # 0 /\ n \notin used
    <3>1. n - 1 \in above
      BY <1>2, <2>2
    <3> QED BY <1>5, <3>1
  <2> QED BY <2>1, <2>2
<1>7. Max(used) = n
  <2>1. n \in used /\ \A i \in used : n >= i
    BY <1>2, <1>6
  <2>2. \A x \in used : (\A i \in used : x >= i) => x = n
    BY <1>2, <2>1
  <2> QED BY <2>1, <2>2 DEF Max
<1>8. NextId = 1 + n
  BY <1>7 DEF NextId, used
<1> QED BY <1>2, <1>6, <1>8 DEF used
-----------------------------------------------------------------------------
\* Rows only age: none is made, none changes its call, none answered is rewritten.
Ages ==
  \A i \in Ids : order'[i] # None =>
    order[i] # None /\ order'[i].for = order[i].for /\ (order[i].state \in Over => order'[i] = order[i])

\* The venue books at most a call whose row is live.
Books ==
  booked' = booked \/ \E i \in Ids : Exists(i) /\ order[i].state \in Live /\ booked' = booked \cup {order[i].for}

LEMMA LiveOrOver == Live \cap Over = {}
  BY DEF Live, Over

LEMMA RowsAge ==
  ASSUME IInv, Ages, Books, \A r \in Requests : ~Early(r) => ~Early(r)'
  PROVE  /\ Unique' /\ Counted' /\ booked \subseteq booked'
         /\ \A r \in Requests : Unplaced(r) => Unplaced(r)'
         /\ \A r \in Requests : Early(r) => r \notin booked'
<1>1. Unique'
  BY DEF Ages, IInv, Unique, Exists
<1>2. Counted'
  <2> DEFINE S == {r \in Requests : ~Early(r)}
  <2>1. IsFiniteSet(S') /\ S \subseteq S'
    BY RequestsAssumption, FS_Subset
  <2>2. Cardinality(S) <= Cardinality(S') /\ Cardinality(S) \in Nat /\ Cardinality(S') \in Nat
    BY <2>1, FS_Subset, FS_CardinalityType
  <2>3. \A i \in Ids : Exists(i)' => i \in Nat /\ i <= Cardinality(S)
    BY DEF Ages, IInv, Counted, Exists, Ids
  <2> HIDE DEF S
  <2>4. \A i \in Ids : Exists(i)' => i <= Cardinality(S')
    BY <2>2, <2>3
  <2> QED BY <2>4 DEF Counted, S, Ids
<1>3. booked \subseteq booked' /\ \A r \in Requests : Early(r) => r \notin booked'
  BY DEF Books, IInv, Row, Tasked
<1>4. \A r \in Requests : Unplaced(r) => Unplaced(r)'
  <2> SUFFICES ASSUME NEW r \in Requests, Unplaced(r) PROVE Unplaced(r)'
    OBVIOUS
  <2>1. r \notin booked'
    BY LiveOrOver DEF Books, Unplaced
  <2>2. \A i \in Ids : Exists(i)' /\ order'[i].for = r => order'[i].state \in Over
    BY DEF Ages, Unplaced, Exists
  <2> QED BY <2>1, <2>2 DEF Unplaced, Ids
<1> QED BY <1>1, <1>2, <1>3, <1>4

LEMMA TaskStays ==
  ASSUME IInv, NEW r \in Requests, task'[r] = task[r], up' = up,
         Unplaced(r) => Unplaced(r)', booked \subseteq booked', Early(r) => r \notin booked',
         task[r].pc \in {"waiting", "reading"} =>
           order'[task[r].id] # None /\ order'[task[r].id].for = r
             /\ (order[task[r].id].state \in Over => order'[task[r].id] = order[task[r].id]),
         Active(r) /\ task[r].key # None => key'[task[r].key] = key[task[r].key]
  PROVE  Tasked(r)'
  BY DEF IInv, Tasked, Early, Active, Exists, Ids

LEMMA KeyStays ==
  ASSUME IInv, NEW k \in Keys, key'[k] = key[k], link'[k] \in {link[k], None}, booked \subseteq booked',
         \A r \in Requests : task'[r].key = k <=> task[r].key = k,
         \A r \in CallsOf(k) : /\ Unplaced(r) => Unplaced(r)'
                               /\ task[r].pc \in {"over", "lost"} => task'[r].pc \in {"over", "lost"},
         link'[k] \in Ids => order'[link[k]] # None /\ order'[link[k]].for = order[link[k]].for
  PROVE  Keyed(k)'
<1>1. None \notin Nat
  BY NoneAssumption
<1>2. CallsOf(k)' = CallsOf(k)
  BY DEF CallsOf
<1>3. \A r \in CallsOf(k) : Dead(r) => Dead(r)'
  BY DEF Dead
<1>4. Keyed(k)
  BY DEF IInv
<1>5. \A r \in CallsOf(k) : r \in Requests
  BY DEF CallsOf
<1>6. link'[k] = 0 => link[k] = 0
  BY <1>1
<1>7. link'[k] \in Ids => link'[k] = link[k]
  BY <1>1 DEF Ids
<1>8. Linked(k)' => Linked(k) /\ Exists(link[k])' /\ (order[link[k]].for)' = order[link[k]].for
                   /\ (task[order[link[k]].for].key)' = k
  <2> SUFFICES ASSUME Linked(k)' PROVE Linked(k) /\ Exists(link[k])' /\ (order[link[k]].for)' = order[link[k]].for
                   /\ (task[order[link[k]].for].key)' = k
    OBVIOUS
  <2>1. link'[k] = link[k] /\ link[k] \in Ids
    BY <1>7 DEF Linked, Ids
  <2>2. Exists(link[k]) /\ task[order[link[k]].for].key = k
    BY <1>4, <2>1 DEF Keyed, Linked
  <2>3. order[link[k]].for \in Requests
    BY <2>1, <2>2 DEF IInv, TypeOK, Order, Exists
  <2> QED BY <2>1, <2>2, <2>3 DEF Linked, Exists
<1> QED BY <1>2, <1>3, <1>4, <1>5, <1>6, <1>8 DEF Keyed

\* A step of the engine: one row ages, or none.
LEMMA EngineStep ==
  ASSUME IInv, UNCHANGED <<up, key, link, task>>, Ages, Books,
         \A i \in Ids : Exists(i) => order'[i] # None,
         \A i \in Ids : Row(i)', Hand', TypeOK'
  PROVE  IInv'
<1>1. /\ Unique' /\ Counted' /\ booked \subseteq booked'
      /\ \A r \in Requests : Unplaced(r) => Unplaced(r)'
      /\ \A r \in Requests : Early(r) => r \notin booked'
  BY RowsAge DEF Early
<1>2. ASSUME NEW r \in Requests PROVE Tasked(r)'
  <2>1. task[r].pc \in {"waiting", "reading"} =>
           order'[task[r].id] # None /\ order'[task[r].id].for = r
             /\ (order[task[r].id].state \in Over => order'[task[r].id] = order[task[r].id])
    BY DEF IInv, Tasked, Ages, Exists
  <2> QED BY <1>1, <2>1, TaskStays
<1>3. ASSUME NEW k \in Keys PROVE Keyed(k)'
  <2>1. link'[k] \in Ids => order'[link[k]] # None /\ order'[link[k]].for = order[link[k]].for
    BY DEF IInv, Keyed, Linked, Ages, Exists
  <2> QED BY <1>1, <2>1, KeyStays DEF CallsOf
<1> QED BY <1>1, <1>2, <1>3 DEF IInv, Ids
\* One live row is rewritten, to what is so of its call.
Rewrites(e) ==
  /\ Exists(e) /\ order[e].state \in Live
  /\ order' \in [Ids -> Order \cup {None}] /\ order'[e] # None /\ order'[e].for = order[e].for
  /\ \A i \in Ids \ {e} : order'[i] = order[i]
  /\ \/ order'[e].state \in {"queued", "taken", "withdrawn"}
     \/ order'[e].state = "done" /\ order'[e].outcome = "nothing"
     => order[e].for \notin booked
  /\ order'[e].state = "done" /\ order'[e].outcome = "placed" => order[e].for \in booked

LEMMA RewritesAge ==
  ASSUME IInv, NEW e \in Ids, Rewrites(e), booked' = booked, \A r \in Requests : ~Early(r) => ~Early(r)'
  PROVE  /\ Ages /\ Books /\ \A i \in Ids : Exists(i) => order'[i] # None
         /\ \A i \in Ids : Row(i)'
<1>1. Ages
  BY LiveOrOver DEF Rewrites, Ages, Exists
<1>2. ASSUME NEW i \in Ids PROVE Row(i)'
  <2>1. Row(i) /\ Row(e)
    BY DEF IInv
  <2>2. Exists(i) => order[i].for \in Requests
    BY DEF IInv, TypeOK, Order, Exists
  <2>3. CASE i = e
    <3>1. ~Early(order[e].for) /\ ~Early(order[e].for)'
      BY <2>1, <2>2, <2>3 DEF Row, Rewrites
    <3> QED BY <2>1, <2>3, <3>1 DEF Rewrites, Row, Early, Exists
  <2>4. CASE i # e
    <3>1. order'[i] = order[i]
      BY <2>4 DEF Rewrites
    <3> QED BY <2>1, <2>2, <3>1 DEF Row, Early, Exists
  <2> QED BY <2>3, <2>4
<1> QED BY <1>1, <1>2 DEF Books, Rewrites, Exists

\* A row answered.
LEMMA DoneRow ==
  ASSUME NEW o \in Order, NEW w \in Answers
  PROVE  LET done == [state |-> "done", outcome |-> w, account |-> o.account, for |-> o.for] IN
         /\ [o EXCEPT !.state = "done", !.outcome = w] = done
         /\ done \in Order /\ done # None
<1> DEFINE done == [state |-> "done", outcome |-> w, account |-> o.account, for |-> o.for]
           half == [state |-> "done", outcome |-> o.outcome, account |-> o.account, for |-> o.for]
<1>1. o = [state |-> o.state, outcome |-> o.outcome, account |-> o.account, for |-> o.for]
  BY DEF Order
<1>2. [o EXCEPT !.state = "done"] = half
  BY <1>1
<1>3. [half EXCEPT !.outcome = w] = done
  OBVIOUS
<1>4. done \in Order
  BY DEF Order, Answers, Over
<1>5. [o EXCEPT !.state = "done", !.outcome = w] = done
  BY <1>2, <1>3
<1> QED BY <1>4, <1>5, NoneAssumption

LEMMA DoneIn ==
  ASSUME NEW e \in Ids, NEW w \in Answers, TypeOK, Exists(e),
         order' = [order EXCEPT ![e].state = "done", ![e].outcome = w]
  PROVE  order' = [order EXCEPT ![e] =
                     [state |-> "done", outcome |-> w, account |-> order[e].account, for |-> order[e].for]]
<1> DEFINE o == order[e]
<1>1. o \in Order
  BY DEF TypeOK, Exists
<1>2. order' = [order EXCEPT ![e] = [o EXCEPT !.state = "done", !.outcome = w]]
  BY DEF TypeOK
<1> QED BY <1>1, <1>2, DoneRow

LEMMA FinishRewrites ==
  ASSUME IInv, NEW outcome \in Answers, engine.pc # "idle", Finish(outcome),
         outcome = "nothing" => order[engine.id].for \notin booked,
         outcome = "placed" => order[engine.id].for \in booked
  PROVE  engine.id \in Ids /\ Rewrites(engine.id) /\ engine' = Idle
<1>1. engine.id \in Ids /\ Exists(engine.id) /\ order[engine.id].state \in {"taken", "sending"}
  BY DEF IInv, Hand, TypeOK, Engine
<1> DEFINE o == order[engine.id]
           done == [state |-> "done", outcome |-> outcome, account |-> o.account, for |-> o.for]
<1>2. o \in Order
  BY <1>1 DEF IInv, TypeOK, Exists
<1>3. done \in Order
  BY <1>2, DoneRow
<1>4. order' = [order EXCEPT ![engine.id] = done]
  BY <1>1, DoneIn DEF Finish, IInv
<1>6. done.state = "done" /\ done.outcome = outcome /\ done.for = o.for /\ done # None
  BY <1>3, NoneAssumption
<1> HIDE DEF done
<1>7. /\ order' \in [Ids -> Order \cup {None}] /\ order'[engine.id] = done
      /\ \A i \in Ids \ {engine.id} : order'[i] = order[i]
  BY <1>1, <1>3, <1>4 DEF IInv, TypeOK
<1> QED BY <1>1, <1>6, <1>7 DEF Rewrites, Finish, Live

LEMMA IdleHand == ASSUME engine' = Idle PROVE Hand' /\ engine' \in Engine
  BY DEF Hand, Idle, Engine

LEMMA FinishInv ==
  ASSUME IInv, NEW outcome \in Answers, engine.pc # "idle", Finish(outcome),
         outcome = "nothing" => order[engine.id].for \notin booked,
         outcome = "placed" => order[engine.id].for \in booked,
         UNCHANGED <<starts, up, key, link, task, unswept, venue>>
  PROVE  IInv'
<1> USE DEF venue
<1>1. engine.id \in Ids /\ Rewrites(engine.id) /\ engine' = Idle
  BY FinishRewrites
<1>2. TypeOK'
  BY <1>1, IdleHand DEF Rewrites, IInv, TypeOK
<1>3. \A r \in Requests : ~Early(r) => ~Early(r)'
  BY DEF Early
<1> QED BY <1>1, <1>2, <1>3, RewritesAge, IdleHand, EngineStep

LEMMA MovesInv ==
  ASSUME IInv, NEW e \in Ids, NEW state \in {"taken", "sending"}, Exists(e),
         order[e].state = "queued" \/ (order[e].state = "taken" /\ state = "sending"),
         order' = [order EXCEPT ![e].state = state],
         UNCHANGED <<starts, up, key, link, task, unswept, venue>>, up,
         engine' \in Engine, engine'.id = e, engine'.pc = IF state = "taken" THEN "taken" ELSE "claimed"
  PROVE  IInv'
<1> USE DEF venue
<1>1. order[e] \in Order
  BY DEF IInv, TypeOK, Exists
<1> DEFINE o == [state |-> state, outcome |-> order[e].outcome, account |-> order[e].account, for |-> order[e].for]
<1>2. o \in Order /\ [order[e] EXCEPT !.state = state] = o
  BY <1>1 DEF Order, Live
<1>3. o.state = state /\ o.for = order[e].for /\ o # None
  BY <1>2, NoneAssumption
<1>4. order' = [order EXCEPT ![e] = o]
  BY <1>2
<1> HIDE DEF o
<1>5. /\ order' \in [Ids -> Order \cup {None}] /\ order'[e] = o
      /\ \A i \in Ids \ {e} : order'[i] = order[i]
  BY <1>2, <1>4 DEF IInv, TypeOK
<1>6. order[e].for \notin booked
  BY DEF IInv, Row
<1>7. Rewrites(e)
  BY <1>3, <1>5, <1>6 DEF Rewrites, Live
<1>8. Hand'
  BY <1>3, <1>5, <1>6 DEF Hand, Exists, Ids
<1>9. TypeOK'
  BY <1>5 DEF IInv, TypeOK
<1>10. \A r \in Requests : ~Early(r) => ~Early(r)'
  BY DEF Early
<1> QED BY <1>7, <1>8, <1>9, <1>10, RewritesAge, EngineStep

\* The engine's own steps.
LEMMA TakeInv == ASSUME IInv, NEW i \in Ids, Take(i) PROVE IInv'
<1>1. engine' \in Engine /\ engine'.id = i /\ engine'.pc = "taken"
  BY DEF Take, Engine
<1>2. Exists(i) /\ order[i].state = "queued" /\ up /\ order' = [order EXCEPT ![i].state = "taken"]
  BY DEF Take, In
<1> QED BY <1>1, <1>2, MovesInv DEF Take

LEMMA ClaimInv == ASSUME IInv, Claim PROVE IInv'
<1>1. engine.id \in Ids /\ Exists(engine.id) /\ order[engine.id].state = "taken" /\ up
  BY DEF Claim, IInv, Hand
<1>2. engine' \in Engine /\ engine'.id = engine.id /\ engine'.pc = "claimed"
  BY DEF Claim, Engine, IInv, TypeOK
<1>3. order' = [order EXCEPT ![engine.id].state = "sending"]
  BY DEF Claim
<1> QED BY <1>1, <1>2, <1>3, MovesInv DEF Claim

\* What is left of earlier requests, settled.
LEMMA SettledRows ==
  ASSUME IInv
  PROVE  /\ Settled \in [Ids -> Order \cup {None}]
         /\ \A i \in Ids : Settled[i] # None <=> Exists(i)
         /\ \A i \in Ids : Exists(i) =>
              /\ Settled[i].for = order[i].for /\ Settled[i].state \in Over
              /\ order[i].state \in Over => Settled[i] = order[i]
              /\ Settled[i].state = "done" /\ Settled[i].outcome = "placed" => Settled[i] = order[i]
              /\ Settled[i].state = "withdrawn" \/ (Settled[i].state = "done" /\ Settled[i].outcome = "nothing")
                   => order[i].for \notin booked
<1> SUFFICES ASSUME NEW i \in Ids
    PROVE /\ Settled[i] \in Order \cup {None} /\ (Settled[i] # None <=> Exists(i))
          /\ Exists(i) =>
              /\ Settled[i].for = order[i].for /\ Settled[i].state \in Over
              /\ order[i].state \in Over => Settled[i] = order[i]
              /\ Settled[i].state = "done" /\ Settled[i].outcome = "placed" => Settled[i] = order[i]
              /\ Settled[i].state = "withdrawn" \/ (Settled[i].state = "done" /\ Settled[i].outcome = "nothing")
                   => order[i].for \notin booked
  BY DEF Settled
<1>1. CASE ~Exists(i)
  BY <1>1 DEF Settled, In, Exists
<1>2. CASE Exists(i)
  <2> DEFINE o == order[i]
  <2>1. o \in Order /\ Row(i) /\ o # None
    BY <1>2 DEF IInv, TypeOK, Exists
  <2>4. CASE o.state = "queued"
    <3>1. Settled[i] = [o EXCEPT !.state = "withdrawn"]
      BY <1>2, <2>4 DEF Settled, In
    <3>2. [o EXCEPT !.state = "withdrawn"] = [state |-> "withdrawn", outcome |-> o.outcome, account |-> o.account, for |-> o.for]
      BY <2>1 DEF Order
    <3>3. [state |-> "withdrawn", outcome |-> o.outcome, account |-> o.account, for |-> o.for] \in Order
      BY <2>1 DEF Order, Over
    <3>4. Settled[i] \in Order /\ Settled[i] # None /\ Settled[i].state = "withdrawn" /\ Settled[i].for = o.for
      BY <3>1, <3>2, <3>3, NoneAssumption
    <3> QED BY <1>2, <2>1, <2>4, <3>4 DEF Row, Over, Live
  <2>5. CASE o.state = "taken"
    <3> DEFINE done == [state |-> "done", outcome |-> "nothing", account |-> o.account, for |-> o.for]
    <3>1. Settled[i] = [o EXCEPT !.state = "done", !.outcome = "nothing"]
      BY <1>2, <2>5 DEF Settled, In
    <3>2. Settled[i] = done /\ done \in Order /\ done # None
      BY <2>1, <3>1, DoneRow DEF Answers
    <3>3. done.state = "done" /\ done.for = o.for /\ done.outcome = "nothing"
      OBVIOUS
    <3> HIDE DEF done
    <3> QED BY <1>2, <2>1, <2>5, <3>2, <3>3 DEF Row, Over, Live
  <2>6. CASE o.state = "sending"
    <3> DEFINE done == [state |-> "done", outcome |-> "maybe", account |-> o.account, for |-> o.for]
    <3>1. Settled[i] = [o EXCEPT !.state = "done", !.outcome = "maybe"]
      BY <1>2, <2>6 DEF Settled, In
    <3>2. Settled[i] = done /\ done \in Order /\ done # None
      BY <2>1, <3>1, DoneRow DEF Answers
    <3>3. done.state = "done" /\ done.for = o.for /\ done.outcome = "maybe"
      OBVIOUS
    <3> HIDE DEF done
    <3> QED BY <1>2, <2>1, <2>6, <3>2, <3>3 DEF Row, Over, Live
  <2>7. CASE o.state \in Over
    BY <1>2, <2>1, <2>7 DEF Settled, In, Row, Over
  <2> QED BY <2>1, <2>4, <2>5, <2>6, <2>7 DEF Order, Live
<1> QED BY <1>1, <1>2

\* The engine's answers.
LEMMA RefuseInv == ASSUME IInv, Refuse PROVE IInv'
<1>1. engine.id \in Ids /\ Exists(engine.id) /\ order[engine.id].state = "taken"
  BY DEF Refuse, IInv, Hand
<1>2. order[engine.id].for \notin booked
  BY <1>1 DEF IInv, Row
<1> QED BY <1>2, FinishInv DEF Refuse, Answers

LEMMA NotSentInv == ASSUME IInv, NotSent PROVE IInv'
<1>1. order[engine.id].for \notin booked
  BY DEF NotSent, IInv, Hand
<1> QED BY <1>1, FinishInv DEF NotSent, Answers

LEMMA AnswerInv == ASSUME IInv, Answer PROVE IInv'
<1>1. CASE Finish("maybe")
  BY <1>1, FinishInv DEF Answer, Answers
<1>2. CASE order[engine.id].for \in booked /\ Finish("placed")
  BY <1>2, FinishInv DEF Answer, Answers
<1>3. CASE order[engine.id].for \notin booked /\ Finish("nothing")
  BY <1>3, FinishInv DEF Answer, Answers
<1> QED BY <1>1, <1>2, <1>3 DEF Answer

\* A step that leaves every row as it is.
LEMMA RowsStay ==
  ASSUME IInv, UNCHANGED <<starts, up, database, task, unswept, venue>>, engine' \in Engine, Hand'
  PROVE  IInv'
<1> USE DEF database, venue
<1>1. Ages /\ Books /\ \A i \in Ids : Exists(i) => order'[i] # None
  BY DEF Ages, Books, Exists
<1>2. \A i \in Ids : Row(i)'
  BY DEF IInv, Row, Early, Exists
<1>3. TypeOK'
  BY DEF IInv, TypeOK
<1> QED BY <1>1, <1>2, <1>3, EngineStep

LEMMA ReplaceInv == ASSUME IInv, Replace PROVE IInv'
<1> USE DEF database, venue
<1>1. engine.id \in Ids /\ Exists(engine.id) /\ order[engine.id].state = "sending" /\ up
  BY DEF Replace, IInv, Hand
<1>2. engine' \in Engine /\ engine'.id = engine.id /\ engine'.pc = "claimed"
  BY DEF Replace, IInv, TypeOK, Engine
<1>3. Hand'
  BY <1>1, <1>2 DEF Replace, Hand, Exists, Ids
<1> QED BY <1>2, <1>3, RowsStay DEF Replace

LEMMA FailInv == ASSUME IInv, Fail PROVE IInv'
<1>1. CASE order[engine.id].state = "sending" /\ Finish("maybe")
  BY <1>1, FinishInv DEF Fail, Answers
<1>2. CASE order[engine.id].state = "taken" /\ Finish("nothing")
  <2>1. order[engine.id].for \notin booked
    BY <1>2 DEF Fail, IInv, Hand, Row
  <2> QED BY <1>2, <2>1, FinishInv DEF Fail, Answers
<1>3. CASE engine' = Idle /\ UNCHANGED order
  BY <1>3, IdleHand, RowsStay DEF Fail, database
<1> QED BY <1>1, <1>2, <1>3 DEF Fail

LEMMA SendInv == ASSUME IInv, Send PROVE IInv'
<1> USE DEF database
<1> DEFINE e == engine.id
<1>1. e \in Ids /\ Exists(e) /\ order[e].state = "sending" /\ up
  BY DEF Send, IInv, Hand
<1>2. order[e].for \in Requests /\ ~Early(order[e].for)
  BY <1>1 DEF IInv, TypeOK, Order, Exists, Row
<1>3. booked' = booked \/ booked' = booked \cup {order[e].for}
  BY DEF Send
<1>4. Ages /\ Books /\ \A i \in Ids : Exists(i) => order'[i] # None
  BY <1>1, <1>3 DEF Send, Ages, Books, Exists, Live
<1>5. ASSUME NEW i \in Ids PROVE Row(i)'
  <2>1. Row(i) /\ (Exists(i) /\ i # e => order[i].for # order[e].for)
    BY <1>1 DEF IInv, Unique
  <2>2. CASE i = e
    BY <1>1, <1>2, <2>2 DEF Send, Row, Early, Exists
  <2>3. CASE i # e
    BY <1>3, <2>1, <2>3 DEF Send, Row, Early, Exists
  <2> QED BY <2>2, <2>3
<1>6. engine' \in Engine /\ engine'.id = e /\ engine'.pc = "sent"
  BY DEF Send, IInv, TypeOK, Engine
<1>7. Hand'
  BY <1>1, <1>6 DEF Send, Hand, Exists, Ids
<1>8. TypeOK'
  BY <1>2, <1>3, <1>6 DEF Send, IInv, TypeOK
<1> QED BY <1>4, <1>5, <1>7, <1>8, EngineStep DEF Send

LEMMA SweepOrdersInv == ASSUME IInv, SweepOrders PROVE IInv'
<1> USE DEF venue
<1>1. Ages /\ Books /\ \A i \in Ids : Exists(i) => order'[i] # None
  BY SettledRows DEF SweepOrders, Ages, Books, Exists
<1>2. ASSUME NEW i \in Ids PROVE Row(i)'
  <2>1. Row(i)
    BY DEF IInv
  <2>2. order'[i] = Settled[i]
    BY DEF SweepOrders
  <2> QED BY <2>1, <2>2, SettledRows DEF SweepOrders, Row, Early, Exists, Over
<1>3. engine' = Idle
  BY DEF SweepOrders
<1>4. TypeOK'
  BY SettledRows DEF SweepOrders, IInv, TypeOK
<1> QED BY <1>1, <1>2, <1>3, <1>4, IdleHand, EngineStep DEF SweepOrders

\* The fields a task's step writes, and those it keeps.
Moves(r, pc, key_, id, answer) ==
  /\ task' \in [Requests -> Task]
  /\ task'[r].pc = pc /\ task'[r].key = key_ /\ task'[r].id = id /\ task'[r].answer = answer
  /\ \A s \in Requests \ {r} : task'[s] = task[s]

LEMMA TaskFields ==
  ASSUME NEW t \in Task, NEW pc, NEW k, NEW id
  PROVE  /\ [t EXCEPT !.pc = pc] = [pc |-> pc, key |-> t.key, id |-> t.id, answer |-> t.answer]
         /\ [t EXCEPT !.pc = pc, !.key = k] = [pc |-> pc, key |-> k, id |-> t.id, answer |-> t.answer]
         /\ [t EXCEPT !.pc = pc, !.id = id] = [pc |-> pc, key |-> t.key, id |-> id, answer |-> t.answer]
         /\ Lost(t) = [pc |-> "lost", key |-> t.key, id |-> 0, answer |-> "none"]
<1> DEFINE half == [pc |-> pc, key |-> t.key, id |-> t.id, answer |-> t.answer]
           lost == [pc |-> "lost", key |-> t.key, id |-> t.id, answer |-> t.answer]
           void == [pc |-> "lost", key |-> t.key, id |-> 0, answer |-> t.answer]
<1>1. t = [pc |-> t.pc, key |-> t.key, id |-> t.id, answer |-> t.answer]
  BY DEF Task
<1>2. [t EXCEPT !.pc = pc] = half /\ [t EXCEPT !.pc = "lost"] = lost
  BY <1>1
<1>3. /\ [half EXCEPT !.key = k] = [pc |-> pc, key |-> k, id |-> t.id, answer |-> t.answer]
      /\ [half EXCEPT !.id = id] = [pc |-> pc, key |-> t.key, id |-> id, answer |-> t.answer]
  OBVIOUS
<1>4. [lost EXCEPT !.id = 0] = void
  OBVIOUS
<1>5. [void EXCEPT !.answer = "none"] = [pc |-> "lost", key |-> t.key, id |-> 0, answer |-> "none"]
  OBVIOUS
<1> HIDE DEF half, lost, void
<1>6. [t EXCEPT !.pc = pc, !.key = k] = [pc |-> pc, key |-> k, id |-> t.id, answer |-> t.answer]
  BY <1>2, <1>3
<1>7. [t EXCEPT !.pc = pc, !.id = id] = [pc |-> pc, key |-> t.key, id |-> id, answer |-> t.answer]
  BY <1>2, <1>3
<1>8. Lost(t) = [pc |-> "lost", key |-> t.key, id |-> 0, answer |-> "none"]
  BY <1>2, <1>4, <1>5 DEF Lost
<1> QED BY <1>2, <1>6, <1>7, <1>8 DEF half

LEMMA TaskMoves ==
  ASSUME TypeOK, NEW r \in Requests, NEW u \in Task, task' = [task EXCEPT ![r] = u]
  PROVE  Moves(r, u.pc, u.key, u.id, u.answer)
  BY DEF TypeOK, Moves

LEMMA TaskRecord ==
  ASSUME TypeOK, NEW r \in Requests, NEW pc \in {"new", "claimed", "waiting", "reading", "answering", "over", "lost"},
         NEW k \in Keys \cup {None}, NEW id \in Ids \cup {0}, NEW a \in Answers \cup {"none"},
         task' = [task EXCEPT ![r] = [pc |-> pc, key |-> k, id |-> id, answer |-> a]]
  PROVE  Moves(r, pc, k, id, a)
<1>1. PICK u \in Task : u = [pc |-> pc, key |-> k, id |-> id, answer |-> a]
  BY DEF Task
<1>2. Moves(r, u.pc, u.key, u.id, u.answer)
  BY <1>1, TaskMoves
<1>3. u.pc = pc /\ u.key = k /\ u.id = id /\ u.answer = a
  BY <1>1
<1> QED BY <1>2, <1>3

LEMMA TaskWrites ==
  ASSUME TypeOK, NEW r \in Requests, NEW pc \in {"new", "claimed", "waiting", "reading", "answering", "over", "lost"},
         NEW k \in Keys \cup {None}, NEW id \in Ids \cup {0}, NEW a \in Answers \cup {"none"}
  PROVE  LET t == task[r] IN
         /\ task' = [task EXCEPT ![r].pc = pc] => Moves(r, pc, t.key, t.id, t.answer)
         /\ task' = [task EXCEPT ![r].pc = pc, ![r].key = k] => Moves(r, pc, k, t.id, t.answer)
         /\ task' = [task EXCEPT ![r].pc = pc, ![r].key = k, ![r].answer = a] => Moves(r, pc, k, t.id, a)
         /\ task' = [task EXCEPT ![r].pc = pc, ![r].id = id] => Moves(r, pc, t.key, id, t.answer)
         /\ task' = [task EXCEPT ![r].pc = pc, ![r].answer = a] => Moves(r, pc, t.key, t.id, a)
         /\ task' = [task EXCEPT ![r] = Lost(t)] => Moves(r, "lost", t.key, 0, "none")
<1>1. PICK t \in Task : t = task[r]
  BY DEF TypeOK
<1>2. t.key \in Keys \cup {None} /\ t.id \in Ids \cup {0} /\ t.answer \in Answers \cup {"none"}
  BY DEF Task
<1>3. task[r] = t /\ DOMAIN task = Requests /\ task = [s \in Requests |-> task[s]]
  BY <1>1 DEF TypeOK
<1>4. ASSUME task' = [task EXCEPT ![r].pc = pc] PROVE Moves(r, pc, t.key, t.id, t.answer)
  <2>1. [task EXCEPT ![r].pc = pc] = [task EXCEPT ![r] = [t EXCEPT !.pc = pc]]
    BY <1>3
  <2>2. [t EXCEPT !.pc = pc] = [pc |-> pc, key |-> t.key, id |-> t.id, answer |-> t.answer]
    BY TaskFields, Zenon
  <2>3. [task EXCEPT ![r] = [t EXCEPT !.pc = pc]] = [task EXCEPT ![r] = [pc |-> pc, key |-> t.key, id |-> t.id, answer |-> t.answer]]
    BY <2>2
  <2>4. task' = [task EXCEPT ![r] = [pc |-> pc, key |-> t.key, id |-> t.id, answer |-> t.answer]]
    BY <1>4, <2>1, <2>3
  <2> QED BY <1>2, <2>4, TaskRecord
<1>5. ASSUME task' = [task EXCEPT ![r].pc = pc, ![r].key = k] PROVE Moves(r, pc, k, t.id, t.answer)
  <2>1. [task EXCEPT ![r].pc = pc, ![r].key = k] = [task EXCEPT ![r] = [t EXCEPT !.pc = pc, !.key = k]]
    BY <1>3
  <2>2. [t EXCEPT !.pc = pc, !.key = k] = [pc |-> pc, key |-> k, id |-> t.id, answer |-> t.answer]
    BY TaskFields, Zenon
  <2>3. [task EXCEPT ![r] = [t EXCEPT !.pc = pc, !.key = k]] = [task EXCEPT ![r] = [pc |-> pc, key |-> k, id |-> t.id, answer |-> t.answer]]
    BY <2>2
  <2>4. task' = [task EXCEPT ![r] = [pc |-> pc, key |-> k, id |-> t.id, answer |-> t.answer]]
    BY <1>5, <2>1, <2>3
  <2> QED BY <1>2, <2>4, TaskRecord
<1>6. ASSUME task' = [task EXCEPT ![r].pc = pc, ![r].key = k, ![r].answer = a] PROVE Moves(r, pc, k, t.id, a)
  <2>1. [task EXCEPT ![r].pc = pc, ![r].key = k, ![r].answer = a] = [task EXCEPT ![r] = [t EXCEPT !.pc = pc, !.key = k, !.answer = a]]
    BY <1>3
  <2>2. [t EXCEPT !.pc = pc, !.key = k, !.answer = a] = [pc |-> pc, key |-> k, id |-> t.id, answer |-> a]
    <3> DEFINE half == [pc |-> pc, key |-> t.key, id |-> t.id, answer |-> t.answer]
               more == [pc |-> pc, key |-> k, id |-> t.id, answer |-> t.answer]
    <3>1. t = [pc |-> t.pc, key |-> t.key, id |-> t.id, answer |-> t.answer]
      BY DEF Task
    <3>2. [t EXCEPT !.pc = pc] = half
      BY <3>1
    <3>3. [half EXCEPT !.key = k] = more
      OBVIOUS
    <3>4. [more EXCEPT !.answer = a] = [pc |-> pc, key |-> k, id |-> t.id, answer |-> a]
      OBVIOUS
    <3> HIDE DEF half, more
    <3>5. [t EXCEPT !.pc = pc, !.key = k] = more
      BY <3>2, <3>3
    <3> QED BY <3>4, <3>5
  <2>3. [task EXCEPT ![r] = [t EXCEPT !.pc = pc, !.key = k, !.answer = a]] = [task EXCEPT ![r] = [pc |-> pc, key |-> k, id |-> t.id, answer |-> a]]
    BY <2>2
  <2>4. task' = [task EXCEPT ![r] = [pc |-> pc, key |-> k, id |-> t.id, answer |-> a]]
    BY <1>6, <2>1, <2>3
  <2> QED BY <1>2, <2>4, TaskRecord
<1>7. ASSUME task' = [task EXCEPT ![r].pc = pc, ![r].id = id] PROVE Moves(r, pc, t.key, id, t.answer)
  <2>1. [task EXCEPT ![r].pc = pc, ![r].id = id] = [task EXCEPT ![r] = [t EXCEPT !.pc = pc, !.id = id]]
    BY <1>3
  <2>2. [t EXCEPT !.pc = pc, !.id = id] = [pc |-> pc, key |-> t.key, id |-> id, answer |-> t.answer]
    BY TaskFields, Zenon
  <2>3. [task EXCEPT ![r] = [t EXCEPT !.pc = pc, !.id = id]] = [task EXCEPT ![r] = [pc |-> pc, key |-> t.key, id |-> id, answer |-> t.answer]]
    BY <2>2
  <2>4. task' = [task EXCEPT ![r] = [pc |-> pc, key |-> t.key, id |-> id, answer |-> t.answer]]
    BY <1>7, <2>1, <2>3
  <2> QED BY <1>2, <2>4, TaskRecord
<1>8. ASSUME task' = [task EXCEPT ![r].pc = pc, ![r].answer = a] PROVE Moves(r, pc, t.key, t.id, a)
  <2>1. [task EXCEPT ![r].pc = pc, ![r].answer = a] = [task EXCEPT ![r] = [t EXCEPT !.pc = pc, !.answer = a]]
    BY <1>3
  <2>2. [t EXCEPT !.pc = pc, !.answer = a] = [pc |-> pc, key |-> t.key, id |-> t.id, answer |-> a]
    <3> DEFINE half == [pc |-> pc, key |-> t.key, id |-> t.id, answer |-> t.answer]
    <3>1. t = [pc |-> t.pc, key |-> t.key, id |-> t.id, answer |-> t.answer]
      BY DEF Task
    <3>2. [t EXCEPT !.pc = pc] = half
      BY <3>1
    <3>3. [half EXCEPT !.answer = a] = [pc |-> pc, key |-> t.key, id |-> t.id, answer |-> a]
      OBVIOUS
    <3> HIDE DEF half
    <3> QED BY <3>2, <3>3
  <2>3. [task EXCEPT ![r] = [t EXCEPT !.pc = pc, !.answer = a]] = [task EXCEPT ![r] = [pc |-> pc, key |-> t.key, id |-> t.id, answer |-> a]]
    BY <2>2
  <2>4. task' = [task EXCEPT ![r] = [pc |-> pc, key |-> t.key, id |-> t.id, answer |-> a]]
    BY <1>8, <2>1, <2>3
  <2> QED BY <1>2, <2>4, TaskRecord
<1>9. task' = [task EXCEPT ![r] = Lost(t)] => Moves(r, "lost", t.key, 0, "none")
  BY <1>2, TaskFields, TaskRecord
<1> QED BY <1>3, <1>4, <1>5, <1>6, <1>7, <1>8, <1>9

\* Rows that are deleted or kept.
LEMMA RowsKept ==
  ASSUME IInv, booked' = booked, \A i \in Ids : order'[i] \in {None, order[i]},
         \A r \in Requests : ~Early(r) => ~Early(r)'
  PROVE  Ages /\ Books /\ \A i \in Ids : Row(i)'
<1>1. Ages /\ Books
  BY DEF Ages, Books
<1>2. ASSUME NEW i \in Ids PROVE Row(i)'
  <2>1. Row(i)
    BY DEF IInv
  <2>2. Exists(i) => order[i].for \in Requests
    BY DEF IInv, TypeOK, Order, Exists
  <2> QED BY <2>1, <2>2 DEF Row, Exists
<1> QED BY <1>1, <1>2

LEMMA HandStays ==
  ASSUME IInv, UNCHANGED <<up, engine, booked>>,
         \A i \in Ids : Exists(i) /\ order[i].state \in {"taken", "sending"} => order'[i] = order[i]
  PROVE  Hand'
  BY DEF IInv, TypeOK, Engine, Hand, Exists, Ids

\* A step of one task over rows that age: what its own task and keys need is left.
LEMMA CallStep ==
  ASSUME IInv, up, UNCHANGED <<starts, up, engine, unswept, venue>>,
         NEW r \in Requests, task' \in [Requests -> Task], \A s \in Requests \ {r} : task'[s] = task[s],
         ~Early(r) => ~Early(r)',
         order' \in [Ids -> Order \cup {None}], Ages, \A i \in Ids : Row(i)',
         \A i \in Ids : Exists(i) /\ order[i].for # r => order'[i] # None,
         \A i \in Ids : Exists(i) /\ order[i].state \in {"taken", "sending"} => order'[i] = order[i],
         key' \in [Keys -> Key], link' \in [Keys -> Ids \cup {0, None}],
         \A k \in Keys : key'[k] = key[k] \/ key[k].state = "free" \/ (Active(r) /\ task[r].key = k),
         Tasked(r)',
         \A k \in Keys : \/ Keyed(k)'
                         \/ /\ key'[k] = key[k] /\ link'[k] \in {link[k], None}
                            /\ task'[r].key = k <=> task[r].key = k
                            /\ task[r].key = k /\ task[r].pc \in {"over", "lost"} => task'[r].pc \in {"over", "lost"}
                            /\ link'[k] \in Ids => order'[link[k]] # None
  PROVE  IInv'
<1> USE DEF venue
<1>1. \A s \in Requests : ~Early(s) => ~Early(s)'
  BY DEF Early
<1>2. Books
  BY DEF Books
<1>3. /\ Unique' /\ Counted' /\ booked \subseteq booked'
      /\ \A s \in Requests : Unplaced(s) => Unplaced(s)'
      /\ \A s \in Requests : Early(s) => s \notin booked'
  BY <1>1, <1>2, RowsAge
<1>4. ASSUME NEW s \in Requests PROVE Tasked(s)'
  <2>1. CASE s = r
    BY <2>1
  <2>2. CASE s # r
    <3>1. Tasked(s)
      BY DEF IInv
    <3>2. task[s].pc \in {"waiting", "reading"} =>
             order'[task[s].id] # None /\ order'[task[s].id].for = s
               /\ (order[task[s].id].state \in Over => order'[task[s].id] = order[task[s].id])
      BY <2>2, <3>1 DEF Tasked, Ages, Exists
    <3>3. Active(s) /\ task[s].key # None => key'[task[s].key] = key[task[s].key]
      <4> SUFFICES ASSUME Active(s), task[s].key # None PROVE key'[task[s].key] = key[task[s].key]
        OBVIOUS
      <4>1. PICK k \in Keys : k = task[s].key
        BY DEF IInv, TypeOK, Task
      <4>2. key[k].state = "in_progress"
        BY <3>1, <4>1 DEF Tasked
      <4>3. ~(Active(r) /\ task[r].key = k)
        <5>1. Active(r) /\ task[r].key = k => Dead(r) \/ Dead(s)
          BY <2>2, <4>1 DEF IInv, Keyed, CallsOf
        <5> QED BY <5>1 DEF Dead, Active
      <4> QED BY <4>1, <4>2, <4>3
    <3>4. task'[s] = task[s]
      BY <2>2
    <3> QED BY <1>3, <3>2, <3>3, <3>4, TaskStays
  <2> QED BY <2>1, <2>2
<1>5. ASSUME NEW k \in Keys PROVE Keyed(k)'
  <2>1. SUFFICES ASSUME /\ key'[k] = key[k] /\ link'[k] \in {link[k], None}
                        /\ task'[r].key = k <=> task[r].key = k
                        /\ task[r].key = k /\ task[r].pc \in {"over", "lost"} => task'[r].pc \in {"over", "lost"}
                        /\ link'[k] \in Ids => order'[link[k]] # None
                 PROVE  Keyed(k)'
    OBVIOUS
  <2>2. \A s \in Requests : task'[s].key = k <=> task[s].key = k
    BY <2>1
  <2>3. \A s \in CallsOf(k) : /\ Unplaced(s) => Unplaced(s)'
                              /\ task[s].pc \in {"over", "lost"} => task'[s].pc \in {"over", "lost"}
    BY <1>3, <2>1 DEF CallsOf
  <2>4. link'[k] \in Ids => order'[link[k]] # None /\ order'[link[k]].for = order[link[k]].for
    <3>1. link'[k] \in Ids => link[k] \in Ids
      BY <2>1, NoneAssumption DEF Ids
    <3> QED BY <2>1, <3>1 DEF Ages
  <2> QED BY <1>3, <2>1, <2>2, <2>3, <2>4, KeyStays
<1>6. Hand'
  BY HandStays
<1>7. TypeOK'
  BY DEF IInv, TypeOK
<1> QED BY <1>3, <1>4, <1>5, <1>6, <1>7 DEF IInv, Ids

LEMMA Fresh == ASSUME IInv, NEW r \in Requests, Early(r) PROVE Unplaced(r)
  BY DEF IInv, Tasked, Row, Unplaced

LEMMA OthersDead ==
  ASSUME IInv, NEW r \in Requests, NEW k \in Keys, task[r].key = k, Active(r)
  PROVE  \A s \in CallsOf(k) : s # r => Dead(s)
<1>1. ~Dead(r)
  BY DEF Dead, Active
<1> QED BY <1>1 DEF IInv, Keyed, CallsOf

LEMMA RowsSame ==
  ASSUME IInv, UNCHANGED <<order, booked>>, \A r \in Requests : ~Early(r) => ~Early(r)'
  PROVE  /\ order' \in [Ids -> Order \cup {None}] /\ Ages /\ \A i \in Ids : Row(i)'
         /\ \A i \in Ids : Exists(i) => order'[i] # None
         /\ \A r \in Requests : Unplaced(r)' <=> Unplaced(r)
  BY RowsKept DEF IInv, TypeOK, Unplaced, Exists

LEMMA ClaimKeyInv == ASSUME IInv, NEW r \in Requests, NEW k \in Keys, ClaimKey(r, k) PROVE IInv'
<1> USE DEF venue
<1>1. task[r].pc = "new" /\ task[r].key = None /\ Early(r) /\ task[r].answer = "none" /\ k # None
  BY NoneAssumption DEF ClaimKey, IInv, Tasked, Early
<1>2. Moves(r, "claimed", k, task[r].id, task[r].answer)
  BY TaskWrites DEF ClaimKey, IInv, TypeOK, Task
<1>3. \A s \in Requests : ~Early(s) => ~Early(s)'
  BY <1>1, <1>2 DEF Early, Moves
<1>4. UNCHANGED <<order, booked>>
  BY DEF ClaimKey
<1>5. key[k] \in Key /\ key[k].state = "free" /\ key[k].answer = "none"
  BY DEF ClaimKey, IInv, TypeOK, Keyed
<1>6. key' \in [Keys -> Key] /\ key'[k].state = "in_progress" /\ key'[k].answer = "none"
  BY <1>5 DEF ClaimKey, IInv, TypeOK, Key
<1>7. link' \in [Keys -> Ids \cup {0, None}] /\ link'[k] = 0
  BY DEF ClaimKey, IInv, TypeOK
<1>8. \A j \in Keys \ {k} : key'[j] = key[j] /\ link'[j] = link[j]
  BY DEF ClaimKey, IInv, TypeOK
<1>9. r \notin booked /\ Unplaced(r)
  BY <1>1, Fresh DEF Unplaced
<1>10. Tasked(r)'
  BY <1>1, <1>2, <1>4, <1>6, <1>9 DEF Tasked, Moves, Early, Active, ClaimKey
<1>11. Keyed(k)'
  <2>1. \A s \in CallsOf(k) : Dead(s) /\ s # r
    BY <1>1, <1>5 DEF IInv, Keyed, CallsOf
  <2>2. \A s \in Requests : Dead(s) /\ s # r => Dead(s)'
    BY <1>2, <1>3, <1>4, RowsSame DEF Dead, Moves
  <2>3. \A s \in Requests : s \in CallsOf(k)' => s = r \/ s \in CallsOf(k)
    BY <1>2 DEF CallsOf, Moves
  <2>4. \A s \in Requests : s \in CallsOf(k)' => s = r \/ Dead(s)'
    BY <2>1, <2>2, <2>3
  <2>5. Unplaced(r)'
    BY <1>3, <1>4, <1>9, RowsSame
  <2>6. \A s \in CallsOf(k)' : s \in Requests
    BY DEF CallsOf
  <2> QED BY <1>6, <1>7, <2>4, <2>5, <2>6 DEF Keyed, Linked, Ids, Dead
<1>12. ASSUME NEW j \in Keys, j # k
       PROVE  /\ key'[j] = key[j] /\ link'[j] \in {link[j], None} /\ (task'[r].key = j <=> task[r].key = j)
              /\ ~(task[r].key = j) /\ (link'[j] \in Ids => order'[link[j]] # None)
  BY <1>1, <1>2, <1>4, <1>8, <1>12, NoneAssumption DEF Moves, IInv, Keyed, Linked, Exists
<1> QED BY <1>2, <1>3, <1>4, <1>5, <1>6, <1>7, <1>8, <1>10, <1>11, <1>12, RowsSame, CallStep DEF Moves, ClaimKey

LEMMA ReplayInv == ASSUME IInv, NEW r \in Requests, NEW k \in Keys, Replay(r, k) PROVE IInv'
<1> USE DEF venue, database
<1>1. task[r].pc = "new" /\ task[r].key = None /\ Early(r) /\ k # None /\ key[k].state # "free"
  BY NoneAssumption DEF Replay, IInv, Tasked, Early
<1>2. PICK a \in {"none"} \cup {key[k].answer} : task' = [task EXCEPT ![r].pc = "over", ![r].key = k, ![r].answer = a]
  BY DEF Replay
<1>3. a \in Answers \cup {"none"}
  BY DEF IInv, TypeOK, Key
<1>4. Moves(r, "over", k, task[r].id, a)
  BY <1>2, <1>3, TaskWrites DEF IInv, TypeOK, Task
<1>5. \A s \in Requests : ~Early(s) => ~Early(s)'
  BY <1>1, <1>4 DEF Early, Moves
<1>6. UNCHANGED <<order, booked, key, link>>
  BY DEF Replay
<1>7. r \notin booked /\ Unplaced(r)
  BY <1>1, Fresh DEF Unplaced
<1>8. Tasked(r)'
  BY <1>1, <1>4, <1>7 DEF Tasked, Moves, Early, Active
<1>9. Keyed(k)'
  <2>1. Dead(r)' /\ Unplaced(r)'
    BY <1>4, <1>5, <1>6, <1>7, RowsSame DEF Dead, Moves
  <2>2. \A s \in Requests : s # r => (Dead(s)' <=> Dead(s)) /\ (Unplaced(s)' <=> Unplaced(s))
    BY <1>4, <1>5, <1>6, RowsSame DEF Dead, Moves
  <2>3. \A s \in Requests : s \in CallsOf(k)' <=> s = r \/ s \in CallsOf(k)
    BY <1>1, <1>4 DEF CallsOf, Moves
  <2>4. Linked(k) => order[link[k]].for \in Requests /\ order[link[k]].for # r
    BY <1>1 DEF IInv, TypeOK, Order, Exists, Keyed, Linked
  <2>5. Keyed(k)
    BY DEF IInv
  <2>6. (\A s \in CallsOf(k)' : s \in Requests) /\ (\A s \in CallsOf(k) : s \in Requests)
    BY DEF CallsOf
  <2>7. /\ key[k].answer = "nothing" \/ link[k] = 0 => \A s \in CallsOf(k)' : Unplaced(s)'
        /\ key[k].answer = "placed" => \E s \in CallsOf(k)' : s \in booked
        /\ \A s, t \in CallsOf(k)' : s # t => Dead(s)' \/ Dead(t)'
    BY <2>1, <2>2, <2>3, <2>5, <2>6 DEF Keyed
  <2>8. Linked(k) => /\ Exists(link[k])' /\ (task[order[link[k]].for].key)' = k
                     /\ \A s \in CallsOf(k)' : s # order[link[k]].for => Dead(s)'
    BY <1>4, <1>6, <2>1, <2>2, <2>3, <2>4, <2>5, <2>6 DEF Keyed, Linked, Exists, Moves
  <2> QED BY <1>1, <1>6, <2>5, <2>7, <2>8 DEF Keyed, Linked, Ids
<1>10. ASSUME NEW j \in Keys, j # k
       PROVE  /\ link'[j] \in {link[j], None} /\ (task'[r].key = j <=> task[r].key = j)
              /\ ~(task[r].key = j) /\ (link'[j] \in Ids => order'[link[j]] # None)
  BY <1>1, <1>4, <1>6, <1>10, NoneAssumption DEF Moves, IInv, Keyed, Linked, Exists
<1>11. key' \in [Keys -> Key] /\ link' \in [Keys -> Ids \cup {0, None}]
  BY <1>6 DEF IInv, TypeOK
<1> QED BY <1>4, <1>5, <1>6, <1>8, <1>9, <1>10, <1>11, RowsSame, CallStep DEF Moves, Replay

\* The step of a task that writes nothing of the database.
LEMMA TaskStep ==
  ASSUME IInv, up, UNCHANGED <<starts, up, database, engine, unswept, venue>>,
         NEW r \in Requests, NEW pc, NEW id, NEW a, Moves(r, pc, task[r].key, id, a),
         ~Early(r) => pc \notin {"new", "claimed"}, task[r].pc \notin {"over", "lost"}, Tasked(r)'
  PROVE  IInv'
<1> USE DEF venue, database
<1>1. \A s \in Requests : ~Early(s) => ~Early(s)'
  BY DEF Early, Moves
<1>2. key' \in [Keys -> Key] /\ link' \in [Keys -> Ids \cup {0, None}]
  BY DEF IInv, TypeOK
<1>3. \A k \in Keys : link[k] \in Ids => order'[link[k]] # None
  BY DEF IInv, Keyed, Linked, Exists
<1>4. \A i \in Ids : order'[i] = order[i]
  OBVIOUS
<1> QED BY <1>1, <1>2, <1>3, <1>4, RowsSame, CallStep DEF Moves

LEMMA RefuseCallInv == ASSUME IInv, NEW r \in Requests, RefuseCall(r) PROVE IInv'
<1> USE DEF database, venue
<1>1. Moves(r, "answering", task[r].key, task[r].id, "nothing")
  BY TaskWrites DEF RefuseCall, IInv, TypeOK, Task, Answers
<1>2. Unplaced(r) /\ Early(r) /\ task[r].pc = "claimed" /\ up /\ Tasked(r)
  BY Fresh DEF RefuseCall, Early, IInv
<1>3. Unplaced(r)'
  BY <1>2 DEF RefuseCall, Unplaced, Exists, Ids
<1>4. Tasked(r)'
  BY <1>1, <1>2, <1>3 DEF RefuseCall, Tasked, Moves, Early, Active
<1> QED BY <1>1, <1>2, <1>4, TaskStep DEF RefuseCall

\* What the row a task waits for says of its call.
LEMMA RowOf ==
  ASSUME IInv, NEW r \in Requests, task[r].pc \in {"waiting", "reading"}
  PROVE  /\ task[r].id \in Ids /\ Exists(task[r].id) /\ order[task[r].id].for = r
         /\ Row(task[r].id) /\ order[task[r].id] \in Order
         /\ \A i \in Ids : Exists(i) /\ order[i].for = r => i = task[r].id
  BY DEF IInv, Tasked, Unique, TypeOK, Exists

LEMMA ReadAnswerInv == ASSUME IInv, NEW r \in Requests, ReadAnswer(r) PROVE IInv'
<1> USE DEF database, venue
<1>1. PICK o \in Order : o = order[task[r].id]
  BY RowOf DEF ReadAnswer
<1>2. /\ up /\ task[r].pc = "waiting" /\ o.state \in Over /\ Tasked(r)
      /\ o.state = "withdrawn" \/ (o.state = "done" /\ o.outcome = "nothing") => Unplaced(r)
      /\ o.state = "done" /\ o.outcome = "placed" => r \in booked
  BY <1>1, RowOf DEF ReadAnswer, In, Row, Unplaced, Over, IInv
<1>3. UNCHANGED <<up, order, booked, key>> /\ (Unplaced(r) => Unplaced(r)')
  BY DEF ReadAnswer, Unplaced, Exists, Ids
<1>4. CASE o.state = "withdrawn"
  <2>1. Moves(r, "answering", task[r].key, task[r].id, "nothing")
    BY <1>1, <1>4, TaskWrites DEF ReadAnswer, IInv, TypeOK, Task, Answers
  <2>2. Tasked(r)'
    BY <1>2, <1>3, <1>4, <2>1 DEF Tasked, Moves, Early, Active
  <2> QED BY <1>2, <2>1, <2>2, TaskStep DEF ReadAnswer
<1>5. CASE o.state # "withdrawn"
  <2>1. task' = [task EXCEPT ![r].pc = "reading", ![r].answer = o.outcome]
    BY <1>1, <1>5 DEF ReadAnswer
  <2>2. o.outcome \in Answers \cup {"none"}
    BY DEF Order, Answers
  <2>3. Moves(r, "reading", task[r].key, task[r].id, o.outcome)
    BY <2>1, <2>2, TaskWrites DEF IInv, TypeOK, Task
  <2>4. /\ o.state = "done" /\ task'[r].id = task[r].id /\ task[r].id \in Ids
        /\ order'[task[r].id] = o /\ Exists(task[r].id)' /\ o.for = r
    BY <1>1, <1>2, <1>3, <1>5, <2>3, RowOf DEF Over, Moves, Exists
  <2>5. Tasked(r)'
    BY <1>2, <1>3, <2>3, <2>4 DEF Tasked, Moves, Early, Active, Exists, Ids
  <2>6. PICK a : a = o.outcome
    OBVIOUS
  <2>7. Moves(r, "reading", task[r].key, task[r].id, a)
    BY <2>3, <2>6
  <2>8. UNCHANGED <<starts, up, database, engine, unswept, venue>>
    BY DEF ReadAnswer
  <2>9. task[r].pc \notin {"over", "lost"} /\ up
    BY <1>2
  <2> QED BY <2>5, <2>7, <2>8, <2>9, TaskStep
<1> QED BY <1>4, <1>5

LEMMA GiveUpInv == ASSUME IInv, NEW r \in Requests, GiveUp(r) PROVE IInv'
<1> USE DEF database, venue
<1>1. Moves(r, "answering", task[r].key, task[r].id, "maybe")
  BY TaskWrites DEF GiveUp, IInv, TypeOK, Task, Answers
<1>2. task[r].pc \in {"waiting", "reading"} /\ up /\ Tasked(r)
  BY DEF GiveUp, IInv
<1>3. Tasked(r)'
  BY <1>1, <1>2 DEF GiveUp, Tasked, Moves, Early, Active
<1> QED BY <1>1, <1>2, <1>3, TaskStep DEF GiveUp

LEMMA StrandInv == ASSUME IInv, NEW r \in Requests, Strand(r) PROVE IInv'
<1> USE DEF database, venue
<1>1. Moves(r, "lost", task[r].key, 0, "none")
  BY TaskWrites DEF Strand, IInv, TypeOK, Task, Answers
<1>2. task[r].pc \in {"claimed", "answering"} /\ up /\ Tasked(r)
  BY DEF Strand, IInv
<1>3. Tasked(r)'
  BY <1>1, <1>2 DEF Strand, Tasked, Moves, Early, Active
<1> QED BY <1>1, <1>2, <1>3, TaskStep DEF Strand

LEMMA ForgetInv == ASSUME IInv, NEW r \in Requests, Forget(r) PROVE IInv'
<1> USE DEF database, venue
<1>1. Moves(r, "answering", task[r].key, task[r].id, task[r].answer)
  BY TaskWrites DEF Forget, IInv, TypeOK, Task
<1>2. task[r].pc = "reading" /\ up /\ Tasked(r)
  BY DEF Forget, IInv
<1>3. CASE Kept(order[task[r].id])
  <2>1. UNCHANGED <<order, key, link, booked, up>>
    BY <1>3 DEF Forget
  <2>2. Unplaced(r) => Unplaced(r)'
    BY <2>1 DEF Unplaced, Exists, Ids
  <2>3. Tasked(r)'
    BY <1>1, <1>2, <2>1, <2>2 DEF Tasked, Moves, Early, Active
  <2> QED BY <1>1, <1>2, <2>1, <2>3, TaskStep DEF Forget
<1>4. CASE Delete({task[r].id})
  <2> DEFINE e == task[r].id
  <2>1. e \in Ids /\ Exists(e) /\ order[e].for = r /\ order[e].state \in Over
    BY <1>2, RowOf DEF Tasked
  <2>2. /\ order' \in [Ids -> Order \cup {None}] /\ \A i \in Ids : order'[i] \in {None, order[i]}
        /\ \A i \in Ids : i # e => order'[i] = order[i]
    BY <1>4 DEF Delete, IInv, TypeOK
  <2>3. /\ link' \in [Keys -> Ids \cup {0, None}]
        /\ \A k \in Keys : link'[k] \in {link[k], None} /\ (link'[k] = link[k] /\ link[k] # None => link[k] # e)
    BY <1>4 DEF Delete, IInv, TypeOK
  <2>4. \A s \in Requests : ~Early(s) => ~Early(s)'
    BY <1>1, <1>2 DEF Moves, Early
  <2>5. Ages /\ \A i \in Ids : Row(i)'
    BY <2>2, <2>4, RowsKept DEF Forget
  <2>6. Unplaced(r) => Unplaced(r)'
    BY <2>2 DEF Forget, Unplaced, Exists, Ids
  <2>7. UNCHANGED <<key, booked, up>>
    BY DEF Forget
  <2>8. Tasked(r)'
    BY <1>1, <1>2, <2>6, <2>7 DEF Tasked, Moves, Early, Active
  <2>9. \A k \in Keys : link'[k] \in Ids => order'[link[k]] # None
    <3> SUFFICES ASSUME NEW k \in Keys, link'[k] \in Ids PROVE order'[link[k]] # None
      OBVIOUS
    <3>1. link'[k] # None
      BY NoneAssumption DEF Ids
    <3>2. link'[k] = link[k] /\ link[k] # e /\ Linked(k)
      BY <2>3, <3>1 DEF Linked
    <3>3. Exists(link[k])
      BY <3>2 DEF IInv, Keyed
    <3> QED BY <2>2, <3>2, <3>3 DEF Exists, Linked
  <2>10. \A i \in Ids : (Exists(i) /\ order[i].for # r => order'[i] # None)
                       /\ (Exists(i) /\ order[i].state \in {"taken", "sending"} => order'[i] = order[i])
    BY <2>1, <2>2 DEF Exists, Over
  <2>11. key' \in [Keys -> Key]
    BY <2>7 DEF IInv, TypeOK
  <2>12. /\ task' \in [Requests -> Task] /\ task'[r].key = task[r].key
         /\ \A s \in Requests \ {r} : task'[s] = task[s]
    BY <1>1 DEF Moves
  <2> QED BY <1>2, <2>2, <2>3, <2>4, <2>5, <2>7, <2>8, <2>9, <2>10, <2>11, <2>12, CallStep DEF Forget
<1> QED BY <1>3, <1>4 DEF Forget

LEMMA WithdrawInv == ASSUME IInv, NEW r \in Requests, Withdraw(r) PROVE IInv'
<1> USE DEF database, venue
<1> DEFINE e == task[r].id
<1>1. Moves(r, "reading", task[r].key, e, "nothing")
  BY TaskWrites DEF Withdraw, IInv, TypeOK, Task, Answers
<1>2. task[r].pc = "waiting" /\ up /\ Tasked(r)
  BY DEF Withdraw, IInv
<1>3. /\ e \in Ids /\ Exists(e) /\ order[e].for = r /\ order[e] \in Order /\ order[e].state = "queued"
      /\ r \notin booked /\ \A i \in Ids : Exists(i) /\ order[i].for = r => i = e
  BY <1>2, RowOf DEF Withdraw, In, Row
<1> DEFINE o == [state |-> "withdrawn", outcome |-> order[e].outcome, account |-> order[e].account, for |-> order[e].for]
<1>4. o \in Order /\ [order[e] EXCEPT !.state = "withdrawn"] = o
  BY <1>3 DEF Order, Over
<1>5. o.state = "withdrawn" /\ o.for = order[e].for /\ o # None
  BY <1>4, NoneAssumption
<1>6. order' = [order EXCEPT ![e] = o]
  BY <1>4 DEF Withdraw
<1> HIDE DEF o
<1>7. /\ order' \in [Ids -> Order \cup {None}] /\ order'[e] = o
      /\ \A i \in Ids \ {e} : order'[i] = order[i]
  BY <1>3, <1>4, <1>6 DEF IInv, TypeOK
<1>8. Rewrites(e)
  BY <1>3, <1>5, <1>7 DEF Rewrites, Live
<1>9. UNCHANGED <<key, link, booked, up>>
  BY DEF Withdraw
<1>10. \A s \in Requests : ~Early(s) => ~Early(s)'
  BY <1>1, <1>2 DEF Moves, Early
<1>11. Ages /\ (\A i \in Ids : Exists(i) => order'[i] # None) /\ \A i \in Ids : Row(i)'
  BY <1>3, <1>8, <1>9, <1>10, RewritesAge
<1>12. Unplaced(r)'
  BY <1>3, <1>5, <1>7, <1>9 DEF Unplaced, Exists, Ids, Over
<1>13. task'[r].id = e /\ order'[e].state \in Over /\ Exists(e)' /\ order'[e].for = r
  BY <1>1, <1>3, <1>5, <1>7 DEF Moves, Exists, Over
<1>14. Tasked(r)'
  BY <1>1, <1>2, <1>3, <1>9, <1>12, <1>13 DEF Tasked, Moves, Early, Active, Ids
<1>15. \A k \in Keys : link[k] \in Ids => order'[link[k]] # None
  BY <1>11 DEF IInv, Keyed, Linked
<1>16. \A i \in Ids : Exists(i) /\ order[i].state \in {"taken", "sending"} => order'[i] = order[i]
  BY <1>3, <1>7
<1>17. key' \in [Keys -> Key] /\ link' \in [Keys -> Ids \cup {0, None}]
  BY <1>9 DEF IInv, TypeOK
<1>18. /\ task' \in [Requests -> Task] /\ task'[r].key = task[r].key
       /\ \A s \in Requests \ {r} : task'[s] = task[s]
  BY <1>1 DEF Moves
<1> QED BY <1>2, <1>7, <1>9, <1>10, <1>11, <1>14, <1>15, <1>16, <1>17, <1>18, CallStep DEF Withdraw

\* A task that ends and lets its key go.
LEMMA KeyEnds ==
  ASSUME IInv, up, NEW r \in Requests, NEW k \in Keys, task[r].key = k, Active(r),
         NEW v \in Key, key' = [key EXCEPT ![k] = v], link' = [link EXCEPT ![k] = None],
         Moves(r, "over", k, 0, task[r].answer),
         UNCHANGED <<starts, up, order, engine, unswept, venue>>,
         v.state = "free" => Unplaced(r), v.state # "completed" => v.answer = "none",
         v.answer = "nothing" => Unplaced(r), v.answer = "placed" => r \in booked
  PROVE  IInv'
<1> USE DEF venue
<1>1. \A s \in Requests : ~Early(s) => ~Early(s)'
  BY DEF Moves, Early
<1>2. k # None /\ None \notin Ids /\ None # 0
  BY NoneAssumption DEF Ids
<1>3. /\ key' \in [Keys -> Key] /\ key'[k] = v /\ link' \in [Keys -> Ids \cup {0, None}] /\ link'[k] = None
      /\ \A j \in Keys \ {k} : key'[j] = key[j] /\ link'[j] = link[j]
  BY DEF IInv, TypeOK
<1>4. Tasked(r) /\ Keyed(k)
  BY DEF IInv
<1>5. \A s \in Requests : (Unplaced(s)' <=> Unplaced(s)) /\ (s # r => (Dead(s)' <=> Dead(s)))
  BY <1>1, RowsSame DEF Dead, Moves
<1>6. \A s \in Requests : s \in CallsOf(k)' => s = r \/ Dead(s)'
  BY <1>5, OthersDead DEF CallsOf, Moves
<1>7. r \in CallsOf(k)' /\ \A s \in CallsOf(k)' : s \in Requests
  BY DEF CallsOf, Moves
<1>8. task'[r].pc = "over" /\ \A s \in Requests : Dead(s)' => Unplaced(s)'
  BY DEF Moves, Dead
<1>9. Keyed(k)'
  <2>1. v.answer = "nothing" \/ v.state = "free" => \A s \in CallsOf(k)' : Unplaced(s)'
    BY <1>5, <1>6, <1>7, <1>8
  <2>2. v.state = "free" => \A s \in CallsOf(k)' : Dead(s)'
    BY <1>5, <1>6, <1>7, <1>8 DEF Dead
  <2>3. v.answer = "placed" => r \in booked'
    OBVIOUS
  <2> QED BY <1>2, <1>3, <1>6, <1>7, <2>1, <2>2, <2>3 DEF Keyed, Linked, Ids
<1>10. Tasked(r)'
  <2>1. task'[r].pc = "over" /\ task'[r].key = k
    BY DEF Moves
  <2> QED BY <1>2, <2>1 DEF Tasked, Active, Early
<1>11. \A j \in Keys : link[j] \in Ids => order'[link[j]] # None
  BY DEF IInv, Keyed, Linked, Exists
<1>12. /\ task' \in [Requests -> Task] /\ task'[r].key = k
       /\ \A s \in Requests \ {r} : task'[s] = task[s]
  BY DEF Moves
<1>13. /\ order' \in [Ids -> Order \cup {None}] /\ Ages /\ \A i \in Ids : Row(i)'
       /\ \A i \in Ids : Exists(i) => order'[i] # None
  BY <1>1, RowsSame
<1>14. \A j \in Keys \ {k} : task[r].key # j
  OBVIOUS
<1> QED BY <1>1, <1>3, <1>9, <1>10, <1>11, <1>12, <1>13, <1>14, CallStep

LEMMA NotPortedInv == ASSUME IInv, NEW r \in Requests, NotPorted(r) PROVE IInv'
<1> USE DEF venue
<1>1. /\ task[r].pc = "claimed" /\ up /\ task[r].key # None /\ task[r].answer = "none" /\ Early(r) /\ Active(r)
  BY DEF NotPorted, IInv, Tasked, Early, Active
<1>2. PICK k \in Keys : k = task[r].key
  BY <1>1 DEF IInv, TypeOK, Task
<1>3. Unplaced(r)
  BY <1>1, Fresh
<1>4. Moves(r, "over", k, 0, task[r].answer)
  BY <1>2, TaskWrites DEF NotPorted, IInv
<1>5. FreeKey \in Key /\ FreeKey.state = "free" /\ FreeKey.answer = "none"
  BY DEF FreeKey, Key
<1> QED BY <1>1, <1>2, <1>3, <1>4, <1>5, KeyEnds DEF NotPorted

LEMMA CompleteInv == ASSUME IInv, NEW r \in Requests, Complete(r) PROVE IInv'
<1> USE DEF venue, database
<1>1. task[r].pc = "answering" /\ up /\ Tasked(r) /\ Active(r)
  BY DEF Complete, IInv, Active
<1>2. Moves(r, "over", task[r].key, 0, task[r].answer)
  BY TaskWrites DEF Complete, IInv
<1>3. CASE task[r].key = None
  <2>1. UNCHANGED <<starts, up, database, engine, unswept, venue>>
    BY <1>3 DEF Complete
  <2>2. Unplaced(r) => Unplaced(r)'
    BY <2>1 DEF Unplaced, Exists, Ids
  <2>3. Tasked(r)'
    BY <1>1, <1>2, <1>3, <2>1, <2>2 DEF Tasked, Moves, Early, Active
  <2> QED BY <1>1, <1>2, <2>1, <2>3, TaskStep
<1>4. CASE task[r].key # None
  <2>1. PICK k \in Keys : k = task[r].key
    BY <1>4 DEF IInv, TypeOK, Task
  <2>2. PICK a \in Answers \cup {"none"} : a = task[r].answer
    BY DEF IInv, TypeOK, Task
  <2> DEFINE v == [state |-> "completed", answer |-> a]
  <2>3. v \in Key /\ v.state = "completed" /\ v.answer = a
    BY DEF Key
  <2>4. key' = [key EXCEPT ![k] = v] /\ link' = [link EXCEPT ![k] = None]
    BY <1>4, <2>1, <2>2 DEF Complete
  <2> HIDE DEF v
  <2>5. (a = "nothing" => Unplaced(r)) /\ (a = "placed" => r \in booked)
    BY <1>1, <2>2 DEF Tasked
  <2> QED BY <1>1, <1>2, <2>1, <2>3, <2>4, <2>5, KeyEnds DEF Complete
<1> QED BY <1>3, <1>4

\* The id of a new row is one of Ids: every id in use was taken by a call.
LEMMA NextIsId ==
  ASSUME IInv, NEW r \in Requests, Early(r), ~Early(r)', \A s \in Requests \ {r} : Early(s)' <=> Early(s)
  PROVE  /\ NextId \in Ids /\ ~Exists(NextId) /\ None \notin Ids
         /\ NextId <= Cardinality({s \in Requests : ~Early(s)'})
         /\ \A i \in Ids : Exists(i) => i <= Cardinality({s \in Requests : ~Early(s)'})
<1> DEFINE S == {s \in Requests : ~Early(s)}
           T == {s \in Requests : ~Early(s)'}
<1>1. T = S \cup {r} /\ r \notin S /\ S \subseteq Requests /\ T \subseteq Requests
  OBVIOUS
<1>2. IsFiniteSet(S) /\ IsFiniteSet(T)
  BY <1>1, RequestsAssumption, FS_Subset
<1>3. Cardinality(T) = Cardinality(S) + 1 /\ Cardinality(S) \in Nat
  BY <1>1, <1>2, FS_AddElement, FS_CardinalityType
<1>4. Cardinality(T) <= Cardinality(Requests) /\ Cardinality(Requests) \in Nat
  BY <1>1, RequestsAssumption, FS_Subset, FS_CardinalityType
<1>5. \A i \in Ids : Exists(i) => i <= Cardinality(S)
  BY DEF IInv, Counted
<1> HIDE DEF S, T
<1>6. /\ NextId \in Nat \ {0} /\ \A i \in Ids : Exists(i) => i < NextId
      /\ NextId = 1 \/ (NextId - 1 \in Ids /\ Exists(NextId - 1))
  BY RequestsAssumption, NextFree
<1>7. NextId <= Cardinality(T)
  BY <1>3, <1>5, <1>6
<1>8. NextId \in Ids
  BY <1>3, <1>4, <1>6, <1>7 DEF Ids
<1>9. ~Exists(NextId)
  BY <1>6, <1>8
<1>10. \A i \in Ids : Exists(i) => i <= Cardinality(T)
  BY <1>3, <1>5 DEF Ids
<1> QED BY <1>7, <1>8, <1>9, <1>10, NoneAssumption DEF T, Ids

LEMMA QueueInv == ASSUME IInv, NEW r \in Requests, NEW account \in BOOLEAN, Queue(r, account) PROVE IInv'
<1> USE DEF venue
<1> DEFINE n == NextId
           k == task[r].key
           o == [state |-> "queued", outcome |-> "none", account |-> account, for |-> r]
<1>1. task[r].pc \in {"new", "claimed"} /\ up /\ Early(r) /\ Tasked(r) /\ Unplaced(r) /\ task[r].answer = "none"
  BY Fresh DEF Queue, Early, IInv, Tasked
<1>2. task' = [task EXCEPT ![r].pc = "waiting", ![r].id = n]
  BY DEF Queue
<1>3. n \in Nat \ {0}
  BY RequestsAssumption, NextFree
<1>4. task'[r].pc = "waiting" /\ \A s \in Requests \ {r} : task'[s] = task[s]
  BY <1>2 DEF IInv, TypeOK, Task
<1>5. ~Early(r)' /\ \A s \in Requests \ {r} : Early(s)' <=> Early(s)
  BY <1>4 DEF Early
<1>6. /\ n \in Ids /\ ~Exists(n) /\ None \notin Ids
      /\ n <= Cardinality({s \in Requests : ~Early(s)'})
      /\ \A i \in Ids : Exists(i) => i <= Cardinality({s \in Requests : ~Early(s)'})
  BY <1>1, <1>5, NextIsId
<1>7. Moves(r, "waiting", k, n, "none")
  BY <1>1, <1>2, <1>6, TaskWrites DEF IInv
<1>8. o \in Order /\ o.state = "queued" /\ o.for = r /\ o # None
  BY NoneAssumption DEF Order, Live
<1>9. order' = [order EXCEPT ![n] = o]
  BY DEF Queue
<1> HIDE DEF n, o
<1>10. /\ order' \in [Ids -> Order \cup {None}] /\ order'[n] = o
       /\ \A i \in Ids \ {n} : order'[i] = order[i]
  BY <1>6, <1>8, <1>9 DEF IInv, TypeOK
<1>11. UNCHANGED <<starts, up, key, engine, unswept, sent, booked>>
  BY DEF Queue
<1>12. \A i \in Ids : Exists(i) => i # n /\ order'[i] = order[i] /\ Exists(i)' /\ order[i].for # r
  BY <1>1, <1>6, <1>10 DEF IInv, Row, Exists
<1>13. \A i \in Ids : Exists(i)' => i = n \/ Exists(i)
  BY <1>10 DEF Exists
<1>14. \A s \in Requests \ {r} : (Unplaced(s) => Unplaced(s)') /\ (Dead(s) => Dead(s)')
  <2> SUFFICES ASSUME NEW s \in Requests \ {r} PROVE (Unplaced(s) => Unplaced(s)') /\ (Dead(s) => Dead(s)')
    OBVIOUS
  <2>1. Unplaced(s) => Unplaced(s)'
    <3>1. \A i \in Ids : Exists(i)' /\ order'[i].for = s => Exists(i) /\ order'[i] = order[i]
      BY <1>8, <1>10, <1>12, <1>13
    <3> QED BY <1>11, <3>1 DEF Unplaced, Ids
  <2> QED BY <1>4, <2>1 DEF Dead
<1>15. Unique'
  <2> SUFFICES ASSUME NEW i \in Ids, NEW j \in Ids, Exists(i)', Exists(j)', order'[i].for = order'[j].for
               PROVE  i = j
    BY DEF Unique, Ids
  <2>1. CASE Exists(i) /\ Exists(j)
    BY <1>12, <2>1 DEF IInv, Unique
  <2>2. CASE i = n \/ j = n
    BY <1>8, <1>10, <1>12, <1>13, <2>2
  <2> QED BY <1>13, <2>1, <2>2
<1>16. Counted'
  BY <1>6, <1>13 DEF Counted, Ids
<1>17. ASSUME NEW i \in Ids PROVE Row(i)'
  <2>1. CASE i = n
    BY <1>1, <1>5, <1>8, <1>10, <1>11, <2>1 DEF Row, Unplaced
  <2>2. CASE i # n
    <3>1. Row(i) /\ order'[i] = order[i]
      BY <1>10, <2>2 DEF IInv
    <3>2. Exists(i) => order[i].for \in Requests \ {r}
      BY <1>12 DEF IInv, TypeOK, Order, Exists
    <3> QED BY <1>5, <1>11, <3>1, <3>2 DEF Row, Exists
  <2> QED BY <2>1, <2>2
<1>18. Tasked(r)'
  <2>1. /\ task'[r].pc = "waiting" /\ task'[r].key = k /\ task'[r].id = n /\ task'[r].answer = "none"
        /\ order'[n] = o /\ o.for = r /\ o # None /\ n \in Ids /\ up'
    BY <1>1, <1>6, <1>7, <1>8, <1>10, <1>11 DEF Moves
  <2>2. k # None => key'[k].state = "in_progress"
    BY <1>1, <1>11 DEF Tasked, Active
  <2> QED BY <2>1, <2>2 DEF Tasked, Early, Active, Exists, Ids
<1>19. ASSUME NEW s \in Requests, s # r PROVE Tasked(s)'
  <2>1. Tasked(s) /\ task'[s] = task[s]
    BY <1>4, <1>19 DEF IInv
  <2>2. Unplaced(s) => Unplaced(s)'
    BY <1>14, <1>19
  <2>3. task[s].pc \in {"waiting", "reading"} => order'[task[s].id] = order[task[s].id]
    BY <1>12, <2>1 DEF Tasked
  <2> QED BY <1>11, <2>1, <2>2, <2>3 DEF Tasked, Early, Active, Exists, Ids
<1>20. ASSUME NEW j \in Keys, j # k PROVE Keyed(j)'
  <2>1. link'[j] = link[j] /\ key'[j] = key[j]
    BY <1>11, <1>20 DEF Queue, IInv, TypeOK
  <2>2. \A s \in Requests : task'[s].key = j <=> task[s].key = j
    BY <1>7 DEF Moves
  <2>3. \A s \in CallsOf(j) : s \in Requests \ {r}
    BY <1>20 DEF CallsOf
  <2>4. \A s \in CallsOf(j) : /\ Unplaced(s) => Unplaced(s)'
                              /\ task[s].pc \in {"over", "lost"} => task'[s].pc \in {"over", "lost"}
    BY <1>4, <1>14, <2>3
  <2>5. link'[j] \in Ids => order'[link[j]] # None /\ order'[link[j]].for = order[link[j]].for
    BY <1>12, <2>1 DEF IInv, Keyed, Linked, Exists
  <2> QED BY <1>11, <2>1, <2>2, <2>4, <2>5, KeyStays
<1>21. ASSUME NEW j \in Keys, j = k PROVE Keyed(j)'
  <2>1. j # None /\ Active(r) /\ key[j].state = "in_progress" /\ key[j].answer = "none" /\ task[r].key = j
    BY <1>1, <1>21, NoneAssumption DEF Tasked, Active, IInv, Keyed
  <2>2. PICK m \in Ids : m = n
    BY <1>6
  <2>3. link'[j] = m
    BY <1>21, <2>1, <2>2 DEF Queue, IInv, TypeOK, n
  <2>4. \A s \in CallsOf(j)' : s = r \/ Dead(s)'
    <3>1. \A s \in CallsOf(j)' : s = r \/ (s \in CallsOf(j) /\ s \in Requests \ {r})
      BY <1>4 DEF CallsOf
    <3>2. \A s \in CallsOf(j) : s # r => Dead(s)
      BY <2>1, OthersDead
    <3> QED BY <1>14, <3>1, <3>2
  <2>5. m # 0 /\ order'[m].for = r /\ order'[m] # None /\ task'[r].key = j
    BY <1>7, <1>8, <1>10, <2>1, <2>2 DEF Moves, Ids
  <2>6. key'[j].state = "in_progress" /\ key'[j].answer = "none"
    BY <1>11, <2>1
  <2>7. order'[link'[j]].for = r /\ Exists(link[j])' /\ task'[order'[link'[j]].for].key = j
    BY <2>3, <2>5 DEF Exists
  <2> QED BY <2>3, <2>4, <2>5, <2>6, <2>7 DEF Keyed
<1>22. Hand'
  <2>1. \A i \in Ids : Exists(i) /\ order[i].state \in {"taken", "sending"} => order'[i] = order[i]
    BY <1>12
  <2> QED BY <1>11, <2>1, HandStays
<1>23. TypeOK'
  <2>1. link' \in [Keys -> Ids \cup {0, None}]
    BY <1>6 DEF Queue, IInv, TypeOK, n
  <2>2. task' \in [Requests -> Task]
    BY <1>7 DEF Moves
  <2> QED BY <1>10, <1>11, <2>1, <2>2 DEF IInv, TypeOK
<1>24. \A j \in Keys : Keyed(j)'
  BY <1>20, <1>21
<1>25. \A s \in Requests : Tasked(s)'
  BY <1>18, <1>19
<1> QED BY <1>15, <1>16, <1>17, <1>22, <1>23, <1>24, <1>25 DEF IInv, Ids

\* While the process is down, no task works on a call.
LEMMA NoneActive ==
  ASSUME IInv, ~up, NEW s \in Requests
  PROVE  /\ ~Active(s) /\ task[s].pc \in {"new", "over", "lost"}
         /\ task[s].key \in Keys => task[s].pc \in {"over", "lost"}
<1>1. ~Active(s) /\ (task[s].pc = "new" => task[s].key = None)
  BY DEF IInv, Tasked
<1>2. task[s].pc \in {"new", "claimed", "waiting", "reading", "answering", "over", "lost"}
  BY DEF IInv, TypeOK, Task
<1> QED BY <1>1, <1>2, NoneAssumption DEF Active

LEMMA SweepInv == ASSUME IInv, Start, Sweep PROVE IInv'
<1> USE DEF venue
<1> DEFINE stale == {k \in Keys : key[k].state = "in_progress"}
           freed == {k \in stale : PlacedNothing(k, Settled)}
<1>1. PICK old \in SUBSET {i \in Ids : Exists(i) /\ ~Kept(Settled[i])} :
        /\ key' = [k \in Keys |-> IF k \in freed THEN FreeKey
                                  ELSE IF k \in stale THEN [state |-> "completed", answer |-> "maybe"]
                                  ELSE key[k]]
        /\ link' = [k \in Keys |-> IF k \in stale \/ link[k] \in old THEN None ELSE link[k]]
        /\ order' = [i \in Ids |-> IF i \in old THEN None ELSE Settled[i]]
        /\ unswept' = FALSE
  BY DEF Sweep
<1>2. ~up /\ up' /\ task' = task /\ booked' = booked /\ sent' = sent /\ engine' = Idle /\ starts' = starts + 1
  BY DEF Start
<1>3. \A i \in Ids : order'[i] \in {None, Settled[i]} /\ (i \notin old => order'[i] = Settled[i])
  BY <1>1
<1>4. order' \in [Ids -> Order \cup {None}]
  BY <1>1, SettledRows
<1>5. Ages /\ Books
  BY <1>2, <1>3, SettledRows DEF Ages, Books, Exists
<1>6. \A r \in Requests : Early(r)' <=> Early(r)
  BY <1>2 DEF Early
<1>7. /\ Unique' /\ Counted' /\ \A r \in Requests : Unplaced(r) => Unplaced(r)'
  BY <1>5, <1>6, RowsAge
<1>8. ASSUME NEW i \in Ids PROVE Row(i)'
  <2>1. Row(i)
    BY DEF IInv
  <2>2. Exists(i)' => Exists(i) /\ order'[i] = Settled[i]
    BY <1>3, SettledRows DEF Exists
  <2> QED BY <1>2, <2>1, <2>2, SettledRows DEF Row, Early, Exists, Over
<1>9. \A i \in Ids : Exists(i)' => order'[i].state \in Over
  BY <1>3, SettledRows DEF Exists
<1>10. ASSUME NEW r \in Requests PROVE Tasked(r)'
  <2>1. Tasked(r) /\ task'[r] = task[r] /\ (Unplaced(r) => Unplaced(r)')
    BY <1>2, <1>7 DEF IInv
  <2>2. ~Active(r) /\ task[r].pc \in {"new", "over", "lost"}
    BY <1>2, NoneActive
  <2> QED BY <1>2, <2>1, <2>2 DEF Tasked, Early, Active
<1>11. ASSUME NEW k \in Keys PROVE Keyed(k)'
  <2>1. Keyed(k)
    BY DEF IInv
  <2>2. \A r \in CallsOf(k) : r \in Requests /\ task'[r].pc \in {"over", "lost"} /\ task[r].pc \in {"over", "lost"}
    BY <1>2, NoneActive DEF CallsOf
  <2>3. CallsOf(k)' = CallsOf(k)
    BY <1>2 DEF CallsOf
  <2>4. \A r \in CallsOf(k) : Unplaced(r) => Unplaced(r)' /\ Dead(r)'
    BY <1>7, <2>2 DEF Dead
  <2>5. None \notin Ids /\ None # 0 /\ 0 \notin Ids
    BY NoneAssumption DEF Ids
  <2>6. \A r, s \in CallsOf(k) : r # s => Dead(r)' \/ Dead(s)'
    BY <2>1, <2>4 DEF Keyed, Dead
  <2>7. CASE k \in freed
    <3>0. PICK v \in Key : v = FreeKey
      BY DEF FreeKey, Key
    <3>1. v.state = "free" /\ v.answer = "none"
      BY <3>0 DEF FreeKey
    <3>2. key'[k] = v /\ link'[k] = None
      BY <1>1, <2>7, <3>0
    <3>3. PlacedNothing(k, Settled)
      BY <2>7
    <3>4. CASE link[k] = 0
      <4>1. \A r \in CallsOf(k) : Dead(r)'
        BY <2>1, <2>4, <3>4 DEF Keyed
      <4> QED BY <2>3, <2>4, <2>5, <3>1, <3>2, <4>1 DEF Keyed, Linked, Ids, Dead
    <3>5. CASE /\ Linked(k) /\ Settled[link[k]] # None
               /\ \/ Settled[link[k]].state = "withdrawn"
                  \/ Settled[link[k]].state = "done" /\ Settled[link[k]].outcome = "nothing"
      <4>1. PICK e \in Ids : e = link[k] /\ Exists(e)
        BY <3>5, SettledRows DEF Linked
      <4>2. PICK w \in Requests : w = order[e].for
        BY <4>1 DEF IInv, TypeOK, Order, Exists
      <4>3. w \notin booked
        BY <3>5, <4>1, <4>2, SettledRows
      <4>4. Unplaced(w)'
        <5>1. \A i \in Ids : Exists(i)' => order'[i].state \in Over
          BY <1>9
        <5> QED BY <1>2, <4>3, <5>1 DEF Unplaced, Ids
      <4>5. \A r \in CallsOf(k) : r # w => Dead(r)
        BY <2>1, <3>5, <4>1, <4>2 DEF Keyed
      <4>6. \A r \in CallsOf(k) : Dead(r)'
        BY <2>2, <2>4, <4>4, <4>5 DEF Dead
      <4> QED BY <2>3, <2>4, <2>5, <3>1, <3>2, <4>6 DEF Keyed, Linked, Ids, Dead
    <3> QED BY <3>3, <3>4, <3>5 DEF PlacedNothing
  <2>8. CASE k \in stale \ freed
    <3>0. PICK v \in Key : v = [state |-> "completed", answer |-> "maybe"]
      BY DEF Key, Answers
    <3>1. v.state = "completed" /\ v.answer = "maybe"
      BY <3>0
    <3>2. key'[k] = v /\ link'[k] = None
      BY <1>1, <2>8, <3>0
    <3> QED BY <2>3, <2>5, <2>6, <3>1, <3>2 DEF Keyed, Linked, Ids
  <2>9. CASE k \notin stale
    <3>1. key'[k] = key[k] /\ link'[k] \in {link[k], None} /\ (link'[k] # None => link[k] \notin old)
      BY <1>1, <2>9
    <3>2. link'[k] \in Ids => order'[link[k]] # None /\ order'[link[k]].for = order[link[k]].for
      <4> SUFFICES ASSUME link'[k] \in Ids PROVE order'[link[k]] # None /\ order'[link[k]].for = order[link[k]].for
        OBVIOUS
      <4>1. link'[k] = link[k] /\ link[k] \notin old /\ Linked(k)
        BY <2>5, <3>1 DEF Linked
      <4>2. PICK e \in Ids : e = link[k] /\ Exists(e)
        BY <2>1, <4>1 DEF Keyed, Linked
      <4> QED BY <1>3, <4>1, <4>2, SettledRows
    <3>3. \A r \in Requests : task'[r].key = k <=> task[r].key = k
      BY <1>2
    <3>4. \A r \in CallsOf(k) : /\ Unplaced(r) => Unplaced(r)'
                                /\ task[r].pc \in {"over", "lost"} => task'[r].pc \in {"over", "lost"}
      BY <1>7, <2>2
    <3> QED BY <1>2, <3>1, <3>2, <3>3, <3>4, KeyStays
  <2> QED BY <2>7, <2>8, <2>9
<1>12. TypeOK'
  <2>1. key' \in [Keys -> Key]
    <3>1. \A k \in Keys : key'[k] \in Key
      <4> SUFFICES ASSUME NEW k \in Keys PROVE key'[k] \in Key
        OBVIOUS
      <4>1. key[k] \in Key /\ FreeKey \in Key /\ [state |-> "completed", answer |-> "maybe"] \in Key
        BY DEF IInv, TypeOK, Key, FreeKey, Answers
      <4>2. key'[k] \in {key[k], FreeKey, [state |-> "completed", answer |-> "maybe"]}
        BY <1>1
      <4> QED BY <4>1, <4>2
    <3> QED BY <1>1, <3>1
  <2>2. link' \in [Keys -> Ids \cup {0, None}]
    BY <1>1 DEF IInv, TypeOK
  <2>3. starts' \in Nat /\ engine' \in Engine
    BY <1>2, IdleHand DEF IInv, TypeOK
  <2>5. unswept' \in BOOLEAN /\ up' \in BOOLEAN
    BY <1>1 DEF Start
  <2>4. task' \in [Requests -> Task] /\ sent' \subseteq Requests /\ booked' \subseteq sent'
    BY <1>2 DEF IInv, TypeOK
  <2> QED BY <1>4, <2>1, <2>2, <2>3, <2>4, <2>5 DEF TypeOK, Ids
<1>13. Hand'
  BY <1>2, IdleHand
<1> QED BY <1>7, <1>8, <1>10, <1>11, <1>12, <1>13 DEF IInv, Ids

LEMMA StartInv == ASSUME IInv, Start PROVE IInv'
<1> USE DEF venue, database
<1>1. CASE unswept' = TRUE /\ UNCHANGED database
  <2>1. /\ UNCHANGED <<order, key, link, task, sent, booked>> /\ ~up /\ up' = TRUE
        /\ engine' = Idle /\ starts' = starts + 1 /\ unswept' = TRUE
    BY <1>1 DEF Start
  <2>2. ASSUME NEW r \in Requests PROVE Tasked(r)'
    <3>1. Tasked(r) /\ (Unplaced(r) => Unplaced(r)')
      BY <2>1 DEF IInv, Unplaced, Exists, Ids
    <3>2. ~Active(r) /\ task[r].pc \in {"new", "over", "lost"}
      BY <2>1, NoneActive
    <3> QED BY <2>1, <3>1, <3>2 DEF Tasked, Early, Active
  <2>3. ASSUME NEW k \in Keys PROVE Keyed(k)'
    <3>1. Keyed(k)
      BY DEF IInv
    <3> QED BY <2>1, <3>1 DEF Keyed, CallsOf, Dead, Unplaced, Linked, Exists, Ids
  <2>4. \A i \in Ids : Row(i)'
    BY <2>1 DEF IInv, Row, Early, Exists
  <2>5. Unique' /\ Counted'
    BY <2>1 DEF IInv, Unique, Counted, Exists, Early, Ids
  <2>6. Hand' /\ engine' \in Engine
    BY <2>1, IdleHand
  <2>7. TypeOK'
    <3>1. starts' \in Nat /\ order' \in [Ids -> Order \cup {None}]
      BY <2>1 DEF IInv, TypeOK
    <3>2. key' \in [Keys -> Key] /\ link' \in [Keys -> Ids \cup {0, None}] /\ task' \in [Requests -> Task]
      BY <2>1 DEF IInv, TypeOK
    <3>3. sent' \subseteq Requests /\ booked' \subseteq sent'
      BY <2>1 DEF IInv, TypeOK
    <3> QED BY <2>1, <2>6, <3>1, <3>2, <3>3 DEF TypeOK, Ids
  <2> QED BY <2>2, <2>3, <2>4, <2>5, <2>6, <2>7 DEF IInv, Ids
<1> QED BY <1>1, SweepInv DEF Start

LEMMA CrashInv == ASSUME IInv, Crash PROVE IInv'
<1> USE DEF venue, database
<1>1. /\ UNCHANGED <<order, key, link, sent, booked, starts, unswept>> /\ up /\ up' = FALSE /\ engine' = Idle
      /\ task' = [r \in Requests |-> IF task[r].pc \in {"new", "over"} THEN task[r] ELSE Lost(task[r])]
  BY DEF Crash
<1>2. ASSUME NEW r \in Requests
      PROVE  /\ task'[r] \in Task /\ task'[r].key = task[r].key
             /\ \/ task[r].pc \in {"new", "over"} /\ task'[r] = task[r]
                \/ task[r].pc \notin {"new", "over"} /\ task'[r].pc = "lost" /\ task'[r].answer = "none"
  <2>1. PICK t \in Task : t = task[r]
    BY DEF IInv, TypeOK
  <2>2. CASE t.pc \in {"new", "over"}
    BY <1>1, <2>1, <2>2
  <2>3. CASE t.pc \notin {"new", "over"}
    <3>1. PICK u \in Task : u = [pc |-> "lost", key |-> t.key, id |-> 0, answer |-> "none"]
      BY DEF Task
    <3>2. u = Lost(t) /\ u.pc = "lost" /\ u.key = t.key /\ u.answer = "none"
      BY <3>1, TaskFields
    <3>3. task'[r] = u
      BY <1>1, <2>1, <2>3, <3>2
    <3> QED BY <2>1, <2>3, <3>2, <3>3
  <2> QED BY <2>2, <2>3
<1>3. \A r \in Requests : ~Early(r) => ~Early(r)'
  BY <1>2 DEF Early
<1>4. Ages /\ Books
  BY <1>1 DEF Ages, Books
<1>5. /\ Unique' /\ Counted' /\ \A r \in Requests : Unplaced(r) => Unplaced(r)'
  BY <1>3, <1>4, RowsAge
<1>6. \A i \in Ids : Row(i)'
  BY <1>1, <1>3, RowsSame
<1>7. ASSUME NEW r \in Requests PROVE Tasked(r)'
  <2>1. Tasked(r) /\ (Unplaced(r) => Unplaced(r)')
    BY <1>5 DEF IInv
  <2>2. CASE task[r].pc \in {"new", "over"} /\ task'[r] = task[r]
    BY <1>1, <2>1, <2>2 DEF Tasked, Early, Active
  <2>3. CASE task'[r].pc = "lost" /\ task'[r].answer = "none"
    BY <2>3 DEF Tasked, Early, Active
  <2> QED BY <1>2, <2>2, <2>3
<1>8. ASSUME NEW k \in Keys PROVE Keyed(k)'
  <2>1. \A r \in Requests : task'[r].key = k <=> task[r].key = k
    BY <1>2
  <2>2. \A r \in CallsOf(k) : /\ Unplaced(r) => Unplaced(r)'
                              /\ task[r].pc \in {"over", "lost"} => task'[r].pc \in {"over", "lost"}
    BY <1>2, <1>5 DEF CallsOf
  <2>3. link'[k] \in Ids => order'[link[k]] # None /\ order'[link[k]].for = order[link[k]].for
    BY <1>1 DEF IInv, Keyed, Linked, Exists
  <2> QED BY <1>1, <2>1, <2>2, <2>3, KeyStays
<1>9. Hand' /\ engine' \in Engine
  BY <1>1, IdleHand
<1>10. TypeOK'
  <2>1. task' \in [Requests -> Task]
    BY <1>1, <1>2
  <2>2. up' \in BOOLEAN
    BY <1>1
  <2>3. starts' \in Nat /\ unswept' \in BOOLEAN
    BY <1>1 DEF IInv, TypeOK
  <2>4. order' \in [Ids -> Order \cup {None}] /\ key' \in [Keys -> Key] /\ link' \in [Keys -> Ids \cup {0, None}]
    BY <1>1 DEF IInv, TypeOK
  <2>5. sent' \subseteq Requests /\ booked' \subseteq sent'
    BY <1>1 DEF IInv, TypeOK
  <2> QED BY <1>9, <2>1, <2>2, <2>3, <2>4, <2>5 DEF TypeOK, Ids
<1> QED BY <1>5, <1>6, <1>7, <1>8, <1>9, <1>10 DEF IInv, Ids

LEMMA InitInv == Init => IInv
<1> SUFFICES ASSUME Init PROVE IInv
  OBVIOUS
<1>1. None # 0 /\ None \notin Ids /\ 0 \notin Ids
  BY NoneAssumption DEF Ids
<1>2. \A i \in Ids : ~Exists(i)
  BY DEF Init, Exists
<1>3. FreeKey \in Key /\ FreeKey.state = "free" /\ FreeKey.answer = "none"
  BY DEF FreeKey, Key
<1>4. NoTask \in Task /\ NoTask.pc = "new" /\ NoTask.key = None /\ NoTask.answer = "none"
  BY DEF NoTask, Task
<1>5. Idle \in Engine /\ Idle.pc = "idle"
  BY DEF Idle, Engine
<1>6. TypeOK
  <2>1. starts \in Nat /\ up \in BOOLEAN /\ unswept \in BOOLEAN
    BY DEF Init
  <2>2. order \in [Ids -> Order \cup {None}] /\ key \in [Keys -> Key] /\ link \in [Keys -> Ids \cup {0, None}]
    BY <1>3 DEF Init
  <2>3. task \in [Requests -> Task] /\ engine \in Engine /\ sent \subseteq Requests /\ booked \subseteq sent
    BY <1>4, <1>5 DEF Init
  <2> QED BY <2>1, <2>2, <2>3 DEF TypeOK
<1>7. Hand
  BY <1>5 DEF Init, Hand
<1>8. Unique /\ Counted /\ \A i \in Ids : Row(i)
  BY <1>2 DEF Unique, Counted, Row
<1>9. ASSUME NEW r \in Requests PROVE Tasked(r)
  <2>1. task[r] = NoTask /\ r \notin booked
    BY DEF Init
  <2> QED BY <1>4, <2>1 DEF Tasked, Active
<1>10. ASSUME NEW k \in Keys PROVE Keyed(k)
  <2>1. CallsOf(k) = {}
    BY <1>4, NoneAssumption DEF CallsOf, Init
  <2>2. key[k] = FreeKey /\ link[k] = None
    BY DEF Init
  <2> QED BY <1>1, <1>3, <2>1, <2>2 DEF Keyed, Linked
<1> QED BY <1>6, <1>7, <1>8, <1>9, <1>10 DEF IInv

LEMMA NextInv == IInv /\ [Next]_vars => IInv'
<1> SUFFICES ASSUME IInv, [Next]_vars PROVE IInv'
  OBVIOUS
<1>1. CASE UNCHANGED vars
  BY <1>1, IdleHand, RowsStay DEF vars, database, venue, IInv, TypeOK, Hand, Exists, Ids
<1>2. ASSUME NEW r \in Requests, Call(r) PROVE IInv'
  BY <1>2, BoundsAssumption, ClaimKeyInv, ReplayInv, QueueInv, RefuseCallInv, NotPortedInv, WithdrawInv,
     ReadAnswerInv, ForgetInv, GiveUpInv, CompleteInv, StrandInv DEF Call
<1>3. CASE Pass
  BY <1>3, SweepOrdersInv, TakeInv, RefuseInv, ClaimInv, NotSentInv, SendInv, AnswerInv, ReplaceInv, FailInv DEF Pass
<1> QED BY <1>1, <1>2, <1>3, StartInv, CrashInv DEF Next

\* The inductive invariant: what the engine holds, the rows, the tasks and the keys say of the
\* venue at once, and that a call which is over never places anything.
THEOREM Invariance == Spec => []IInv
  BY InitInv, NextInv, PTL DEF Spec
-----------------------------------------------------------------------------
\* Every record keeps the shape its table gives it.
THEOREM ApiTyped == Spec => []TypeOK
<1>1. IInv => TypeOK
  BY DEF IInv
<1> QED BY <1>1, Invariance, PTL

\* What a caller was told, or a key answers, of the venue is so.
THEOREM AnswersTrue == Spec => []AnswersAreTrue
<1>1. IInv => AnswersAreTrue
  <2> SUFFICES ASSUME IInv PROVE AnswersAreTrue
    OBVIOUS
  <2>1. \A r \in Requests : task[r].key = None => Tells(task[r].answer, {r})
    BY DEF IInv, Tasked, Tells, Unplaced
  <2>2. ASSUME NEW k \in Keys PROVE Tells(key[k].answer, {r \in Requests : task[r].key = k})
    BY DEF IInv, Keyed, Tells, Unplaced, CallsOf
  <2> QED BY <2>1, <2>2 DEF AnswersAreTrue
<1> QED BY <1>1, Invariance, PTL

\* The row a key in progress names is a row of a call that was sent with that key.
THEOREM LinksOwn == Spec => []LinksNameTheirOwn
<1>1. IInv => LinksNameTheirOwn
  BY DEF IInv, Keyed, LinksNameTheirOwn
<1> QED BY <1>1, Invariance, PTL

\* No step rewrites or deletes the row of a placed standalone order.
LEMMA KeptStays == IInv /\ [Next]_vars => \A i \in Ids : Exists(i) /\ Kept(order[i]) => order'[i] = order[i]
<1> SUFFICES ASSUME IInv, [Next]_vars, NEW i \in Ids, Exists(i), Kept(order[i]) PROVE order'[i] = order[i]
  OBVIOUS
<1>1. order[i].state = "done" /\ order[i] \in Order
  BY DEF Kept, IInv, TypeOK, Exists
<1>2. engine.pc # "idle" => engine.id # i
  BY <1>1 DEF IInv, Hand, TypeOK, Engine
<1>3. CASE UNCHANGED vars
  BY <1>3 DEF vars, database
<1>4. ASSUME NEW r \in Requests, Call(r) PROVE order'[i] = order[i]
  <2>1. CASE \E account \in Accounts : Queue(r, account)
    <3>1. NextId # i
      BY RequestsAssumption, NextFree
    <3> QED BY <2>1, <3>1 DEF Queue, IInv, TypeOK
  <2>2. CASE Withdraw(r)
    BY <1>1, <2>2 DEF Withdraw, In, IInv, TypeOK
  <2>3. CASE Forget(r)
    <3>1. CASE Kept(order[task[r].id])
      BY <2>3, <3>1 DEF Forget
    <3>2. CASE ~Kept(order[task[r].id])
      BY <2>3, <3>2 DEF Forget, Delete
    <3> QED BY <3>1, <3>2
  <2>4. CASE (\E k \in Keys : ClaimKey(r, k) \/ Replay(r, k)) \/ RefuseCall(r) \/ NotPorted(r) \/ ReadAnswer(r)
             \/ GiveUp(r) \/ Complete(r) \/ Strand(r)
    BY <2>4 DEF ClaimKey, Replay, RefuseCall, NotPorted, ReadAnswer, GiveUp, Complete, Strand, database
  <2> QED BY <1>4, <2>1, <2>2, <2>3, <2>4 DEF Call
<1>5. CASE Pass
  <2>1. CASE SweepOrders
    BY <1>1, <2>1, SettledRows DEF SweepOrders, Over
  <2>2. CASE \E j \in Ids : Take(j)
    BY <1>1, <2>2 DEF Take, In, IInv, TypeOK
  <2>3. ASSUME NEW outcome, Finish(outcome), engine.pc # "idle" PROVE order'[i] = order[i]
    BY <1>2, <2>3 DEF Finish, IInv, TypeOK
  <2>4. CASE Claim
    BY <1>2, <2>4 DEF Claim, IInv, TypeOK
  <2>5. CASE Refuse \/ NotSent \/ Answer
    BY <2>3, <2>5 DEF Refuse, NotSent, Answer
  <2>6. CASE Fail
    BY <2>3, <2>6 DEF Fail
  <2>7. CASE Send \/ Replace
    BY <2>7 DEF Send, Replace, database
  <2> QED BY <1>5, <2>1, <2>2, <2>4, <2>5, <2>6, <2>7 DEF Pass
<1>6. CASE Start
  <2>1. CASE Sweep
    <3>1. Settled[i] = order[i]
      BY <1>1, SettledRows DEF Over
    <3> QED BY <2>1, <3>1 DEF Sweep
  <2>2. CASE UNCHANGED database
    BY <2>2 DEF database
  <2> QED BY <1>6, <2>1, <2>2 DEF Start
<1>7. CASE Crash
  BY <1>7 DEF Crash, database
<1> QED BY <1>3, <1>4, <1>5, <1>6, <1>7 DEF Next

\* A placed standalone order stays in the log that an API cancel reads.
THEOREM LoggedStays == Spec => PlacedStaysLogged
<1>1. IInv /\ [Next]_vars => [\A i \in Ids : Exists(i) /\ Kept(order[i]) => order'[i] = order[i]]_vars
  BY KeptStays
<1> QED BY <1>1, Invariance, PTL DEF Spec, PlacedStaysLogged

-----------------------------------------------------------------------------
(* The promise of an Idempotency-Key. *)

\* What is answered says something: a done row, a task that has read one, a completed key.
RowTold(i)  == Exists(i) /\ order[i].state = "done" => order[i].outcome # "none"
TaskTold(r) == task[r].pc \in {"reading", "answering"} => task[r].answer # "none"
KeyTold(k)  == key[k].state = "completed" => key[k].answer # "none"
Told ==
  /\ \A i \in Ids : RowTold(i)
  /\ \A r \in Requests : TaskTold(r)
  /\ \A k \in Keys : KeyTold(k)

LEMMA FinishTold ==
  ASSUME IInv, Told, NEW outcome \in Answers, engine.pc # "idle", Finish(outcome), NEW i \in Ids
  PROVE  RowTold(i)'
<1>1. engine.id \in Ids /\ Exists(engine.id)
  BY DEF IInv, Hand
<1> DEFINE done == [state |-> "done", outcome |-> outcome, account |-> order[engine.id].account,
                    for |-> order[engine.id].for]
<1>2. order' = [order EXCEPT ![engine.id] = done]
  BY <1>1, DoneIn DEF Finish, IInv
<1>3. done.outcome = outcome
  OBVIOUS
<1> HIDE DEF done
<1> QED BY <1>1, <1>2, <1>3 DEF Told, RowTold, Exists, IInv, TypeOK, Answers

\* A row that moves on unanswered.
LEMMA MovesTold ==
  ASSUME IInv, Told, NEW e \in Ids, Exists(e), NEW state, state # "done",
         order' = [order EXCEPT ![e].state = state], NEW i \in Ids
  PROVE  RowTold(i)'
<1>1. order[e] \in Order
  BY DEF IInv, TypeOK, Exists
<1>2. order'[e].state = state /\ (i # e => order'[i] = order[i])
  BY <1>1 DEF IInv, TypeOK, Order
<1> QED BY <1>2 DEF Told, RowTold, Exists

LEMMA SettledTold ==
  ASSUME IInv, Told, NEW i \in Ids, order'[i] \in {None, Settled[i]}
  PROVE  RowTold(i)'
<1> SUFFICES ASSUME Exists(i), order'[i] = Settled[i], Settled[i].state = "done"
             PROVE  Settled[i].outcome # "none"
  BY SettledRows DEF RowTold, Exists
<1>1. order[i] \in Order
  BY DEF IInv, TypeOK, Exists
<1>2. CASE order[i].state = "taken"
  <2>1. Settled[i] = [order[i] EXCEPT !.state = "done", !.outcome = "nothing"]
    BY <1>2 DEF Settled, In
  <2> DEFINE done == [state |-> "done", outcome |-> "nothing", account |-> order[i].account, for |-> order[i].for]
  <2>2. Settled[i] = done
    BY <1>1, <2>1, DoneRow DEF Answers
  <2>3. done.outcome = "nothing"
    OBVIOUS
  <2> QED BY <2>2, <2>3
<1>3. CASE order[i].state = "sending"
  <2>1. Settled[i] = [order[i] EXCEPT !.state = "done", !.outcome = "maybe"]
    BY <1>3 DEF Settled, In
  <2> DEFINE done == [state |-> "done", outcome |-> "maybe", account |-> order[i].account, for |-> order[i].for]
  <2>2. Settled[i] = done
    BY <1>1, <2>1, DoneRow DEF Answers
  <2>3. done.outcome = "maybe"
    OBVIOUS
  <2> QED BY <2>2, <2>3
<1>4. CASE order[i].state = "queued"
  <2>1. Settled[i] = [order[i] EXCEPT !.state = "withdrawn"]
    BY <1>4 DEF Settled, In
  <2> QED BY <1>1, <2>1 DEF Order
<1>5. CASE order[i].state \in Over
  BY <1>5, SettledRows DEF Told, RowTold, Exists
<1> QED BY <1>1, <1>2, <1>3, <1>4, <1>5 DEF Order, Live

LEMMA RowsTold ==
  ASSUME IInv, Told, [Next]_vars, NEW i \in Ids
  PROVE  RowTold(i)'
<1>1. ASSUME order'[i] \in {None, order[i]} PROVE RowTold(i)'
  BY <1>1 DEF Told, RowTold, Exists
<1>2. CASE Pass
  <2>1. engine.pc # "idle" => engine.id \in Ids /\ Exists(engine.id)
    BY DEF IInv, Hand
  <2>2. CASE SweepOrders
    BY <2>2, SettledTold DEF SweepOrders
  <2>3. CASE (\E j \in Ids : Take(j)) \/ Claim
    BY <2>1, <2>3, MovesTold DEF Take, In, Claim
  <2>4. CASE Refuse \/ NotSent \/ Answer
    BY <2>4, FinishTold DEF Refuse, NotSent, Answer, Answers
  <2>5. CASE Send \/ Replace
    BY <1>1, <2>5 DEF Send, Replace, database
  <2>6. CASE Fail
    BY <1>1, <2>6, FinishTold DEF Fail, Answers
  <2> QED BY <1>2, <2>2, <2>3, <2>4, <2>5, <2>6 DEF Pass
<1>3. CASE Start
  <2>1. CASE Sweep
    BY <2>1, SettledTold DEF Sweep
  <2>2. CASE UNCHANGED database
    BY <1>1, <2>2 DEF database
  <2> QED BY <1>3, <2>1, <2>2 DEF Start
<1>4. ASSUME NEW r \in Requests, Call(r) PROVE RowTold(i)'
  <2>1. CASE \E account \in Accounts : Queue(r, account)
    BY <1>1, <2>1 DEF Queue, RowTold, IInv, TypeOK
  <2>2. CASE Withdraw(r)
    BY <2>2, RowOf, MovesTold DEF Withdraw
  <2>3. CASE Forget(r)
    BY <1>1, <2>3 DEF Forget, Delete
  <2>4. CASE (\E k \in Keys : ClaimKey(r, k) \/ Replay(r, k)) \/ RefuseCall(r) \/ NotPorted(r) \/ ReadAnswer(r)
             \/ GiveUp(r) \/ Complete(r) \/ Strand(r)
    BY <1>1, <2>4 DEF ClaimKey, Replay, RefuseCall, NotPorted, ReadAnswer, GiveUp, Complete, Strand, database
  <2> QED BY <1>4, <2>1, <2>2, <2>3, <2>4 DEF Call
<1>5. CASE Crash \/ UNCHANGED vars
  BY <1>1, <1>5 DEF Crash, vars, database
<1> QED BY <1>2, <1>3, <1>4, <1>5 DEF Next

\* What a call's step leaves its task with.
LEMMA CallTold ==
  ASSUME IInv, Told, NEW r \in Requests, Call(r)
  PROVE  /\ \A s \in Requests \ {r} : task'[s] = task[s]
         /\ TaskTold(r)'
         /\ r \notin booked \/ task'[r].key = task[r].key
<1>1. ASSUME NEW pc, NEW k, NEW id, NEW a, Moves(r, pc, k, id, a),
             pc \in {"reading", "answering"} => a # "none", k = task[r].key \/ r \notin booked
      PROVE  /\ \A s \in Requests \ {r} : task'[s] = task[s]
             /\ TaskTold(r)'
             /\ r \notin booked \/ task'[r].key = task[r].key
  BY <1>1 DEF Moves, TaskTold
<1>2. /\ TypeOK /\ task[r].key \in Keys \cup {None} /\ task[r].id \in Ids \cup {0}
      /\ task[r].answer \in Answers \cup {"none"} /\ Tasked(r) /\ TaskTold(r)
  BY DEF IInv, TypeOK, Task, Told
<1>3. ASSUME NEW k \in Keys, ClaimKey(r, k) \/ Replay(r, k)
      PROVE  /\ \A s \in Requests \ {r} : task'[s] = task[s]
             /\ TaskTold(r)'
             /\ r \notin booked \/ task'[r].key = task[r].key
  <2>1. r \notin booked
    BY <1>2, <1>3 DEF ClaimKey, Replay, Tasked, Early
  <2>2. CASE ClaimKey(r, k)
    <3>1. Moves(r, "claimed", k, task[r].id, task[r].answer)
      BY <1>2, <2>2, TaskWrites DEF ClaimKey
    <3> QED BY <1>1, <2>1, <3>1
  <2>3. CASE Replay(r, k)
    <3>1. PICK a \in {"none"} \cup {key[k].answer} :
            task' = [task EXCEPT ![r].pc = "over", ![r].key = k, ![r].answer = a]
      BY <2>3 DEF Replay
    <3>2. a \in Answers \cup {"none"}
      BY DEF IInv, TypeOK, Key
    <3>3. Moves(r, "over", k, task[r].id, a)
      BY <1>2, <3>1, <3>2, TaskWrites
    <3> QED BY <1>1, <2>1, <3>3
  <2> QED BY <1>3, <2>2, <2>3
<1>4. ASSUME NEW account \in Accounts, Queue(r, account)
      PROVE  /\ \A s \in Requests \ {r} : task'[s] = task[s]
             /\ TaskTold(r)'
             /\ r \notin booked \/ task'[r].key = task[r].key
  <2>1. PICK n : task' = [task EXCEPT ![r].pc = "waiting", ![r].id = n]
    BY <1>4 DEF Queue
  <2>2. task'[r].pc = "waiting" /\ task'[r].key = task[r].key
    BY <1>2, <2>1 DEF TypeOK, Task
  <2> QED BY <2>1, <2>2 DEF TaskTold, IInv, TypeOK
<1>5. CASE RefuseCall(r) \/ Withdraw(r) \/ GiveUp(r)
  <2>1. PICK pc \in {"answering", "reading"}, a \in {"nothing", "maybe"} :
          task' = [task EXCEPT ![r].pc = pc, ![r].answer = a]
    BY <1>5 DEF RefuseCall, Withdraw, GiveUp
  <2>2. Moves(r, pc, task[r].key, task[r].id, a)
    BY <1>2, <2>1, TaskWrites DEF Answers
  <2> QED BY <1>1, <2>2
<1>6. CASE NotPorted(r) \/ Complete(r)
  <2>1. Moves(r, "over", task[r].key, 0, task[r].answer)
    BY <1>2, <1>6, TaskWrites DEF NotPorted, Complete
  <2> QED BY <1>1, <2>1
<1>7. CASE Strand(r)
  <2>1. Moves(r, "lost", task[r].key, 0, "none")
    BY <1>2, <1>7, TaskWrites DEF Strand
  <2> QED BY <1>1, <2>1
<1>8. CASE Forget(r)
  <2>1. Moves(r, "answering", task[r].key, task[r].id, task[r].answer)
    BY <1>2, <1>8, TaskWrites DEF Forget
  <2>2. task[r].answer # "none"
    BY <1>2, <1>8 DEF Forget, TaskTold
  <2> QED BY <1>1, <2>1, <2>2
<1>9. CASE ReadAnswer(r)
  <2>1. PICK o \in Order : o = order[task[r].id]
    BY <1>9, RowOf DEF ReadAnswer
  <2>2. o.state \in Over /\ (o.state = "done" => o.outcome # "none")
    BY <1>9, <2>1, RowOf DEF ReadAnswer, In, Told, RowTold
  <2>3. PICK pc \in {"answering", "reading"}, a \in Answers :
          task' = [task EXCEPT ![r].pc = pc, ![r].answer = a]
    BY <1>9, <2>1, <2>2 DEF ReadAnswer, Order, Over, Answers
  <2>4. Moves(r, pc, task[r].key, task[r].id, a)
    BY <1>2, <2>3, TaskWrites
  <2> QED BY <1>1, <2>4 DEF Answers
<1> QED BY <1>3, <1>4, <1>5, <1>6, <1>7, <1>8, <1>9 DEF Call

LEMMA TasksTold ==
  ASSUME IInv, Told, [Next]_vars, NEW s \in Requests
  PROVE  TaskTold(s)' /\ (s \in booked => task'[s].key = task[s].key)
<1>1. ASSUME task'[s] = task[s] PROVE TaskTold(s)' /\ task'[s].key = task[s].key
  BY <1>1 DEF Told, TaskTold
<1>2. ASSUME NEW r \in Requests, Call(r)
      PROVE  TaskTold(s)' /\ (s \in booked => task'[s].key = task[s].key)
  BY <1>1, <1>2, CallTold
<1>3. CASE Pass \/ Start \/ UNCHANGED vars
  BY <1>1, <1>3 DEF Pass, SweepOrders, Take, Refuse, Claim, NotSent, Send, Answer, Replace, Fail, Start, vars
<1>4. CASE Crash
  <2>1. task'[s] = task[s] \/ task'[s] = Lost(task[s])
    BY <1>4 DEF Crash
  <2>2. PICK t \in Task : t = task[s]
    BY DEF IInv, TypeOK
  <2>3. CASE task'[s] = Lost(task[s])
    <3>1. task'[s] = [pc |-> "lost", key |-> t.key, id |-> 0, answer |-> "none"]
      BY <2>2, <2>3, TaskFields
    <3> QED BY <2>2, <3>1 DEF TaskTold
  <2> QED BY <1>1, <2>1, <2>3
<1> QED BY <1>2, <1>3, <1>4 DEF Next

\* A key in progress is given up, or its answer is written; otherwise keys stay but for the
\* sweep of a start.
LEMMA KeyWrites ==
  ASSUME IInv, Told, [Next]_vars, ~(Start /\ Sweep)
  PROVE  \/ UNCHANGED key
         \/ \E r \in Requests, k \in Keys : ClaimKey(r, k)
         \/ \E r \in Requests : NotPorted(r)
         \/ \E r \in Requests : Complete(r) /\ task[r].key # None
<1>1. ASSUME NEW r \in Requests, Call(r)
      PROVE  UNCHANGED key \/ (\E k \in Keys : ClaimKey(r, k)) \/ NotPorted(r)
             \/ (Complete(r) /\ task[r].key # None)
  BY <1>1 DEF Call, Replay, Queue, RefuseCall, Withdraw, ReadAnswer, Forget, GiveUp, Complete, Strand, database
<1>2. CASE Pass \/ Start \/ Crash \/ UNCHANGED vars
  BY <1>2 DEF Pass, SweepOrders, Take, Refuse, Claim, NotSent, Send, Answer, Replace, Fail, Start, Crash,
     vars, database
<1> QED BY <1>1, <1>2 DEF Next

\* The key of a call that ends with an answer.
LEMMA CompletesKey ==
  ASSUME IInv, Told, NEW r \in Requests, Complete(r), task[r].key # None
  PROVE  \E k \in Keys, a \in Answers :
           /\ k = task[r].key /\ a = task[r].answer /\ key[k].state = "in_progress"
           /\ key' = [key EXCEPT ![k] = [state |-> "completed", answer |-> a]]
<1>1. PICK k \in Keys : k = task[r].key
  BY DEF IInv, TypeOK, Task
<1>2. PICK a \in Answers : a = task[r].answer
  BY DEF IInv, TypeOK, Task, Told, TaskTold, Complete
<1>3. key[k].state = "in_progress"
  BY <1>1 DEF IInv, Tasked, Active, Complete
<1> QED BY <1>1, <1>2, <1>3 DEF Complete

LEMMA KeysTold ==
  ASSUME IInv, Told, [Next]_vars, NEW k \in Keys
  PROVE  KeyTold(k)'
<1>1. ASSUME NEW j \in Keys, NEW v, key' = [key EXCEPT ![j] = v], v.state = "completed" => v.answer # "none"
      PROVE  KeyTold(k)'
  BY <1>1 DEF Told, KeyTold, IInv, TypeOK
<1>2. CASE UNCHANGED key
  BY <1>2 DEF Told, KeyTold
<1>3. ASSUME NEW r \in Requests, NEW j \in Keys, ClaimKey(r, j) PROVE KeyTold(k)'
  <2>1. key[j] \in Key /\ key' = [key EXCEPT ![j].state = "in_progress"]
    BY <1>3 DEF ClaimKey, IInv, TypeOK
  <2>2. key'[j].state = "in_progress" /\ (k # j => key'[k] = key[k])
    BY <2>1 DEF IInv, TypeOK, Key
  <2> QED BY <2>2 DEF Told, KeyTold
<1>4. ASSUME NEW r \in Requests, NotPorted(r) PROVE KeyTold(k)'
  <2>1. PICK j \in Keys : j = task[r].key
    BY <1>4 DEF NotPorted, IInv, TypeOK, Task, Tasked
  <2>2. FreeKey.state = "free"
    BY DEF FreeKey
  <2> QED BY <1>1, <1>4, <2>1, <2>2 DEF NotPorted
<1>5. ASSUME NEW r \in Requests, Complete(r), task[r].key # None PROVE KeyTold(k)'
  <2>1. PICK j \in Keys, a \in Answers : key' = [key EXCEPT ![j] = [state |-> "completed", answer |-> a]]
    BY <1>5, CompletesKey
  <2> DEFINE v == [state |-> "completed", answer |-> a]
  <2>2. v.answer # "none" /\ key' = [key EXCEPT ![j] = v]
    BY <2>1 DEF Answers
  <2> HIDE DEF v
  <2> QED BY <1>1, <2>2
<1>6. CASE Start /\ Sweep
  <2>1. key'[k] \in {FreeKey, [state |-> "completed", answer |-> "maybe"], key[k]}
    BY <1>6 DEF Sweep
  <2> QED BY <2>1 DEF Told, KeyTold, FreeKey
<1> QED BY <1>2, <1>3, <1>4, <1>5, <1>6, KeyWrites

LEMMA ToldStays == IInv /\ Told /\ [Next]_vars => Told'
BY RowsTold, TasksTold, KeysTold DEF Told, Ids

LEMMA ToldInit == Init => Told
BY NoneAssumption DEF Init, Told, RowTold, TaskTold, KeyTold, Exists, NoTask, FreeKey

promised == <<[k \in Keys |-> Stands(k)], [k \in Keys |-> OrdersOf(k)]>>

\* A step that books nothing leaves the orders of every key.
LEMMA OrdersStay ==
  ASSUME IInv, Told, [Next]_vars, UNCHANGED booked
  PROVE  \A k \in Keys : OrdersOf(k)' = OrdersOf(k)
<1>1. \A r \in booked : r \in Requests
  BY DEF IInv, TypeOK
<1> QED BY <1>1, TasksTold DEF OrdersOf

\* One key of those in progress moves on.
LEMMA KeyBecomes ==
  ASSUME IInv, Told, [Next]_vars, UNCHANGED booked, NEW k \in Keys, NEW v,
         key' = [key EXCEPT ![k] = v]
  PROVE  /\ \A j \in Keys \ {k} : Stands(j)' = Stands(j)
         /\ Promise!Becomes(k, Stands(k), Stands(k)')
<1>1. \A j \in Keys \ {k} : key'[j] = key[j]
  BY DEF IInv, TypeOK
<1>2. \A j \in Keys \ {k} : Stands(j)' = Stands(j)
  BY <1>1 DEF Stands
<1> QED BY <1>2, OrdersStay DEF Promise!Becomes

\* A key freed or completed by its own call.
LEMMA NotPortedPromise ==
  ASSUME IInv, Told, [Next]_vars, NEW r \in Requests, NotPorted(r)
  PROVE  Promise!Next
<1>1. /\ task[r].pc = "claimed" /\ task[r].key # None /\ Early(r) /\ Active(r)
      /\ UNCHANGED booked
  BY DEF NotPorted, IInv, Tasked, Early, Active, venue
<1>2. PICK k \in Keys : k = task[r].key
  BY <1>1 DEF IInv, TypeOK, Task
<1>3. key[k].state = "in_progress" /\ key' = [key EXCEPT ![k] = FreeKey]
  BY <1>1, <1>2 DEF IInv, Tasked, NotPorted
<1>4. Stands(k) = "held" /\ Stands(k)' = "free"
  BY <1>3 DEF Stands, FreeKey, IInv, TypeOK
<1>5. OrdersOf(k) = {}
  <2>1. Unplaced(r) /\ \A s \in CallsOf(k) : s # r => Dead(s)
    BY <1>1, <1>2, Fresh, OthersDead
  <2> QED BY <2>1 DEF OrdersOf, CallsOf, Dead, Unplaced, IInv, TypeOK
<1>6. Promise!GiveBack(k)
  BY <1>1, <1>3, <1>4, <1>5, KeyBecomes DEF Promise!GiveBack
<1> QED BY <1>6 DEF Promise!Next

LEMMA CompletePromise ==
  ASSUME IInv, Told, [Next]_vars, NEW r \in Requests, Complete(r), task[r].key # None
  PROVE  Promise!Next
<1>1. PICK k \in Keys, a \in Answers :
        /\ k = task[r].key /\ a = task[r].answer /\ key[k].state = "in_progress"
        /\ key' = [key EXCEPT ![k] = [state |-> "completed", answer |-> a]]
  BY CompletesKey
<1>2. task[r].pc = "answering" /\ Active(r) /\ UNCHANGED booked
  BY DEF Complete, Active, venue
<1>3. Stands(k) = "held" /\ Stands(k)' = a
  BY <1>1 DEF Stands, IInv, TypeOK
<1>4. Promise!Becomes(k, "held", a)
  BY <1>1, <1>2, <1>3, KeyBecomes
<1>5. \A s \in CallsOf(k) : s # r => Dead(s)
  BY <1>1, <1>2, OthersDead
<1>6. a = "nothing" => OrdersOf(k) = {}
  <2>1. a = "nothing" => Unplaced(r)
    BY <1>1, <1>2 DEF IInv, Tasked
  <2> QED BY <1>5, <2>1 DEF OrdersOf, CallsOf, Dead, Unplaced, IInv, TypeOK
<1>7. a = "placed" => OrdersOf(k) # {}
  <2>1. a = "placed" => r \in booked
    BY <1>1, <1>2 DEF IInv, Tasked
  <2> QED BY <1>1, <2>1 DEF OrdersOf
<1>8. Promise!Answer(k)
  BY <1>4, <1>6, <1>7 DEF Promise!Answer, Answers
<1> QED BY <1>8 DEF Promise!Next

LEMMA ClaimKeyPromise ==
  ASSUME IInv, Told, [Next]_vars, NEW r \in Requests, NEW k \in Keys, ClaimKey(r, k)
  PROVE  Promise!Next
<1>1. key[k] \in Key /\ key[k].state = "free" /\ UNCHANGED booked
  BY DEF ClaimKey, IInv, TypeOK, venue
<1>2. PICK v : v = [key[k] EXCEPT !.state = "in_progress"]
  OBVIOUS
<1>3. key' = [key EXCEPT ![k] = v] /\ v.state = "in_progress"
  BY <1>1, <1>2 DEF ClaimKey, Key
<1>4. Stands(k) = "free" /\ Stands(k)' = "held"
  BY <1>1, <1>3 DEF Stands, IInv, TypeOK
<1>5. Promise!Hold(k)
  BY <1>1, <1>3, <1>4, KeyBecomes DEF Promise!Hold
<1> QED BY <1>5 DEF Promise!Next

\* The venue takes an order only of a call whose key still waits, or said it may be placed:
\* a free key has no call left, and any other answer is of a call that is over.
LEMMA SendPromise ==
  ASSUME IInv, Told, [Next]_vars, Send
  PROVE  Promise!Next \/ UNCHANGED promised
<1> DEFINE e == engine.id
<1>1. e \in Ids /\ Exists(e) /\ order[e].state = "sending" /\ order[e].for \notin booked
  BY DEF Send, IInv, Hand
<1>2. PICK r \in Requests : r = order[e].for
  BY <1>1 DEF IInv, TypeOK, Order, Exists
<1>3. UNCHANGED <<key, task>> /\ (booked' = booked \/ booked' = booked \cup {r})
  BY <1>2 DEF Send, database
<1>4. \A k \in Keys : Stands(k)' = Stands(k)
  BY <1>3 DEF Stands
<1>5. ~Unplaced(r) /\ r \notin booked
  BY <1>1, <1>2, LiveOrOver DEF Unplaced, Live
<1>6. CASE booked' = booked
  BY <1>4, <1>6, OrdersStay DEF promised
<1>7. CASE booked' = booked \cup {r} /\ task[r].key \notin Keys
  <2>1. \A k \in Keys : OrdersOf(k)' = OrdersOf(k)
    BY <1>3, <1>7 DEF OrdersOf
  <2> QED BY <1>4, <2>1 DEF promised
<1>8. CASE booked' = booked \cup {r} /\ task[r].key \in Keys
  <2>1. PICK k \in Keys : k = task[r].key
    BY <1>8
  <2>2. r \in CallsOf(k) /\ ~Dead(r)
    BY <1>5, <2>1 DEF CallsOf, Dead
  <2>3. \A s \in CallsOf(k) : s # r => s \notin booked
    BY <2>2 DEF IInv, Keyed, Dead, Unplaced
  <2>4. OrdersOf(k) = {} /\ OrdersOf(k)' = {r}
    BY <1>3, <1>5, <1>8, <2>1, <2>3 DEF OrdersOf, CallsOf, IInv, TypeOK
  <2>5. \A j \in Keys \ {k} : OrdersOf(j)' = OrdersOf(j)
    BY <1>3, <1>8, <2>1 DEF OrdersOf
  <2>6. key[k].answer # "nothing" /\ key[k].answer # "placed" /\ key[k].state # "free"
    BY <1>5, <2>2, <2>3 DEF IInv, Keyed
  <2>7. Stands(k) \in {"held", "maybe"}
    <3>1. key[k] \in Key /\ KeyTold(k)
      BY DEF IInv, TypeOK, Told
    <3> QED BY <2>6, <3>1 DEF Stands, Key, KeyTold, Answers
  <2>8. Promise!Accept(k, r)
    BY <1>4, <2>4, <2>5, <2>7 DEF Promise!Accept
  <2> QED BY <2>8 DEF Promise!Next
<1> QED BY <1>3, <1>6, <1>7, <1>8

\* The sweep of a start frees the keys that provably placed nothing, and answers the rest.
LEMMA SweepPromise ==
  ASSUME IInv, Told, [Next]_vars, Start, Sweep
  PROVE  Promise!Next
<1> DEFINE freed == {k \in Keys : key[k].state = "in_progress" /\ PlacedNothing(k, Settled)}
<1>1. \A k \in Keys :
        key'[k] = IF k \in freed THEN FreeKey
                  ELSE IF key[k].state = "in_progress" THEN [state |-> "completed", answer |-> "maybe"]
                  ELSE key[k]
  BY DEF Sweep
<1>2. UNCHANGED booked /\ \A k \in Keys : OrdersOf(k)' = OrdersOf(k)
  BY OrdersStay DEF Start, venue
<1>3. \A k \in Keys : k \in freed => Stands(k) = "held" /\ Stands(k)' = "free"
  BY <1>1 DEF Stands, FreeKey
<1>4. \A k \in Keys : k \notin freed => Stands(k)' = IF Stands(k) = "held" THEN "maybe" ELSE Stands(k)
  BY <1>1 DEF Stands, IInv, TypeOK, Key, Answers
<1>5. ASSUME NEW k \in freed PROVE OrdersOf(k) = {}
  <2>1. k \in Keys /\ key'[k].state = "free"
    BY <1>1 DEF FreeKey
  <2>2. \A r \in CallsOf(k)' : Dead(r)'
    BY <2>1, NextInv DEF IInv, Keyed
  <2> QED BY <1>2, <2>1, <2>2, NextInv DEF OrdersOf, CallsOf, Dead, Unplaced, IInv, TypeOK
<1> HIDE DEF freed
<1>6. freed \in SUBSET {k \in Keys : Stands(k) = "held" /\ OrdersOf(k) = {}}
  BY <1>3, <1>5 DEF freed
<1>7. Promise!Restart
  BY <1>2, <1>3, <1>4, <1>6 DEF Promise!Restart
<1> QED BY <1>7 DEF Promise!Next

LEMMA StepPromise ==
  ASSUME IInv, Told, [Next]_vars
  PROVE  Promise!Next \/ UNCHANGED promised
<1>1. CASE Send
  BY <1>1, SendPromise
<1>2. CASE ~Send
  <2>1. UNCHANGED booked
    BY <1>2 DEF Next, Call, Pass, ClaimKey, Replay, Queue, RefuseCall, NotPorted, Withdraw, ReadAnswer, Forget,
       GiveUp, Complete, Strand, SweepOrders, Take, Refuse, Claim, NotSent, Answer, Replace, Fail, Start,
       Crash, vars, venue
  <2>2. CASE UNCHANGED key
    <3>1. \A k \in Keys : Stands(k)' = Stands(k)
      BY <2>2 DEF Stands
    <3> QED BY <2>1, <3>1, OrdersStay DEF promised
  <2> QED BY <2>2, KeyWrites, ClaimKeyPromise, NotPortedPromise, CompletePromise, SweepPromise
<1> QED BY <1>1, <1>2

\* The rows, tasks and sweeps keep the promise of an Idempotency-Key: one order of it at most,
\* none after it was given back or answered that nothing was placed, and a true, final answer.
THEOREM KeysPromise == Spec => ImplementsPromise
<1>1. Init => Promise!Init
  BY DEF Init, Promise!Init, Stands, OrdersOf, FreeKey
<1>2. IInv /\ Told /\ [Next]_vars => [Promise!Next]_promised
  BY StepPromise
<1> QED
  BY <1>1, <1>2, ToldInit, ToldStays, Invariance, PTL
  DEF Spec, ImplementsPromise, Promise!Spec, promised

-----------------------------------------------------------------------------
\* An answered key keeps its answer, a key with an order gets no other, and one answered
\* "nothing was placed" gets none: what follows from the promise.
Final ==
  \A k \in Keys :
    /\ Stands(k) \in {"placed", "nothing", "maybe"} => Stands(k)' = Stands(k)
    /\ OrdersOf(k) # {} \/ Stands(k) = "nothing" => OrdersOf(k)' = OrdersOf(k)

LEMMA PromiseFinal == ASSUME Promise!Next PROVE Final
<1> SUFFICES ASSUME NEW k \in Keys
             PROVE  /\ Stands(k) \in {"placed", "nothing", "maybe"} => Stands(k)' = Stands(k)
                    /\ OrdersOf(k) # {} \/ Stands(k) = "nothing" => OrdersOf(k)' = OrdersOf(k)
  BY DEF Final
<1> DEFINE stands == [x \in Keys |-> Stands(x)]
           orders == [x \in Keys |-> OrdersOf(x)]
<1>1. stands[k] = Stands(k) /\ orders[k] = OrdersOf(k) /\ stands'[k] = Stands(k)' /\ orders'[k] = OrdersOf(k)'
  OBVIOUS
<1>2. CASE Promise!Restart
  <2>1. PICK back : /\ back \subseteq {x \in Keys : stands[x] = "held" /\ orders[x] = {}}
                    /\ stands' = [x \in Keys |-> IF x \in back THEN "free"
                                    ELSE IF stands[x] = "held" THEN "maybe" ELSE stands[x]]
                    /\ orders' = orders
    BY <1>2 DEF Promise!Restart
  <2>2. stands[k] # "held" => stands'[k] = stands[k]
    BY <2>1
  <2> QED BY <1>1, <2>1, <2>2
<1>3. ASSUME NEW x \in Keys, NEW from \in {"free", "held"}, NEW to, Promise!Becomes(x, from, to)
      PROVE  (stands[k] \notin {"free", "held"} => stands'[k] = stands[k]) /\ orders'[k] = orders[k]
  BY <1>3 DEF Promise!Becomes
<1>4. ASSUME NEW x \in Keys, Promise!Hold(x) \/ Promise!GiveBack(x) \/ Promise!Answer(x)
      PROVE  (stands[k] \notin {"free", "held"} => stands'[k] = stands[k]) /\ orders'[k] = orders[k]
  <2>1. \E from \in {"free", "held"} : \E to : Promise!Becomes(x, from, to)
    BY <1>4 DEF Promise!Hold, Promise!GiveBack, Promise!Answer
  <2> QED BY <1>3, <2>1
<1>5. ASSUME NEW x \in Keys, NEW r \in Requests, Promise!Accept(x, r)
      PROVE  stands' = stands /\ (orders[k] # {} \/ stands[k] = "nothing" => orders'[k] = orders[k])
  BY <1>5 DEF Promise!Accept
<1> QED BY <1>1, <1>2, <1>4, <1>5 DEF Promise!Next

\* The venue accepts at most one order for a key, and a client that asks again is told the
\* same for ever, over every restart of the process.
THEOREM AnswersFinal == Spec => [][Final]_vars
<1>1. ASSUME UNCHANGED promised PROVE Final
  <2> SUFFICES ASSUME NEW k \in Keys PROVE Stands(k)' = Stands(k) /\ OrdersOf(k)' = OrdersOf(k)
    BY DEF Final
  <2>1. [x \in Keys |-> Stands(x)]'[k] = [x \in Keys |-> Stands(x)][k]
    BY <1>1 DEF promised
  <2>2. [x \in Keys |-> OrdersOf(x)]'[k] = [x \in Keys |-> OrdersOf(x)][k]
    BY <1>1 DEF promised
  <2> QED BY <2>1, <2>2
<1>2. IInv /\ Told /\ [Next]_vars => [Final]_vars
  BY <1>1, PromiseFinal, StepPromise
<1> QED BY <1>2, ToldInit, ToldStays, Invariance, PTL DEF Spec
=============================================================================
