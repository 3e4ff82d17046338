-------------------------- MODULE Placement_proofs --------------------------
(***************************************************************************)
(* Proofs about Placement, for every set of orders and keys, every clock   *)
(* and every choice of the venue's times that meets the assumptions.       *)
(***************************************************************************)
EXTENDS Placement, TLAPS

\* Where the engine holds an intent in memory.
Engaged == {"begun", "dispatched", "sending", "awaiting", "answered",
            "asking", "found", "absent"}

\* The engine's memory agrees with the database while it works on an intent.
Locals ==
  /\ pc \in Engaged <=> held # None
  /\ held # None =>
       /\ intent # None /\ handle # None
       /\ intent.id = held.id /\ intent.at = held.at /\ intent.key = held.key
       /\ handle.key = held.key
  /\ pc = "begun" => ~intent.dispatched
  /\ reply # "none" => pc = "answered"
  /\ asked <= now /\ since <= now

\* A new bot and a stopped engine are well typed.
LEMMA InitTyped == Init => TypeOK /\ Locals
  BY KeysAssumption, NoneAssumption
     DEF Init, TypeOK, Locals, Engaged, Status, Interruptible, Credential

\* No step, of any actor, leaves a malformed state or an engine whose memory and
\* database disagree on the intent it works on: nobody else removes that intent.
LEMMA NextTyped == TypeOK /\ Locals /\ [Next]_vars => TypeOK' /\ Locals'
<1> SUFFICES ASSUME TypeOK, Locals, [Next]_vars PROVE TypeOK' /\ Locals'
  OBVIOUS
<1> USE KeysAssumption, NoneAssumption, TimesAssumption
<1> USE DEF TypeOK, Locals, Engaged, Status, Working, Interruptible, Credential,
            Run, CurrentRun, Intent, OwnsRun, StillPending, CredentialIsCurrent, Unstick,
            Idle, Leave, Request, database, engine, venue
<1>1. CASE Web
  BY <1>1 DEF Web, Start, Stop, Delete, Archive, Unarchive, EditKey
<1>2. CASE LoadBot
  BY <1>2 DEF LoadBot
<1>3. CASE Claim
  BY <1>3 DEF Claim
<1>4. CASE Execute
  BY <1>4 DEF Execute
<1>5. ASSUME NEW o \in Orders, Begin(o) PROVE TypeOK' /\ Locals'
  <2> DEFINE i == [id |-> o, at |-> now, run |-> run, key |-> handle.key, dispatched |-> FALSE]
  <2>1. run \in Run /\ handle \in Credential
    BY <1>5 DEF Begin
  <2>2. i \in Intent /\ i # None /\ handle # None
    <3>1. i \in Intent
      BY <2>1
    <3>2. Intent \cap {None} = {} /\ Credential \cap {None} = {}
      BY NoneAssumption
    <3> QED BY <2>1, <3>1, <3>2
  <2>3. intent' = i /\ held' = i
    BY <1>5 DEF Begin
  <2>4. i.id = i.id /\ handle.key = i.key /\ ~i.dispatched
    OBVIOUS
  <2> HIDE DEF i
  <2>5. TypeOK'
    BY <1>5, <2>2, <2>3 DEF Begin
  <2>6. Locals'
    BY <1>5, <2>2, <2>3, <2>4 DEF Begin
  <2> QED BY <2>5, <2>6
<1>6. CASE Dispatch
  BY <1>6 DEF Dispatch
<1>7. CASE Fence
  BY <1>7 DEF Fence
<1>8. CASE NotSent \/ CheckWindow \/ Answer
  BY <1>8 DEF NotSent, CheckWindow, Answer
<1>9. CASE Transmit
  BY <1>9 DEF Transmit
<1>10. CASE Record
  BY <1>10 DEF Record, RecordAccepted, RecordRejected, RecordNotSent,
               RecordBelowMinimum, KeepAmbiguous
<1>11. CASE Finish
  BY <1>11 DEF Finish, FinishLegs, EndTick, Unclaim, FailTick, RetryCredentials, Abandon
<1>12. CASE Ask
  BY <1>12 DEF Ask
<1>13. CASE LookupAnswers \/ ConcludeFound \/ ConcludeAbsent
  BY <1>13 DEF LookupAnswers, ConcludeFound, ConcludeAbsent
<1>14. CASE OperatorResolves
  BY <1>14 DEF OperatorResolves
<1>15. CASE Restart \/ Crash
  BY <1>15 DEF Restart, Crash, Die
<1>16. CASE DieMidWrite
  BY <1>16 DEF DieMidWrite, Die
<1>17. ASSUME NEW w \in wire, Accept(w) \/ Refuse(w) PROVE TypeOK' /\ Locals'
  BY <1>17 DEF Accept, Refuse, Booked
<1>18. CASE Tick
  BY <1>18 DEF Tick
<1>19. CASE UNCHANGED vars
  BY <1>19 DEF vars
<1> QED
  BY <1>1, <1>2, <1>3, <1>4, <1>5, <1>6, <1>7, <1>8, <1>9, <1>10, <1>11, <1>12, <1>13,
     <1>14, <1>15, <1>16, <1>17, <1>18, <1>19
     DEF Next, Place, Recover, Venue

\* Every variable keeps its type: no stop, crash, lost reply or recovery leaves the
\* bot's row, the engine's memory or the wire malformed.
THEOREM TypeCorrect == Spec => []TypeOK
<1>1. Init => TypeOK /\ Locals
  BY InitTyped
<1>2. TypeOK /\ Locals /\ [Next]_vars => (TypeOK /\ Locals)'
  BY NextTyped
<1>3. Spec => [](TypeOK /\ Locals)
  BY <1>1, <1>2, PTL DEF Spec
<1> QED
  BY <1>3, PTL

-----------------------------------------------------------------------------
(* The wire and the books.  `Sends` counts requests; `Books` ties what the  *)
(* venue has, or may still accept, to the intent and the transaction rows.  *)

\* At most one request per order ever leaves, and only for an order that was begun.
Sends ==
  /\ \A o \in Orders : sent[o] <= 1
  /\ \A o \in Orders : sent[o] = 0 => verdict[o] = "none" /\ \A w \in wire : w.id # o
  /\ \A w, x \in wire : w.id = x.id => w = x
  /\ \A w \in wire : verdict[w.id] = "none" /\ w.left <= now
  /\ pc \in {"begun", "dispatched", "sending"} => sent[held.id] = 0
  /\ \A o \in Orders \ used : sent[o] = 0
  /\ held # None => held.id \in used
  /\ intent # None => intent.id \in used

\* At the start no order has been drawn and nothing was sent.
LEMMA InitSends == Init => Sends
  BY DEF Init, Sends

\* A request only leaves from the place that follows the one dispatch of a fresh order.
LEMMA NextSends == TypeOK /\ Locals /\ Sends /\ [Next]_vars => Sends'
<1> SUFFICES ASSUME TypeOK, Locals, Sends, [Next]_vars PROVE Sends'
  OBVIOUS
<1> USE KeysAssumption, NoneAssumption
<1> USE DEF TypeOK, Locals, Sends, Engaged, Credential, Intent, StillPending, Idle,
            Unstick, Leave, Request, database, engine, venue
<1>1. CASE Web
  BY <1>1 DEF Web, Start, Stop, Delete, Archive, Unarchive, EditKey
<1>2. CASE LoadBot \/ Claim \/ Execute
  BY <1>2 DEF LoadBot, Claim, Execute
<1>3. ASSUME NEW o \in Orders, Begin(o) PROVE Sends'
  <2>1. held'.id = o /\ intent'.id = o /\ o \notin used /\ used' = used \cup {o} /\ pc' = "begun"
    BY <1>3 DEF Begin
  <2>2. UNCHANGED <<now, wire, verdict, sent>>
    BY <1>3 DEF Begin
  <2> QED
    BY <2>1, <2>2
<1>4. CASE Dispatch \/ Fence \/ NotSent \/ CheckWindow \/ Answer
  BY <1>4 DEF Dispatch, Fence, NotSent, CheckWindow, Answer
<1>5. ASSUME pc = "sending", Leave, now' = now, used' = used,
             pc' \in {"awaiting", "down"},
             intent' = intent, held' \in {held, None}
      PROVE  Sends'
  <2> DEFINE r == [id |-> held.id, key |-> handle.key, left |-> now,
                   deadline |-> held.at + SendWindow]
  <2>1. held \in Intent /\ held.id \in Orders
    BY <1>5
  <2>2. r.id = held.id /\ r.left = now
    OBVIOUS
  <2>3. wire' = wire \cup {r} /\ verdict' = verdict
    BY <1>5
  <2>4. sent' = [sent EXCEPT ![held.id] = @ + 1]
    BY <1>5
  <2>5. sent[held.id] = 0 /\ verdict[held.id] = "none" /\ \A w \in wire : w.id # held.id
    BY <1>5, <2>1
  <2>6. held.id \in used
    BY <1>5
  <2> HIDE DEF r, Leave
  <2> QED
    BY <1>5, <2>1, <2>2, <2>3, <2>4, <2>5, <2>6
<1>6. CASE Record
  BY <1>6 DEF Record, RecordAccepted, RecordRejected, RecordNotSent,
              RecordBelowMinimum, KeepAmbiguous
<1>7. CASE Finish
  BY <1>7 DEF Finish, FinishLegs, EndTick, Unclaim, FailTick, RetryCredentials, Abandon
<1>8. CASE Recover
  BY <1>8 DEF Recover, Ask, LookupAnswers, ConcludeFound, ConcludeAbsent
<1>9. CASE OperatorResolves \/ Restart \/ Crash
  BY <1>9 DEF OperatorResolves, Restart, Crash, Die
<1>10. CASE Transmit \/ DieMidWrite
  BY <1>5, <1>10 DEF Transmit, DieMidWrite, Die
<1>11. ASSUME NEW w \in wire, Accept(w) \/ Refuse(w) PROVE Sends'
  BY <1>11 DEF Accept, Refuse, Booked
<1>12. CASE Tick
  BY <1>12 DEF Tick
<1>13. CASE UNCHANGED vars
  BY <1>13 DEF vars
<1> QED
  BY <1>1, <1>2, <1>3, <1>4, <1>5, <1>6, <1>7, <1>8, <1>9, <1>10, <1>11, <1>12, <1>13
     DEF Next, Place, Venue

\* A request on its way is the intent's, or the venue will not accept it any more.
Wires ==
  /\ \A w \in wire : Deliverable(w) => intent # None /\ intent.id = w.id
  /\ \A w \in wire : intent # None /\ w.id = intent.id =>
       /\ w.key = intent.key /\ w.deadline = intent.at + SendWindow
       /\ w.left <= intent.at + Reach \/ pc = "down" \/ w.left <= since

\* An order the venue has is the intent's, in the account it names, or has its row.
Rows ==
  /\ intent # None => intent.id \in used \ failed /\ rows[intent.id] = 0
  /\ \A o \in Orders : rows[o] <= 1 /\ (rows[o] = 1 => Booked(o))
  /\ \A o \in Orders \ used : rows[o] = 0 /\ o \notin failed
  /\ \A o \in failed : rows[o] = 0
  /\ \A o \in Orders : Booked(o) =>
       rows[o] = 1 \/ (intent # None /\ intent.id = o /\ verdict[o] = intent.key)

\* What the engine has read of an order is so.
Reads ==
  /\ reply = "accepted" \/ pc = "found" => Booked(held.id)
  /\ reply \in {"rejected", "safe", "below_minimum", "not_sent"} =>
       ~Booked(held.id) /\ \A w \in wire : w.id # held.id
  /\ pc = "absent" /\ asked >= AbsentFrom(held) =>
       ~Booked(held.id) /\ \A w \in wire : w.id = held.id => ~Deliverable(w)

Books == Wires /\ Rows /\ Reads

\* At the start there is no intent, no row and no order at the venue.
LEMMA InitBooks == Init => Books
  BY KeysAssumption DEF Init, Books, Wires, Rows, Reads, Booked

\* Time only takes away what the venue may still accept.
LEMMA Expires ==
  ASSUME TypeOK, now' \in Nat, now <= now', NEW w \in Request, Deliverable(w)'
  PROVE  Deliverable(w)
  BY TimesAssumption DEF Deliverable, Request, TypeOK

\* A lookup old enough to prove absence started after the last instant at which the
\* venue could accept the request of the intent.
LEMMA TooLate ==
  ASSUME TypeOK, Locals, Wires, pc # "down", intent # None, held # None,
         asked >= AbsentFrom(held), NEW w \in wire, w.id = intent.id
  PROVE  ~Deliverable(w)
<1> USE TimesAssumption DEF TypeOK
<1>1. /\ w.left \in Nat /\ w.deadline \in Nat /\ held.at \in Nat
      /\ held.at = intent.at
  BY DEF Locals, Request, Intent
<1>2. w.deadline = held.at + SendWindow /\ (w.left <= held.at + Reach \/ w.left <= since)
  BY <1>1 DEF Wires
<1>3. asked <= now
  BY DEF Locals
<1>4. CASE DeadlineSent
  BY <1>1, <1>2, <1>3, <1>4 DEF Deliverable, AbsentFrom
<1>5. CASE ~DeadlineSent
  <2>1. asked >= held.at + Margin /\ asked >= since + Margin
    BY <1>1, <1>5 DEF AbsentFrom, Latest
  <2> QED
    BY <1>1, <1>2, <1>3, <2>1 DEF Deliverable
<1> QED
  BY <1>4, <1>5, FlagsAssumption

\* No step loses the tie between the venue's books and the bot's, as long as no process
\* frozen in the middle of a write is resumed alive.
LEMMA NextBooks ==
  ASSUME Frozen # "resumed"
  PROVE  TypeOK /\ TypeOK' /\ Locals /\ Sends /\ Books /\ [Next]_vars => Books'
<1> SUFFICES ASSUME TypeOK, TypeOK', Locals, Sends, Books, [Next]_vars PROVE Books'
  OBVIOUS
<1> USE KeysAssumption, NoneAssumption
<1> USE DEF Books, Wires, Rows, Reads
<1> USE DEF TypeOK
<1>1. CASE Web
  BY <1>1 DEF Web, Start, Stop, Delete, Archive, Unarchive, EditKey, engine, venue,
     Deliverable, Booked, AbsentFrom
<1>2. CASE LoadBot \/ Claim \/ Execute
  BY <1>2 DEF LoadBot, Claim, Execute, venue, Deliverable, Booked, AbsentFrom, Unstick, Locals
<1>3. ASSUME NEW o \in Orders, Begin(o) PROVE Books'
  BY <1>3 DEF Begin, venue, Deliverable, Booked, AbsentFrom, Locals, Sends, Engaged
<1>4. CASE Dispatch \/ CheckWindow
  <2>1. /\ intent # None /\ intent' # None /\ intent'.id = intent.id
        /\ intent'.at = intent.at /\ intent'.key = intent.key
    <3>1. CASE Dispatch
      <4>1. /\ intent # None /\ intent \in Intent
            /\ intent' = [intent EXCEPT !.dispatched = TRUE]
        BY <3>1 DEF Dispatch, StillPending
      <4>2. /\ intent' \in Intent /\ intent'.id = intent.id
            /\ intent'.at = intent.at /\ intent'.key = intent.key
        BY ONLY <4>1 DEF Intent
      <4>3. intent' # None
        BY ONLY <4>2, NoneAssumption
      <4> QED
        BY ONLY <4>1, <4>2, <4>3
    <3>2. CASE CheckWindow
      BY <1>4, <3>2 DEF CheckWindow, Locals, Engaged, database
    <3> QED
      BY <1>4, <3>1, <3>2
  <2>2. /\ pc # "down" /\ pc' \in {"dispatched", "sending"} /\ reply' = "none"
        /\ UNCHANGED <<now, used, rows, failed, since, held, wire, verdict, sent>>
    BY <1>4 DEF Dispatch, CheckWindow, venue, database, Locals
  <2> QED
    BY <2>1, <2>2 DEF Deliverable, Booked
<1>5. CASE Fence
  BY <1>5 DEF Fence, Idle, venue, Deliverable, Booked, Locals, Engaged, Sends, StillPending, Intent, AbsentFrom
<1>6. CASE NotSent \/ Answer
  BY <1>6 DEF NotSent, Answer, database, venue, Deliverable, Booked, Sends, Locals, Engaged, Intent, AbsentFrom
<1>7. CASE Transmit \/ DieMidWrite
  BY <1>7 DEF Transmit, DieMidWrite, Die, Leave, database, Deliverable, Booked, Sends, Locals, Engaged, Intent, Request, AbsentFrom
<1>8. CASE Record
  <2> USE DEF StillPending, venue, Deliverable, Booked, Locals, Engaged, Sends
  <2>1. CASE RecordAccepted
    BY <1>8, <2>1 DEF RecordAccepted
  <2>2. CASE RecordRejected
    BY <1>8, <2>2 DEF RecordRejected
  <2>3. CASE RecordNotSent \/ RecordBelowMinimum
    BY <1>8, <2>3 DEF RecordNotSent, RecordBelowMinimum
  <2>4. CASE KeepAmbiguous
    BY <1>8, <2>4 DEF KeepAmbiguous, database
  <2> QED
    BY <1>8, <2>1, <2>2, <2>3, <2>4 DEF Record
<1>9. CASE Finish
  <2>1. /\ pc # "down" /\ pc' \in {"tail", "idle"} /\ reply' = "none"
        /\ UNCHANGED <<now, intent, used, rows, failed, since, wire, verdict, sent>>
    BY <1>9 DEF Finish, FinishLegs, EndTick, Unclaim, FailTick, RetryCredentials, Abandon,
                Idle, Interruptible, database, venue, Locals
  <2> QED
    BY <2>1 DEF Deliverable, Booked
<1>10. CASE Ask
  BY <1>10 DEF Ask, Unstick, venue, Deliverable, Booked, Locals, Engaged, AbsentFrom
<1>11. CASE LookupAnswers
  <2>1. /\ pc = "asking" /\ reply' = "none" /\ held # None /\ held.id \in Orders
        /\ intent # None /\ held.id = intent.id /\ handle.key = intent.key
        /\ handle.key \in Keys
    BY <1>11 DEF LookupAnswers, Locals, Engaged, Intent, Credential
  <2>2. /\ pc' = IF verdict[held.id] = handle.key THEN "found" ELSE "absent"
        /\ UNCHANGED <<now, intent, used, rows, failed, held, asked, since, wire, verdict, sent>>
    BY <1>11 DEF LookupAnswers, database, venue
  <2>3. Wires' /\ Rows'
    BY <2>1, <2>2 DEF Deliverable, Booked
  <2>4. ASSUME verdict[held.id] # handle.key PROVE ~Booked(held.id)
    BY <2>1, <2>4
  <2>5. ASSUME asked >= AbsentFrom(held) 
        PROVE  \A w \in wire : w.id = held.id => ~Deliverable(w)
    BY <2>1, <2>5, TooLate
  <2>6. (\A w \in wire : Deliverable(w)' <=> Deliverable(w)) /\ AbsentFrom(held)' = AbsentFrom(held)
    BY <2>2 DEF Deliverable, AbsentFrom, Latest
  <2>7. Reads'
    <3>1. (pc' = "found" => Booked(held.id)) /\ pc' \in {"found", "absent"}
      BY <2>1, <2>2 DEF Booked
    <3>2. pc' = "absent" => ~Booked(held.id)
      BY <2>2, <2>4
    <3> QED
      BY <2>1, <2>2, <2>5, <2>6, <3>1, <3>2 DEF Booked
  <2> QED
    BY <2>3, <2>7
<1>12. CASE ConcludeFound
  <2> USE DEF StillPending, Idle, venue, Deliverable, Booked, Locals, Engaged, Sends
  <2>1. /\ intent # None /\ held # None /\ intent.id = held.id /\ pc = "found"
        /\ rows' = [rows EXCEPT ![held.id] = @ + 1] /\ intent' = None
        /\ pc' = "idle" /\ reply' = "none" /\ held' = None
        /\ UNCHANGED <<now, used, failed, wire, verdict, sent>>
    BY <1>12 DEF ConcludeFound
  <2>2. Booked(held.id) /\ rows[held.id] = 0 /\ held.id \in Orders
        /\ \A w \in wire : w.id # held.id
    BY <2>1 DEF Intent
  <2>3. Wires'
    BY <2>1, <2>2
  <2>4. Rows'
    BY <2>1, <2>2
  <2>5. Reads'
    BY <2>1
  <2> QED
    BY <2>3, <2>4, <2>5
<1>13. CASE ConcludeAbsent
  BY <1>13 DEF ConcludeAbsent, StillPending, Idle, venue, Deliverable, Booked, Locals, Engaged, AbsentFrom
<1>14. CASE OperatorResolves
  <2> USE DEF engine, venue, Deliverable, Booked, Locals, Engaged, Sends
  <2>1. /\ intent # None /\ intent' = None /\ pc = "down" /\ pc' = "down"
        /\ reply' = "none" /\ UNCHANGED <<now, used, failed, wire, verdict, sent>>
    BY <1>14 DEF OperatorResolves
  <2>2. intent.id \in Orders
    BY <2>1 DEF Intent
  <2>3. CASE Booked(intent.id) /\ rows' = [rows EXCEPT ![intent.id] = @ + 1]
    <3>1. \A w \in wire : w.id # intent.id
      BY <2>2, <2>3
    <3>2. Wires'
      BY <2>1, <3>1
    <3>3. Rows'
      BY <2>1, <2>2, <2>3
    <3> QED
      BY <2>1, <3>2, <3>3
  <2>4. CASE ~Booked(intent.id) /\ ~Reachable(intent.id) /\ rows' = rows
    <3>1. Wires'
      BY <2>1, <2>4 DEF Reachable
    <3>2. Rows'
      BY <2>1, <2>2, <2>4
    <3> QED
      BY <2>1, <3>1, <3>2
  <2> QED
    BY <1>14, <2>3, <2>4 DEF OperatorResolves
<1>15. CASE Restart \/ Crash
  BY <1>15 DEF Restart, Crash, Die, database, venue, Deliverable, Booked, Sends, Locals, AbsentFrom
<1>16. ASSUME NEW w \in wire, Accept(w) \/ Refuse(w) PROVE Books'
  <2>1. /\ w.id \in Orders /\ w.key \in Keys /\ verdict[w.id] = "none" /\ wire' = wire \ {w}
        /\ \A x \in wire' : x \in wire /\ x.id # w.id
        /\ UNCHANGED <<now, intent, used, rows, failed, pc, reply, held, asked, since>>
    BY <1>16 DEF Accept, Refuse, database, engine, Sends, Request
  <2>2. \A x \in wire : Deliverable(x)' <=> Deliverable(x)
    BY <2>1 DEF Deliverable
  <2>3. Wires'
    BY <2>1, <2>2
  <2>4. AbsentFrom(held)' = AbsentFrom(held)
    BY <2>1 DEF AbsentFrom, Latest
  <2>5. CASE Accept(w)
    <3>1. verdict' = [verdict EXCEPT ![w.id] = w.key] /\ Deliverable(w)
      BY <2>5 DEF Accept
    <3>2. intent # None /\ intent.id = w.id /\ intent.key = w.key
      BY <3>1
    <3>3. Rows'
      BY <2>1, <3>1, <3>2 DEF Booked
    <3>4. Reads'
      <4>1. CASE held = None
        BY <4>1, <2>1 DEF Locals, Engaged
      <4>2. CASE held # None
        <5>1. held.id = w.id
          BY <4>2, <3>2 DEF Locals
        <5> QED
          BY <5>1, <2>1, <2>4, <3>1 DEF Booked
      <4> QED
        BY <4>1, <4>2
    <3> QED
      BY <2>3, <3>3, <3>4
  <2>6. CASE Refuse(w)
    <3>1. verdict' = [verdict EXCEPT ![w.id] = "refused"]
      BY <2>1, <2>6 DEF Refuse, Booked
    <3>2. \A o \in Orders : Booked(o)' <=> Booked(o)
      BY <2>1, <3>1 DEF Booked
    <3>3. \A o \in Orders : Booked(o) => o # w.id
      BY <2>1 DEF Booked
    <3>4. Rows'
      BY <2>1, <3>1, <3>2, <3>3 DEF Booked
    <3>5. Reads'
      <4>1. CASE held = None
        BY <4>1, <2>1 DEF Locals, Engaged
      <4>2. CASE held # None
        <5>1. held.id \in Orders
          BY <4>2 DEF Intent
        <5> QED
          BY <5>1, <2>1, <2>2, <2>4, <3>2
      <4> QED
        BY <4>1, <4>2
    <3> QED
      BY <2>3, <3>4, <3>5
  <2> QED
    BY <1>16, <2>5, <2>6
<1>17. CASE Tick
  <2>1. now' \in Nat /\ now <= now' /\ UNCHANGED <<database, engine, venue>>
    BY <1>17 DEF Tick
  <2>2. \A w \in wire : Deliverable(w)' => Deliverable(w)
    BY <2>1, Expires
  <2> QED
    BY <2>1, <2>2 DEF database, engine, venue, Booked, AbsentFrom, Latest
<1>18. CASE UNCHANGED vars
  BY <1>18 DEF vars, database, engine, venue, Deliverable, Booked, AbsentFrom
<1> QED
  BY <1>1, <1>2, <1>3, <1>4, <1>5, <1>6, <1>7, <1>8, <1>9, <1>10, <1>11, <1>12, <1>13,
     <1>14, <1>15, <1>16, <1>17, <1>18
     DEF Next, Place, Recover, Venue

-----------------------------------------------------------------------------
(* The theorems.                                                            *)

\* The inductive invariant of the protocol.
IInv == TypeOK /\ Locals /\ Sends /\ Books

\* The invariant holds in every behaviour without a frozen process that resumes.
LEMMA Invariance == ASSUME Frozen # "resumed" PROVE Spec => []IInv
<1>1. Init => IInv
  BY InitTyped, InitSends, InitBooks DEF IInv
<1>2. IInv /\ [Next]_vars => IInv'
  BY NextTyped, NextSends, NextBooks DEF IInv
<1> QED
  BY <1>1, <1>2, PTL DEF Spec

\* An order request leaves at most once for a client order id, whatever is stopped,
\* killed, edited or lost, and even from a process frozen mid-write and resumed.
THEOREM SendsOnce == Spec => []SentAtMostOnce
<1>1. Init => TypeOK /\ Locals /\ Sends
  BY InitTyped, InitSends
<1>2. TypeOK /\ Locals /\ Sends /\ [Next]_vars => (TypeOK /\ Locals /\ Sends)'
  BY NextTyped, NextSends
<1>3. Sends => SentAtMostOnce
  BY DEF Sends, SentAtMostOnce
<1> QED
  BY <1>1, <1>2, <1>3, PTL DEF Spec

\* An order the venue has, or may still accept, is the unresolved intent or has its row:
\* recovery's "not placed" is never concluded of it.
THEOREM KeepsOrders == ASSUME Frozen # "resumed" PROVE Spec => []NoOrderLost
<1>1. IInv => NoOrderLost
  <2> SUFFICES ASSUME IInv, NEW o \in Orders, Booked(o) \/ Reachable(o)
               PROVE  (intent # None /\ intent.id = o) \/ rows[o] > 0
    BY DEF NoOrderLost
  <2> QED
    BY DEF IInv, Books, Wires, Rows, Reachable
<1> QED
  BY <1>1, Invariance, PTL

\* A transaction row is an accepted order, written once; a failed row never is one.
THEOREM RecordsTruth == ASSUME Frozen # "resumed" PROVE Spec => []RecordedOnceAndTrue
<1>1. IInv => RecordedOnceAndTrue
  <2> SUFFICES ASSUME IInv, NEW o \in Orders
               PROVE  /\ rows[o] <= 1 /\ (rows[o] = 1 => Booked(o))
                      /\ o \in failed => ~Booked(o) /\ ~Reachable(o)
    BY DEF RecordedOnceAndTrue
  <2>1. o \in failed => rows[o] = 0 /\ ~(intent # None /\ intent.id = o)
    BY DEF IInv, Books, Rows
  <2> QED
    BY <2>1 DEF IInv, Books, Wires, Rows, Reachable
<1> QED
  BY <1>1, Invariance, PTL

\* Only the engine's transport adds a request, and only of the intent it holds.
LEMMA SendsTheIntent ==
  ASSUME TypeOK, Locals, [Next]_vars, NEW o \in Orders, sent'[o] # sent[o]
  PROVE  intent # None /\ intent.id = o
<1>1. CASE Transmit \/ DieMidWrite
  <2>1. pc = "sending" /\ Leave
    BY <1>1 DEF Transmit, DieMidWrite
  <2>2. held # None /\ intent # None /\ held.id = intent.id
    BY <2>1 DEF Locals, Engaged
  <2> QED
    BY <2>1, <2>2 DEF Leave, TypeOK
<1>2. CASE ~(Transmit \/ DieMidWrite)
  <2>1. sent' = sent
    BY <1>2 DEF Next, Web, Start, Stop, Delete, Archive, Unarchive, EditKey, Place, LoadBot, Claim,
      Execute, Begin, Dispatch, Fence, NotSent, CheckWindow, Answer, Record, RecordAccepted,
      RecordRejected, RecordNotSent, RecordBelowMinimum, KeepAmbiguous, Finish, FinishLegs,
      EndTick, Unclaim, FailTick, RetryCredentials, Abandon, Recover, Ask, LookupAnswers,
      ConcludeFound, ConcludeAbsent, OperatorResolves, Restart, Crash, Die, Venue, Accept,
      Refuse, Tick, vars, venue
  <2> QED
    BY <2>1
<1> QED
  BY <1>1, <1>2

\* While an order is unaccounted for the bot sends no other one.
THEOREM OneAtATime == ASSUME Frozen # "resumed" PROVE Spec => OneUnresolvedOrder
<1> DEFINE Alone == \A o, p \in Orders : o # p /\ sent'[o] # sent[o] =>
                      ~(Reachable(p) \/ (Booked(p) /\ rows[p] = 0))
<1>1. IInv /\ [Next]_vars => [Alone]_vars
  <2> SUFFICES ASSUME IInv, [Next]_vars, NEW o \in Orders, NEW p \in Orders,
                      o # p, sent'[o] # sent[o]
               PROVE  ~Reachable(p) /\ ~(Booked(p) /\ rows[p] = 0)
    OBVIOUS
  <2>1. intent # None /\ intent.id = o
    BY SendsTheIntent DEF IInv
  <2> QED
    BY <2>1 DEF IInv, Books, Wires, Rows, Reachable
<1> QED
  BY <1>1, Invariance, PTL DEF OneUnresolvedOrder, Spec

-----------------------------------------------------------------------------
(* Ownership: what a stop, a start or a newer tick fences stays fenced.     *)

\* The intent was written by a run that is not ahead of the bot's, the engine holds it
\* with the run it was written for, and nothing left before the dispatch.
Ownership ==
  /\ intent # None => intent.run.gen <= gen /\ intent.run.tick <= ticks
  /\ intent # None /\ ~intent.dispatched => sent[intent.id] = 0
  /\ held # None => held.run = intent.run
  /\ pc \in {"dispatched", "sending"} => intent.dispatched

\* Generations and ticks only grow, and a bot that does not work only works again under
\* a new generation.
LEMMA RunsForward ==
  ASSUME TypeOK, [Next]_vars
  PROVE  /\ gen <= gen' /\ ticks <= ticks'
         /\ status' \in Working => status \in Working \/ gen < gen'
<1> USE DEF TypeOK, Status, Working
<1>1. CASE Web
  BY <1>1 DEF Web, Start, Stop, Delete, Archive, Unarchive, EditKey
<1>2. CASE Place
  BY <1>2 DEF Place, LoadBot, Claim, Execute, Begin, Dispatch, Fence, NotSent, CheckWindow,
              Transmit, Answer, Unstick, OwnsRun, database
<1>3. CASE Record
  BY <1>3 DEF Record, RecordAccepted, RecordRejected, RecordNotSent, RecordBelowMinimum,
              KeepAmbiguous, database
<1>4. CASE Finish
  BY <1>4 DEF Finish, FinishLegs, EndTick, Unclaim, FailTick, RetryCredentials, Abandon,
              OwnsRun, database
<1>5. CASE Recover
  BY <1>5 DEF Recover, Ask, LookupAnswers, ConcludeFound, ConcludeAbsent, Unstick, database
<1>6. CASE OperatorResolves \/ Restart \/ Crash \/ DieMidWrite \/ Venue \/ Tick \/ UNCHANGED vars
  BY <1>6 DEF OperatorResolves, Restart, Crash, DieMidWrite, Die, Venue, Accept, Refuse, Tick,
              vars, database
<1> QED
  BY <1>1, <1>2, <1>3, <1>4, <1>5, <1>6 DEF Next

\* A step keeps the intent, dispatches it, removes it, or writes a fresh one.
LEMMA IntentSteps ==
  ASSUME TypeOK, Locals, [Next]_vars
  PROVE  \/ intent' = intent
         \/ intent' = None
         \/ Dispatch
         \/ \E o \in Orders : Begin(o)
<1>1. CASE Web \/ Tick \/ Restart \/ Crash \/ DieMidWrite \/ Venue \/ UNCHANGED vars
  BY <1>1 DEF Web, Start, Stop, Delete, Archive, Unarchive, EditKey, Tick, Restart, Crash,
              DieMidWrite, Die, Venue, Accept, Refuse, vars, database
<1>2. CASE Place
  BY <1>2 DEF Place, LoadBot, Claim, Execute, Fence, NotSent, CheckWindow, Transmit, Answer,
              database
<1>3. CASE Record \/ OperatorResolves
  BY <1>3 DEF Record, RecordAccepted, RecordRejected, RecordNotSent, RecordBelowMinimum,
              KeepAmbiguous, OperatorResolves, database
<1>4. CASE Finish \/ Recover
  BY <1>4 DEF Finish, FinishLegs, EndTick, Unclaim, FailTick, RetryCredentials, Abandon,
              Recover, Ask, LookupAnswers, ConcludeFound, ConcludeAbsent, database
<1> QED
  BY <1>1, <1>2, <1>3, <1>4 DEF Next

\* No step lets an intent's run run ahead of the bot, or a request leave undispatched.
LEMMA NextOwnership ==
  TypeOK /\ Locals /\ Sends /\ Ownership /\ [Next]_vars => Ownership'
<1> SUFFICES ASSUME TypeOK, Locals, Sends, Ownership, [Next]_vars PROVE Ownership'
  OBVIOUS
<1> USE NoneAssumption
<1>1. gen \in Nat /\ ticks \in Nat /\ gen' \in Nat /\ ticks' \in Nat
      /\ gen <= gen' /\ ticks <= ticks' /\ TypeOK'
  BY RunsForward, NextTyped DEF TypeOK
<1>2. intent # None => intent.run.gen \in Nat /\ intent.run.tick \in Nat /\ intent.id \in Orders
  BY DEF TypeOK, Intent, Run
<1>3. ASSUME NEW o \in Orders, Begin(o) PROVE Ownership'
  <2>1. /\ intent' = held' /\ intent'.id = o /\ intent'.run = run /\ ~intent'.dispatched
        /\ run.gen = gen /\ run.tick = ticks /\ UNCHANGED <<gen, ticks, sent>>
        /\ o \notin used /\ pc' = "begun"
    BY <1>3 DEF Begin, CurrentRun, venue
  <2> QED
    BY <2>1, <1>1 DEF Ownership, Sends
<1>4. CASE Dispatch
  <2>1. /\ intent # None /\ intent \in Intent /\ intent' = [intent EXCEPT !.dispatched = TRUE]
        /\ UNCHANGED <<gen, ticks, held, sent>>
    BY <1>4 DEF Dispatch, StillPending, TypeOK, venue
  <2>2. intent'.run = intent.run /\ intent'.dispatched
    BY <2>1 DEF Intent
  <2> QED
    BY <2>1, <2>2 DEF Ownership
<1>5. CASE Transmit \/ DieMidWrite
  <2>1. /\ intent' = intent /\ held' \in {held, None} /\ intent.dispatched
        /\ pc' \in {"awaiting", "down"}
    BY <1>5 DEF Transmit, DieMidWrite, Die, database, Ownership
  <2> QED
    BY <1>1, <1>2, <2>1 DEF Ownership
<1>6. CASE Ask
  <2>1. held' = intent /\ intent' = intent /\ pc' = "asking" /\ UNCHANGED <<gen, ticks, sent>>
    BY <1>6 DEF Ask, venue
  <2> QED
    BY <2>1 DEF Ownership
<1>7. ASSUME UNCHANGED sent, intent' \in {intent, None}, held' \in {held, None},
             intent' = None => held' = None /\ pc' \notin {"dispatched", "sending"},
             pc' \in {"dispatched", "sending"} => pc \in {"dispatched", "sending"}
      PROVE  Ownership'
  BY <1>1, <1>2, <1>7 DEF Ownership
<1>8. CASE Web \/ Tick \/ Venue \/ UNCHANGED vars
  <2>1. UNCHANGED <<sent, intent, held, pc>>
    BY <1>8 DEF Web, Start, Stop, Delete, Archive, Unarchive, EditKey, Tick, Venue, Accept,
                Refuse, vars, database, engine, venue
  <2> QED
    BY <1>1, <1>2, <2>1 DEF Ownership
<1>9. CASE LoadBot \/ Claim \/ Execute \/ Fence \/ NotSent \/ CheckWindow \/ Answer
  BY <1>7, <1>9 DEF LoadBot, Claim, Execute, Fence, NotSent, CheckWindow, Answer, Idle, venue,
                    database, Locals, Engaged
<1>10. CASE Record
  BY <1>7, <1>10 DEF Record, RecordAccepted, RecordRejected, RecordNotSent,
                     RecordBelowMinimum, KeepAmbiguous, venue, database
<1>11. CASE Finish
  <2>1. /\ UNCHANGED <<sent, intent>> /\ held' \in {held, None}
        /\ pc' \in {"tail", "idle"}
    BY <1>11 DEF Finish, FinishLegs, EndTick, Unclaim, FailTick, RetryCredentials, Abandon,
                 Idle, venue, database
  <2> QED
    BY <1>1, <1>2, <2>1 DEF Ownership
<1>12. CASE LookupAnswers \/ ConcludeFound \/ ConcludeAbsent
  BY <1>7, <1>12 DEF LookupAnswers, ConcludeFound, ConcludeAbsent, Idle, venue, database,
                     Locals, Engaged
<1>13. CASE OperatorResolves \/ Restart \/ Crash
  BY <1>1, <1>2, <1>13 DEF OperatorResolves, Restart, Crash, Die, engine, venue, database, Locals,
                     Engaged, Ownership
<1> QED
  BY <1>3, <1>4, <1>5, <1>6, <1>8, <1>9, <1>10, <1>11, <1>12, <1>13
     DEF Next, Place, Recover

\* A fenced intent sends nothing in any step and stays fenced until it is dropped.
LEMMA FencedStays ==
  ASSUME TypeOK, Locals, Sends, Ownership, [Next]_vars, NEW o \in Orders, Fenced(o)
  PROVE  sent'[o] = 0 /\ (Fenced(o)' \/ intent' = None)
<1> USE NoneAssumption
<1>1. /\ intent # None /\ intent.id = o /\ ~intent.dispatched /\ ~OwnsRun(intent.run)
      /\ intent.run \in Run
  BY DEF Fenced, TypeOK, Intent
<1>2. ~Dispatch
  BY <1>1 DEF Dispatch, StillPending, Ownership
<1>3. \A p \in Orders : ~Begin(p)
  BY <1>1 DEF Begin
<1>4. intent' = intent \/ intent' = None
  BY <1>2, <1>3, IntentSteps
<1>5. sent'[o] = 0
  <2>1. sent[o] = 0 /\ pc # "sending"
    BY <1>1 DEF Ownership
  <2>2. sent' = sent
    BY <2>1 DEF Next, Web, Start, Stop, Delete, Archive, Unarchive, EditKey, Place, LoadBot,
      Claim, Execute, Begin, Dispatch, Fence, NotSent, CheckWindow, Transmit, Answer, Record,
      RecordAccepted, RecordRejected, RecordNotSent, RecordBelowMinimum, KeepAmbiguous,
      Finish, FinishLegs, EndTick, Unclaim, FailTick, RetryCredentials, Abandon, Recover,
      Ask, LookupAnswers, ConcludeFound, ConcludeAbsent, OperatorResolves, Restart, Crash,
      DieMidWrite, Die, Venue, Accept, Refuse, Tick, vars, venue
  <2> QED
    BY <2>1, <2>2
<1>6. ASSUME intent' = intent PROVE Fenced(o)'
  <2>1. /\ gen <= gen' /\ ticks <= ticks' /\ gen' \in Nat /\ ticks' \in Nat
        /\ status' \in Working => status \in Working \/ gen < gen'
        /\ gen \in Nat /\ ticks \in Nat
    BY RunsForward, NextTyped DEF TypeOK
  <2>2. intent.run.gen <= gen /\ intent.run.tick <= ticks
        /\ intent.run.gen \in Nat /\ intent.run.tick \in Nat
        /\ intent.run = [gen |-> intent.run.gen, tick |-> intent.run.tick]
    BY <1>1 DEF Ownership, Run
  <2>3. \/ status \notin Working
        \/ intent.run.gen < gen \/ intent.run.tick < ticks
    BY <1>1, <2>1, <2>2 DEF OwnsRun, CurrentRun
  <2>4. \/ status' \notin Working
        \/ intent.run.gen < gen' \/ intent.run.tick < ticks'
    BY <2>1, <2>2, <2>3
  <2>5. ~OwnsRun(intent.run)'
    BY <1>6, <2>1, <2>2, <2>4 DEF OwnsRun, CurrentRun
  <2> QED
    BY <1>1, <1>6, <2>5 DEF Fenced
<1> QED
  BY <1>4, <1>5, <1>6

\* A stop, a delete or an archive committed before the dispatch keeps the order from the
\* venue for good, even when the bot was started again within the same instant.
THEOREM StopHolds == Spec => StoppedOrderNeverLeaves
<1> DEFINE Kept == TypeOK /\ Locals /\ Sends /\ Ownership
<1> DEFINE Barred == \A o \in Orders : Fenced(o) => sent'[o] = 0 /\ (Fenced(o)' \/ intent' = None)
<1>1. Init => Kept
  BY InitTyped, InitSends DEF Init, Ownership
<1>2. Kept /\ [Next]_vars => Kept'
  BY NextTyped, NextSends, NextOwnership
<1>3. Kept /\ [Next]_vars => [Barred]_vars
  BY FencedStays
<1> QED
  BY <1>1, <1>2, <1>3, PTL DEF StoppedOrderNeverLeaves, Spec

-----------------------------------------------------------------------------
(* The refinement: what each step does to the order ledger.                 *)

\* The intent resolved: the open order becomes recorded or void, the others stay.
LEMMA Settles ==
  ASSUME IInv, intent # None, intent' = None,
         UNCHANGED <<used, verdict>>,
         NEW o, o = intent.id,
         \/ Booked(o) /\ rows' = [rows EXCEPT ![o] = @ + 1]
         \/ ~Booked(o) /\ rows' = rows
  PROVE  Ledger!Record(o) \/ Ledger!Void(o)
<1>1. o \in Orders /\ o \in used /\ rows[o] = 0
  BY DEF IInv, TypeOK, Intent, Books, Rows
<1>2. Fate(o) = "open" /\ \A p \in Orders : p # o => Fate(p)' = Fate(p)
  BY <1>1 DEF Fate, IInv, TypeOK
<1>3. \A p \in Orders : Booked(p)' <=> Booked(p)
  BY DEF Booked
<1>4. CASE Booked(o) /\ rows' = [rows EXCEPT ![o] = @ + 1]
  <2>1. Fate(o)' = "recorded"
    BY <1>1, <1>4 DEF Fate, IInv, TypeOK
  <2> QED
    BY <1>1, <1>2, <1>3, <1>4, <2>1 DEF Ledger!Record
<1>5. CASE ~Booked(o) /\ rows' = rows
  <2>1. Fate(o)' = "void"
    BY <1>1, <1>5 DEF Fate
  <2> QED
    BY <1>1, <1>2, <1>3, <1>5, <2>1 DEF Ledger!Void
<1> QED
  BY <1>4, <1>5

\* A step that leaves the intent's identity, the rows and the venue's books alone.
Quiet == /\ UNCHANGED <<used, rows>> /\ (intent' = None <=> intent = None)
         /\ (intent # None => intent'.id = intent.id)
         /\ \A o \in Orders : Booked(o)' <=> Booked(o)

\* Such a step changes nothing in the ledger.
LEMMA QuietStutters ==
  ASSUME Quiet
  PROVE  UNCHANGED <<[o \in Orders |-> Fate(o)], {o \in Orders : Booked(o)}>>
<1>1. \A o \in Orders : Fate(o)' = Fate(o)
  BY DEF Quiet, Fate
<1> QED
  BY <1>1 DEF Quiet

\* Every step of the protocol is one step of the ledger, or none.
LEMMA StepRefines ==
  ASSUME IInv, [Next]_vars
  PROVE  \/ Ledger!Next
         \/ UNCHANGED <<[o \in Orders |-> Fate(o)], {o \in Orders : Booked(o)}>>
<1> USE KeysAssumption, NoneAssumption
<1>1. ASSUME NEW o \in Orders, Begin(o) PROVE Ledger!Open(o)
  <2>0. Locals'
    BY NextTyped DEF IInv
  <2>1. /\ intent = None /\ o \notin used /\ used' = used \cup {o}
        /\ intent'.id = o /\ intent' # None /\ UNCHANGED <<rows, verdict>>
    BY <1>1, <2>0 DEF Begin, venue, Locals, Engaged
  <2>2. rows[o] = 0
    BY <2>1 DEF IInv, Books, Rows
  <2>3. Fate(o) = "new" /\ Fate(o)' = "open"
    BY <2>1, <2>2 DEF Fate
  <2>4. \A p \in Orders : Fate(p) # "open" /\ (p # o => Fate(p)' = Fate(p))
    BY <2>1 DEF Fate
  <2>5. \A p \in Orders : Booked(p)' <=> Booked(p)
    BY <2>1 DEF Booked
  <2> QED
    BY <2>3, <2>4, <2>5 DEF Ledger!Open
<1>2. ASSUME NEW w \in wire, Accept(w) PROVE Ledger!VenueAccepts(w.id)
  <2>1. /\ w.id \in Orders /\ intent # None /\ intent.id = w.id /\ ~Booked(w.id)
        /\ w.key \in Keys
    BY <1>2 DEF Accept, IInv, TypeOK, Request, Books, Wires, Sends, Booked
  <2>2. UNCHANGED <<intent, rows, used>> /\ verdict' = [verdict EXCEPT ![w.id] = w.key]
    BY <1>2 DEF Accept, database
  <2>3. \A p \in Orders : Fate(p)' = Fate(p)
    BY <2>2 DEF Fate
  <2>4. Fate(w.id) = "open"
    BY <2>1 DEF Fate
  <2>5. \A p \in Orders : Booked(p)' <=> (Booked(p) \/ p = w.id)
    BY <2>1, <2>2 DEF Booked, IInv, TypeOK
  <2> QED
    BY <2>1, <2>3, <2>4, <2>5 DEF Ledger!VenueAccepts
<1>3. ASSUME NEW w \in wire, Refuse(w) PROVE Quiet
  BY <1>3 DEF Refuse, Quiet, Booked, database, IInv, TypeOK
<1>4. ASSUME RecordAccepted \/ RecordRejected \/ RecordNotSent \/ RecordBelowMinimum
             \/ ConcludeFound \/ ConcludeAbsent
      PROVE  Ledger!Record(intent.id) \/ Ledger!Void(intent.id)
  <2>1. /\ intent # None /\ held # None /\ intent.id = held.id /\ intent' = None
        /\ UNCHANGED <<used, verdict>>
    BY <1>4 DEF RecordAccepted, RecordRejected, RecordNotSent, RecordBelowMinimum,
                ConcludeFound, ConcludeAbsent, StillPending, venue
  <2>2. CASE RecordAccepted \/ ConcludeFound
    BY <2>1, <2>2, Settles DEF RecordAccepted, ConcludeFound, IInv, Books, Reads
  <2>3. CASE RecordRejected \/ RecordNotSent \/ RecordBelowMinimum \/ ConcludeAbsent
    BY <2>1, <2>3, Settles DEF RecordRejected, RecordNotSent, RecordBelowMinimum,
                               ConcludeAbsent, IInv, Books, Reads
  <2> QED
    BY <1>4, <2>2, <2>3
<1>5. ASSUME OperatorResolves PROVE Ledger!Record(intent.id) \/ Ledger!Void(intent.id)
  BY <1>5, Settles DEF OperatorResolves, venue
<1>6. ASSUME Fence PROVE Ledger!Record(intent.id) \/ Ledger!Void(intent.id) \/ Quiet
  <2>1. intent # None /\ held # None /\ intent.id = held.id /\ ~Booked(intent.id)
    BY <1>6 DEF Fence, IInv, Locals, Engaged, Sends, Booked, TypeOK, Intent
  <2>2. CASE intent' = None
    BY <1>6, <2>1, <2>2, Settles DEF Fence, venue
  <2>3. CASE intent' = intent
    BY <1>6, <2>3 DEF Fence, Quiet, venue, Booked
  <2> QED
    BY <1>6, <2>2, <2>3 DEF Fence
<1>7. ASSUME Web \/ LoadBot \/ Claim \/ Execute \/ NotSent \/ CheckWindow \/ Answer
             \/ Transmit \/ DieMidWrite \/ KeepAmbiguous \/ Finish \/ Ask \/ LookupAnswers
             \/ Restart \/ Crash \/ Tick \/ UNCHANGED vars
      PROVE  Quiet
  BY <1>7 DEF Web, Start, Stop, Delete, Archive, Unarchive, EditKey, LoadBot, Claim, Execute, NotSent,
     CheckWindow, Answer, Transmit, DieMidWrite, Die, Leave, KeepAmbiguous, Finish,
     FinishLegs, EndTick, Unclaim, FailTick, RetryCredentials, Abandon, Idle, Ask,
     LookupAnswers, Restart, Crash, Tick, vars, database, venue, Quiet, Booked
<1>8. ASSUME Dispatch PROVE Quiet
  <2>1. intent # None /\ intent' = [intent EXCEPT !.dispatched = TRUE] /\ intent \in Intent
        /\ UNCHANGED <<used, rows, verdict>>
    BY <1>8 DEF Dispatch, StillPending, venue, IInv, TypeOK
  <2>2. intent' \in Intent /\ intent'.id = intent.id
    BY <2>1 DEF Intent
  <2> QED
    BY <2>1, <2>2 DEF Quiet, Booked
<1>9. intent # None => intent.id \in Orders
  BY DEF IInv, TypeOK, Intent
<1>10. \A w \in wire : w.id \in Orders
  BY DEF IInv, TypeOK, Request
<1>11. CASE Quiet
  BY <1>11, QuietStutters
<1>12. CASE ~Quiet
  <2>1. \/ \E o \in Orders : Begin(o)
        \/ \E w \in wire : Accept(w)
        \/ RecordAccepted \/ RecordRejected \/ RecordNotSent \/ RecordBelowMinimum
        \/ ConcludeFound \/ ConcludeAbsent \/ OperatorResolves \/ Fence
    BY <1>3, <1>7, <1>8, <1>12 DEF Next, Place, Record, Recover, Venue
  <2>2. CASE \E o \in Orders : Begin(o)
    BY <1>1, <2>2 DEF Ledger!Next
  <2>3. CASE \E w \in wire : Accept(w)
    BY <1>2, <1>10, <2>3 DEF Ledger!Next
  <2>4. ASSUME RecordAccepted \/ RecordRejected \/ RecordNotSent \/ RecordBelowMinimum
        \/ ConcludeFound \/ ConcludeAbsent \/ OperatorResolves \/ Fence
        PROVE intent # None
    BY <2>4 DEF RecordAccepted, RecordRejected, RecordNotSent, RecordBelowMinimum,
       ConcludeFound, ConcludeAbsent, OperatorResolves, Fence, StillPending, IInv, Locals, Engaged
  <2> QED
    BY <1>4, <1>5, <1>6, <1>9, <1>12, <2>1, <2>2, <2>3, <2>4 DEF Ledger!Next
<1> QED
  BY <1>11, <1>12

\* The placement protocol implements the order ledger: an order is recorded only when the
\* venue has it, given up only when the venue never will, and opened one at a time.
THEOREM Implements == ASSUME Frozen # "resumed" PROVE Spec => ImplementsLedger
<1>1. Init => Ledger!Init
  BY KeysAssumption DEF Init, Ledger!Init, Fate, Booked
<1>2. IInv /\ [Next]_vars =>
        [Ledger!Next]_<<[o \in Orders |-> Fate(o)], {o \in Orders : Booked(o)}>>
  BY StepRefines
<1> QED
  BY <1>1, <1>2, Invariance, PTL DEF Spec, ImplementsLedger, Ledger!Spec

\* An order that is recorded or void stays so, and the venue does not take it any more: what
\* follows from the ledger for a bot's orders.
LEMMA LedgerFinal ==
  ASSUME NEW o \in Orders, Ledger!Next, Fate(o) \in {"recorded", "void"}
  PROVE  Fate(o)' = Fate(o) /\ Booked(o)' = Booked(o)
<1> DEFINE fates == [x \in Orders |-> Fate(x)]
           atVenue == {x \in Orders : Booked(x)}
<1>1. fates[o] \in {"recorded", "void"}
  OBVIOUS
<1>2. PICK p \in Orders : Ledger!Open(p) \/ Ledger!VenueAccepts(p) \/ Ledger!Record(p) \/ Ledger!Void(p)
  BY DEF Ledger!Next
<1>3. fates[p] \in {"new", "open"} /\ p # o
  BY <1>1, <1>2 DEF Ledger!Open, Ledger!VenueAccepts, Ledger!Record, Ledger!Void
<1>4. fates' = fates \/ \E f : fates' = [fates EXCEPT ![p] = f]
  BY <1>2 DEF Ledger!Open, Ledger!VenueAccepts, Ledger!Record, Ledger!Void
<1>5. atVenue' = atVenue \/ atVenue' = atVenue \cup {p}
  BY <1>2 DEF Ledger!Open, Ledger!VenueAccepts, Ledger!Record, Ledger!Void
<1>6. fates'[o] = fates[o] /\ (o \in atVenue' <=> o \in atVenue)
  BY <1>3, <1>4, <1>5
<1>7. Booked(o) \in BOOLEAN /\ Booked(o)' \in BOOLEAN
  BY DEF Booked
<1> QED BY <1>6, <1>7

Final ==
  \A o \in Orders : Fate(o) \in {"recorded", "void"} =>
    Fate(o)' = Fate(o) /\ Booked(o)' = Booked(o)

\* No order is decided twice, and a void one is never accepted afterwards, whatever the venue,
\* the recovery, the operator and a restart do later.
THEOREM FatesFinal == ASSUME Frozen # "resumed" PROVE Spec => [][Final]_vars
<1>1. ASSUME Ledger!Next PROVE Final
  BY <1>1, LedgerFinal DEF Final
<1>2. ASSUME UNCHANGED <<[o \in Orders |-> Fate(o)], {o \in Orders : Booked(o)}>> PROVE Final
  <2> SUFFICES ASSUME NEW o \in Orders PROVE Fate(o)' = Fate(o) /\ Booked(o)' = Booked(o)
    BY DEF Final
  <2>1. [x \in Orders |-> Fate(x)]'[o] = [x \in Orders |-> Fate(x)][o]
    BY <1>2
  <2>2. o \in {x \in Orders : Booked(x)}' <=> o \in {x \in Orders : Booked(x)}
    BY <1>2
  <2>3. Booked(o) \in BOOLEAN /\ Booked(o)' \in BOOLEAN
    BY DEF Booked
  <2> QED BY <2>1, <2>2, <2>3
<1>3. IInv /\ [Next]_vars => [Final]_vars
  BY <1>1, <1>2, StepRefines
<1> QED BY <1>3, Invariance, PTL DEF Spec
=============================================================================
