---------------------------- MODULE Notices_proofs ----------------------------
(***************************************************************************)
(* Proofs about Notices, for every set of bots, size of a look, capacity   *)
(* of the outbox and number of raises and deaths.                          *)
(***************************************************************************)
EXTENDS Notices, FiniteSetTheorems, TLAPS

Current(id) == marker[id[1]] = id[2]
InHand(id) ==
  \/ sender.at \in {"look", "deliver", "clear"} /\ id \in sender.left
  \/ sender.at \in {"deliver", "clear"} /\ sender.id = id
\* Never read again: its marker is gone or replaced, and the sender is past it.
Past(id) == ~Current(id) /\ ~InHand(id)
Settling(id) == sender.at = "clear" /\ sender.id = id /\ sender.why = "accepted"

\* What is remembered as accepted was, and a clear has its reason.
Grounds ==
  /\ \A id \in Ids : Accepted(id) => confirmed[id] > 0 /\ ~Offered(id)
  /\ \A e \in outbox : e.acked => confirmed[e.id] > 0
  /\ sender.at = "clear" =>
       /\ sender.why = "accepted" => confirmed[sender.id] > 0
       /\ sender.why = "expired" => sender.id \in aged

\* A stamp is given once: what the sender knows of was raised before.
Stamps ==
  /\ \A b \in Bots : marker[b] <= raised[b]
  /\ \A id \in Ids : confirmed[id] > 0 \/ InHand(id) => id[2] <= raised[id[1]]
  /\ \A e \in outbox : e.id[2] <= raised[e.id[1]]

\* One entry to a notice, of a notice remembered as offered or never read again; a
\* marker the round has gone past was seen by it.
Entries ==
  /\ \A e, f \in outbox : e.id = f.id => e = f
  /\ \A e \in outbox : Offered(e.id) \/ Past(e.id)
  /\ \A e \in outbox : Current(e.id) /\ e.id[1] <= after => e.id \in seen
  /\ sender.at \in {"look", "deliver", "clear"} =>
       \A id \in sender.left : id[1] <= after => id \in seen
  /\ ~desktop => outbox = {}

\* What is being delivered or given up is not accepted, and has no entry; a notice in
\* hand is not among those left.
Hand ==
  /\ sender.at = "deliver" => ~desktop /\ confirmed[sender.id] = 0
  /\ sender.at = "clear" =>
       /\ \A e \in outbox : e.id # sender.id
       /\ sender.why # "accepted" => confirmed[sender.id] = 0
  /\ sender.at \in {"deliver", "clear"} => sender.id \notin sender.left

\* An accepted notice is remembered until its marker is gone, and no other is taken for one.
Once ==
  /\ \A e \in outbox : ~e.acked => confirmed[e.id] = 0
  /\ \A id \in Ids : confirmed[id] <= 1
  /\ \A id \in Ids : confirmed[id] > 0 =>
       Settling(id) \/ Accepted(id) \/ (Offered(id) /\ Acked(id)) \/ Past(id)

IInv == TypeOK /\ Grounds /\ Stamps /\ Entries /\ Hand /\ Once

\* What remembering one attempt changes.
LEMMA RemembersOne ==
  ASSUME TypeOK, NEW id \in Ids, NEW attempt \in Attempt, Remembers(id, attempt)
  PROVE  /\ \E known \in SUBSET Ids : attempts' \in [known -> Attempt]
         /\ \A i \in Ids : Offered(i)' <=> IF i = id THEN attempt.offered ELSE Offered(i)
         /\ \A i \in Ids : Accepted(i)' <=> IF i = id THEN attempt.accepted ELSE Accepted(i)
<1>1. PICK known \in SUBSET Ids : attempts \in [known -> Attempt]
  BY DEF TypeOK
<1>2. attempts' \in [known \cup {id} -> Attempt]
  BY <1>1 DEF Remembers
<1>3. \A i \in known \cup {id} : attempts'[i] = IF i = id THEN attempt ELSE attempts[i]
  BY <1>1 DEF Remembers
<1>4. /\ \A i \in Ids : Offered(i)' <=> IF i = id THEN attempt.offered ELSE Offered(i)
      /\ \A i \in Ids : Accepted(i)' <=> IF i = id THEN attempt.accepted ELSE Accepted(i)
  BY <1>1, <1>2, <1>3 DEF Offered, Accepted
<1> QED BY <1>2, <1>4

\* What the sender has in hand is a notice.
LEMMA HandTyped ==
  ASSUME TypeOK
  PROVE  /\ sender.at \in {"look", "deliver", "clear"} => sender.left \subseteq Ids
         /\ sender.at \in {"deliver", "clear"} => sender.id \in Ids
         /\ sender.at = "clear" => sender.why \in Whys
  BY DEF TypeOK, Rest, Dead

LEMMA InitInv == Init => IInv
<1> SUFFICES ASSUME Init PROVE IInv
  OBVIOUS
<1> USE BotsAssumption, BoundsAssumption
<1>1. TypeOK
  <2>1. attempts \in [{} -> Attempt]
    BY DEF Init, NoAttempts
  <2> QED BY <2>1 DEF Init, TypeOK, Ids
<1>2. Grounds BY DEF Init, Grounds, Rest, Accepted, NoAttempts
<1>3. Stamps BY DEF Init, Stamps, InHand, Rest
<1>4. Entries BY DEF Init, Entries, Rest
<1>5. Hand BY DEF Init, Hand, Rest
<1>6. Once BY DEF Init, Once
<1> QED BY <1>1, <1>2, <1>3, <1>4, <1>5, <1>6 DEF IInv

\* The engine's and the clock's steps.
LEMMA RaiseInv == ASSUME IInv, NEW b \in Bots, Raise(b) PROVE IInv'
<1> USE BotsAssumption, BoundsAssumption DEF remembered
<1>1. TypeOK' BY DEF IInv, Raise, TypeOK
<1>2. Grounds' BY DEF IInv, Raise, Grounds, Accepted, Offered
<1>3. Stamps'
  <2>1. \A c \in Bots : raised[c] <= raised'[c] /\ raised[c] \in Nat /\ raised'[c] \in Nat
    BY DEF IInv, Raise, TypeOK
  <2>2. \A c \in Bots : marker'[c] <= raised'[c]
    BY <2>1 DEF IInv, Raise, Stamps, TypeOK
  <2>3. \A id \in Ids : id[1] \in Bots /\ id[2] \in Nat
    BY DEF Ids
  <2>4. \A id \in Ids : confirmed'[id] > 0 \/ InHand(id)' => id[2] <= raised'[id[1]]
    BY <2>1, <2>3 DEF IInv, Raise, Stamps, InHand
  <2>5. \A e \in outbox' : e.id[2] <= raised'[e.id[1]]
    BY <2>1, <2>3 DEF IInv, Raise, Stamps, TypeOK, Entry
  <2> QED BY <2>2, <2>4, <2>5 DEF Stamps
<1>4. Entries' BY DEF IInv, Raise, Stamps, Entries, Offered, Past, InHand, Current, TypeOK, Ids, Entry
<1>5. Hand' BY DEF IInv, Raise, Hand
<1>6. Once' BY DEF IInv, Raise, Stamps, Once, Settling, Accepted, Offered, Acked, Held, Past, InHand, Current, TypeOK, Ids
<1> QED BY <1>1, <1>2, <1>3, <1>4, <1>5, <1>6 DEF IInv

LEMMA WeekInv == ASSUME IInv, NEW b \in Bots, WeekPasses(b) PROVE IInv'
<1> USE BotsAssumption, BoundsAssumption DEF remembered
<1>1. TypeOK' BY DEF IInv, WeekPasses, TypeOK, Ids
<1>2. Grounds' BY DEF IInv, WeekPasses, Grounds, Accepted, Offered
<1>3. Stamps' BY DEF IInv, WeekPasses, Stamps, InHand
<1>4. Entries' BY DEF IInv, WeekPasses, Entries, Offered, Past, InHand, Current
<1>5. Hand' BY DEF IInv, WeekPasses, Hand
<1>6. Once' BY DEF IInv, WeekPasses, Once, Settling, Accepted, Offered, Acked, Held, Past, InHand, Current
<1> QED BY <1>1, <1>2, <1>3, <1>4, <1>5, <1>6 DEF IInv

LEMMA DueInv == ASSUME IInv, NEW id \in Ids, Due(id) PROVE IInv'
<1> USE BotsAssumption, BoundsAssumption DEF remembered
<1>0. PICK known \in SUBSET Ids : attempts \in [known -> Attempt]
  BY DEF IInv, TypeOK
<1>1. /\ attempts' \in [known -> Attempt]
      /\ \A i \in known : /\ attempts'[i].accepted = attempts[i].accepted
                          /\ attempts'[i].offered = attempts[i].offered
  BY <1>0 DEF Due, Attempt
<1>2. \A i \in Ids : (Offered(i)' <=> Offered(i)) /\ (Accepted(i)' <=> Accepted(i))
  BY <1>0, <1>1 DEF Offered, Accepted
<1>3. TypeOK' BY <1>1 DEF IInv, Due, TypeOK
<1>4. Grounds' BY <1>2 DEF IInv, Due, Grounds
<1>5. Stamps' BY DEF IInv, Due, Stamps, InHand
<1>6. Entries' BY <1>2 DEF IInv, Due, Entries, Past, InHand, Current, TypeOK, Entry
<1>7. Hand' BY DEF IInv, Due, Hand
<1>8. Once' BY <1>2 DEF IInv, Due, Once, Settling, Acked, Held, Past, InHand, Current
<1> QED BY <1>3, <1>4, <1>5, <1>6, <1>7, <1>8 DEF IInv

LEMMA DeadlineInv == ASSUME IInv, NEW e \in outbox, DeadlinePasses(e) PROVE IInv'
<1> USE BotsAssumption, BoundsAssumption DEF remembered
<1> e \in Entry
  BY DEF IInv, TypeOK
<1> DEFINE f == [e EXCEPT !.late = TRUE]
<1>0. f \in Entry /\ f.id = e.id /\ f.acked = e.acked
  BY DEF Entry
<1> HIDE DEF f
<1>1. outbox' = (outbox \ {e}) \cup {f}
  BY DEF DeadlinePasses, f
<1>3. TypeOK' BY <1>0, <1>1 DEF IInv, DeadlinePasses, TypeOK
<1>4. Grounds' BY <1>0, <1>1 DEF IInv, DeadlinePasses, Grounds, Offered, Accepted
<1>5. Stamps' BY <1>0, <1>1 DEF IInv, DeadlinePasses, Stamps, InHand
<1>6. Entries' BY <1>0, <1>1 DEF IInv, DeadlinePasses, Entries, Offered, Past, InHand, Current
<1>7. Hand' BY <1>0, <1>1 DEF IInv, DeadlinePasses, Hand
<1>8. Once' BY <1>0, <1>1 DEF IInv, DeadlinePasses, Once, Offered, Accepted, Settling, Acked, Held, Past, InHand, Current
<1> QED BY <1>3, <1>4, <1>5, <1>6, <1>7, <1>8 DEF IInv

LEMMA AckInv == ASSUME IInv, NEW e \in outbox, Ack(e) PROVE IInv'
<1> USE BotsAssumption, BoundsAssumption DEF remembered
<1> e \in Entry
  BY DEF IInv, TypeOK
<1> DEFINE f == [e EXCEPT !.acked = TRUE]
<1>0. f \in Entry /\ f.id = e.id /\ f.acked
  BY DEF Entry
<1> HIDE DEF f
<1>1. outbox' = (outbox \ {e}) \cup {f} /\ e.id \in Ids /\ confirmed[e.id] = 0 /\ ~e.acked
  BY DEF f, Ack, IInv, Entry, Once
<1>2. confirmed' = [confirmed EXCEPT ![e.id] = 1]
  BY <1>1 DEF Ack
<1>3. TypeOK' BY <1>0, <1>1, <1>2 DEF IInv, Ack, TypeOK
<1>4. Grounds' BY <1>0, <1>1, <1>2 DEF IInv, Ack, Grounds, Offered, Accepted, TypeOK, Entry
<1>5. Stamps' BY <1>0, <1>1, <1>2 DEF IInv, Ack, Stamps, InHand, TypeOK
<1>6. Entries' BY <1>0, <1>1 DEF IInv, Ack, Entries, Offered, Past, InHand, Current
<1>7. Hand' BY <1>0, <1>1, <1>2, HandTyped DEF IInv, Ack, Hand, TypeOK, Entries
<1>8. Once'
  <2>1. \A g \in outbox' : ~g.acked => confirmed'[g.id] = 0
    BY <1>0, <1>1, <1>2 DEF IInv, Entries, Once, TypeOK, Entry
  <2>2. \A id \in Ids : confirmed'[id] <= 1
    BY <1>1, <1>2 DEF IInv, Once, TypeOK
  <2>3. Offered(e.id) \/ Past(e.id)
    BY DEF IInv, Entries
  <2>4. Acked(e.id)'
    BY <1>0, <1>1 DEF Acked, Held
  <2>5. \A id \in Ids : id # e.id => confirmed'[id] = confirmed[id] /\ (Acked(id) => Acked(id)')
    BY <1>0, <1>1, <1>2 DEF IInv, TypeOK, Acked, Held
  <2>6. \A id \in Ids : confirmed'[id] > 0 =>
          Settling(id)' \/ Accepted(id)' \/ (Offered(id)' /\ Acked(id)') \/ Past(id)'
    BY <2>3, <2>4, <2>5 DEF IInv, Ack, Once, Offered, Accepted, Settling, Past, InHand, Current
  <2> QED BY <2>1, <2>2, <2>6 DEF Once
<1> QED BY <1>3, <1>4, <1>5, <1>6, <1>7, <1>8 DEF IInv

\* A look: what the round has gone past, it has seen.
LEMMA LookInv == ASSUME IInv, Look PROVE IInv'
<1> USE BotsAssumption, BoundsAssumption DEF remembered
<1>1. PICK bots \in SUBSET Marked, next \in Bots \cup {0} :
        LET ids == {<<b, marker[b]>> : b \in bots} IN
        /\ Reads(bots, next)
        /\ sender' = [at |-> "look", left |-> ids]
        /\ after' = next
        /\ seen' = IF next = 0 THEN {} ELSE seen \cup ids
        /\ outbox' = IF next = 0 THEN {e \in outbox : e.id \in seen \cup ids} ELSE outbox
  BY DEF Look
<1> DEFINE ids == {<<b, marker[b]>> : b \in bots}
<1>2. ids \subseteq Ids /\ \A id \in ids : Current(id)
  BY DEF Ids, Marked, IInv, TypeOK, Current
<1>3. \A id \in Ids : Current(id) /\ id[1] > after /\ (next = 0 \/ id[1] <= next) => id \in ids
  <2>1. \A b \in Marked : next = 0 \/ b <= next => b \in bots
    BY <1>1 DEF Reads, Marked
  <2>2. \A id \in Ids : Current(id) /\ id[1] > after => id[1] \in Marked /\ id = <<id[1], marker[id[1]]>>
    BY DEF Ids, Marked, Current
  <2> QED BY <2>1, <2>2
<1>4. /\ sender = Rest /\ sender'.at = "look" /\ sender'.left = ids
      /\ outbox' \subseteq outbox
      /\ \A e \in outbox : next # 0 \/ e.id \in seen \cup ids => e \in outbox'
      /\ after' = next /\ (next # 0 => seen' = seen \cup ids) /\ seen' \subseteq Ids
  BY <1>1, <1>2 DEF Look, IInv, TypeOK
<1>5. UNCHANGED <<marker, raised, aged, desktop, crashes, confirmed>>
  BY DEF Look
<1>6. PICK known \in SUBSET Ids : attempts \in [known -> Attempt]
  BY DEF IInv, TypeOK
<1>7. attempts' \in [{i \in known : Current(i)} -> Attempt]
      /\ \A i \in known : Current(i) => attempts'[i] = attempts[i]
  BY <1>6 DEF Look, KeepsCurrent, Current
<1>8. \A id \in Ids : Current(id) => (Offered(id)' <=> Offered(id)) /\ (Accepted(id)' <=> Accepted(id))
  BY <1>6, <1>7 DEF Offered, Accepted
<1>9. \A id \in Ids : ~Current(id) => Past(id)' /\ ~Accepted(id)' /\ ~Offered(id)'
  BY <1>2, <1>4, <1>5, <1>6, <1>7 DEF Past, InHand, Current, Accepted, Offered
<1>10. \A id \in Ids : Current(id) => ~Past(id)
  BY DEF Past
<1>17. after \in Nat /\ next \in Nat
  <2>1. Bots \cup {0} \subseteq Nat
    OBVIOUS
  <2>2. after \in Bots \cup {0} /\ next \in Bots \cup {0}
    BY DEF IInv, TypeOK
  <2> QED BY <2>1, <2>2
<1>18. \A id \in Ids : id[1] \in Nat /\ id[1] > 0
  <2>1. \A b \in Bots : b \in Nat /\ b > 0
    OBVIOUS
  <2>2. \A id \in Ids : id[1] \in Bots
    BY DEF Ids
  <2> QED BY <2>1, <2>2
<1> HIDE DEF ids
<1>11. TypeOK'
  <2>1. sender' \in [at : {"look"}, left : SUBSET Ids]
    BY <1>1, <1>2 DEF ids
  <2>2. \E k \in SUBSET Ids : attempts' \in [k -> Attempt]
    BY <1>7
  <2> QED BY <1>4, <1>5, <2>1, <2>2 DEF IInv, TypeOK
<1>12. Grounds'
  BY <1>4, <1>5, <1>8, <1>9 DEF IInv, Grounds
<1>13. Stamps'
  <2>1. \A id \in ids : id[2] <= raised[id[1]]
    BY <1>2 DEF IInv, Stamps, Current, Ids
  <2> QED BY <1>4, <1>5, <2>1 DEF IInv, Stamps, InHand
<1>14. Entries'
  <2>1. \A e \in outbox' : e \in outbox /\ e.id \in Ids /\ (Offered(e.id)' \/ Past(e.id)')
    BY <1>4, <1>8, <1>9, <1>10 DEF IInv, Entries, TypeOK, Entry
  <2>2. \A e \in outbox' : Current(e.id)' /\ e.id[1] <= after' => e.id \in seen'
    <3> SUFFICES ASSUME NEW e \in outbox, Current(e.id), e.id[1] <= next, e.id \in Ids PROVE e.id \in seen'
      BY <1>4, <1>5, <2>1 DEF Current
    <3>1. e.id[1] \in Nat /\ next # 0
      BY <1>17, <1>18
    <3>2. CASE e.id[1] <= after
      BY <1>4, <3>1, <3>2 DEF IInv, Entries
    <3>3. CASE e.id[1] > after
      BY <1>3, <1>4, <3>1, <3>3
    <3> QED BY <1>17, <3>1, <3>2, <3>3
  <2>3. \A id \in ids : id[1] <= after' => id \in seen'
    <3> SUFFICES ASSUME NEW id \in ids, id[1] <= next PROVE id \in seen'
      BY <1>4
    <3>1. next # 0
      BY <1>2, <1>17, <1>18
    <3> QED BY <1>4, <3>1
  <2> QED BY <1>4, <1>5, <2>1, <2>2, <2>3 DEF IInv, Entries
<1>15. Hand'
  BY <1>4 DEF Hand
<1>16. Once'
  <2>1. \A id \in Ids : Current(id) /\ Acked(id) /\ Offered(id) => Acked(id)'
    <3> SUFFICES ASSUME NEW id \in Ids, Current(id), NEW e \in outbox, e.id = id, e.acked
                 PROVE  e \in outbox'
      BY DEF Acked, Held
    <3>1. CASE next # 0
      BY <1>4, <3>1
    <3>2. CASE next = 0
      <4>1. id[1] <= after => id \in seen
        BY DEF IInv, Entries
      <4>2. id[1] > after => id \in ids
        BY <1>3, <3>2
      <4> QED BY <1>4, <1>17, <1>18, <3>2, <4>1, <4>2
    <3> QED BY <3>1, <3>2
  <2>2. \A id \in Ids : Current(id) => ~Settling(id)
    BY <1>4 DEF Settling, Rest
  <2> QED BY <1>4, <1>5, <1>8, <1>9, <1>10, <2>1, <2>2 DEF IInv, Once
<1> QED BY <1>11, <1>12, <1>13, <1>14, <1>15, <1>16 DEF IInv

LEMMA LookEndsInv == ASSUME IInv, LookEnds PROVE IInv'
<1> USE BotsAssumption, BoundsAssumption DEF remembered
<1>1. sender'.at = "rest" /\ \A id \in Ids : ~InHand(id) /\ ~InHand(id)'
  BY DEF LookEnds, InHand, Rest
<1>2. TypeOK' BY DEF IInv, LookEnds, TypeOK
<1>3. Grounds' BY <1>1 DEF IInv, LookEnds, Grounds, Accepted, Offered
<1>4. Stamps' BY <1>1 DEF IInv, LookEnds, Stamps
<1>5. Entries' BY <1>1 DEF IInv, LookEnds, Entries, Offered, Past, Current, TypeOK, Entry
<1>6. Hand' BY <1>1 DEF Hand
<1>7. Once' BY <1>1 DEF IInv, LookEnds, Once, Settling, Accepted, Offered, Acked, Held, Past, Current
<1> QED BY <1>2, <1>3, <1>4, <1>5, <1>6, <1>7 DEF IInv

\* One marker of a look.
LEMMA HandleInv == ASSUME IInv, NEW id \in Ids, Handle(id) PROVE IInv'
<1> USE BotsAssumption, BoundsAssumption
<1>1. /\ sender.at = "look" /\ id \in sender.left /\ InHand(id)
      /\ UNCHANGED <<marker, raised, aged, desktop, after, seen, crashes, confirmed>>
  BY DEF Handle, InHand
\* An accepted notice of a look is one still remembered.
<1>2. /\ confirmed[id] > 0 => Accepted(id) \/ (Offered(id) /\ Acked(id))
      /\ ~Offered(id) => Held(id) = {}
      /\ Accepted(id) => confirmed[id] > 0 /\ ~Offered(id)
      /\ confirmed[id] \in Nat
  BY <1>1 DEF IInv, Once, Entries, Grounds, Held, Settling, Past, TypeOK
<1>3. /\ \A w \in Whys : Clearing(id, w) \in [at : {"clear"}, id : Ids, why : Whys, left : SUBSET Ids]
      /\ Done(id) \in [at : {"look"}, left : SUBSET Ids]
  BY <1>1, HandTyped DEF IInv, Done, Clearing
\* Whatever is decided, the sender is past this marker or still has it in hand.
<1> DEFINE Moved ==
      /\ \/ sender'.at = "look"
         \/ sender'.at \in {"deliver", "clear"} /\ sender'.id = id
      /\ sender'.left = sender.left \ {id}
<1>4. ASSUME Moved PROVE
        /\ \A i \in Ids : i # id => (InHand(i)' <=> InHand(i)) /\ (Past(i)' <=> Past(i)) /\ ~Settling(i)'
        /\ InHand(id)' => sender'.at \in {"deliver", "clear"}
        /\ ~Past(id)
  BY <1>1, <1>4 DEF InHand, Past, Current, Settling
<1>5. ASSUME Moved PROVE
        /\ \A b \in Bots : marker'[b] <= raised'[b]
        /\ \A i \in Ids : confirmed'[i] > 0 \/ InHand(i)' => i[2] <= raised'[i[1]]
  BY <1>1, <1>4, <1>5 DEF IInv, Stamps
<1>6. ASSUME Moved PROVE
        /\ \A i \in sender'.left : i[1] <= after' => i \in seen'
        /\ id \notin sender'.left
  BY <1>1, <1>6 DEF IInv, Entries
<1> HIDE DEF Moved
\* The steps that leave the attempts and the outbox alone.
<1>7. ASSUME Moved, UNCHANGED <<attempts, outbox>>,
             sender' \in [at : {"look"}, left : SUBSET Ids]
                \cup [at : {"deliver"}, id : Ids, left : SUBSET Ids]
                \cup [at : {"clear"}, id : Ids, why : Whys, left : SUBSET Ids],
             sender'.at = "deliver" => ~desktop /\ confirmed[id] = 0,
             sender'.at = "clear" =>
               /\ Held(id) = {}
               /\ sender'.why = "accepted" <=> confirmed[id] > 0
               /\ sender'.why = "expired" => id \in aged
      PROVE  IInv'
  <2>1. \A i \in Ids : (Offered(i)' <=> Offered(i)) /\ (Accepted(i)' <=> Accepted(i)) /\ (Acked(i)' <=> Acked(i))
    BY <1>7 DEF Offered, Accepted, Acked, Held
  <2>2. sender'.at \in {"deliver", "clear"} => sender'.id = id
    BY <1>7 DEF Moved
  <2>3. TypeOK'
    BY <1>1, <1>7 DEF IInv, TypeOK
  <2>4. Grounds'
    BY <1>1, <1>7, <2>1, <2>2 DEF IInv, Grounds
  <2>5. Stamps'
    BY <1>1, <1>5, <1>7 DEF IInv, Stamps
  <2>6. Entries'
    BY <1>1, <1>4, <1>6, <1>7, <2>1 DEF IInv, Entries, Current, TypeOK, Entry
  <2>7. Hand'
    BY <1>1, <1>2, <1>6, <1>7, <2>2 DEF IInv, Hand, Held
  <2>8. Once'
    BY <1>1, <1>2, <1>4, <1>7, <2>1 DEF IInv, Once, Settling
  <2> QED BY <2>3, <2>4, <2>5, <2>6, <2>7, <2>8 DEF IInv
\* The steps that remember what became of a notice no launcher holds any more.
<1>8. ASSUME Moved, NEW attempt \in Attempt, Remembers(id, attempt), outbox' = outbox \ Held(id),
             ~attempt.offered, attempt.accepted <=> confirmed[id] > 0,
             sender' \in [at : {"look"}, left : SUBSET Ids]
                \cup [at : {"clear"}, id : Ids, why : {"accepted"}, left : SUBSET Ids],
             sender'.at = "clear" => confirmed[id] > 0
      PROVE  IInv'
  <2>1. /\ \E known \in SUBSET Ids : attempts' \in [known -> Attempt]
        /\ \A i \in Ids : Offered(i)' <=> IF i = id THEN FALSE ELSE Offered(i)
        /\ \A i \in Ids : Accepted(i)' <=> IF i = id THEN confirmed[id] > 0 ELSE Accepted(i)
    BY <1>8, RemembersOne DEF IInv
  <2>2. /\ outbox' \subseteq outbox /\ \A e \in outbox' : e.id # id
        /\ \A i \in Ids : i # id => (Acked(i)' <=> Acked(i))
    BY <1>8 DEF Held, Acked
  <2>3. sender'.at # "deliver" /\ (sender'.at = "clear" => sender'.id = id /\ sender'.why = "accepted")
    BY <1>8 DEF Moved
  <2>4. TypeOK'
    <3>1. sender' \in [at : {"look"}, left : SUBSET Ids]
                      \cup [at : {"clear"}, id : Ids, why : Whys, left : SUBSET Ids]
      BY <1>8 DEF Whys
    <3>2. outbox' \subseteq Entry
      BY <2>2 DEF IInv, TypeOK
    <3> QED BY <1>1, <2>1, <3>1, <3>2 DEF IInv, TypeOK
  <2>5. Grounds'
    BY <1>1, <1>8, <2>1, <2>2, <2>3 DEF IInv, Grounds
  <2>6. Stamps'
    BY <1>1, <1>5, <1>8, <2>2 DEF IInv, Stamps
  <2>7. Entries'
    <3>1. \A e \in outbox' : e \in outbox /\ e.id \in Ids /\ e.id # id
      BY <2>2 DEF IInv, TypeOK, Entry
    <3> QED BY <1>1, <1>4, <1>6, <1>8, <2>1, <2>2, <3>1 DEF IInv, Entries, Current
  <2>8. Hand'
    BY <1>1, <1>6, <1>8, <2>2, <2>3 DEF IInv, Hand
  <2>9. Once'
    BY <1>1, <1>2, <1>4, <1>8, <2>1, <2>2 DEF IInv, Once, Settling
  <2> QED BY <2>4, <2>5, <2>6, <2>7, <2>8, <2>9 DEF IInv
<1>9. \A w \in Whys : sender' = Clearing(id, w) =>
        Moved /\ sender'.at = "clear" /\ sender'.why = w
        /\ sender' \in [at : {"clear"}, id : Ids, why : {w}, left : SUBSET Ids]
  BY <1>1, HandTyped DEF IInv, Clearing, Moved
<1>10. sender' = Done(id) => Moved /\ sender'.at = "look" /\ sender' \in [at : {"look"}, left : SUBSET Ids]
  BY <1>3 DEF Done, Moved
<1>11. "accepted" \in Whys /\ "expired" \in Whys /\ "unsendable" \in Whys
  BY DEF Whys
<1>12. ASSUME NEW accepted \in BOOLEAN, Later(id, accepted)
       PROVE  \E attempt \in Attempt : Remembers(id, attempt) /\ ~attempt.offered /\ attempt.accepted = accepted
  <2> DEFINE attempt == [accepted |-> accepted, offered |-> FALSE, due |-> FALSE]
  <2>1. attempt \in Attempt /\ ~attempt.offered /\ attempt.accepted = accepted
    BY DEF Attempt
  <2>2. Remembers(id, attempt)
    BY <1>12 DEF Later
  <2> QED BY <2>1, <2>2
<1>13. CASE TakeAcked(id)
  <2>1. confirmed[id] > 0
    BY <1>13 DEF IInv, TakeAcked, Acked, Held, Grounds
  <2>2. PICK attempt \in Attempt : Remembers(id, attempt) /\ ~attempt.offered /\ attempt.accepted
    <3> DEFINE attempt == [accepted |-> TRUE, offered |-> FALSE, due |-> TRUE]
    <3>1. attempt \in Attempt /\ ~attempt.offered /\ attempt.accepted
      BY DEF Attempt
    <3> QED BY <1>13, <3>1 DEF TakeAcked
  <2> QED BY <1>8, <1>9, <1>11, <1>13, <2>1, <2>2 DEF TakeAcked
<1>14. CASE TakeWaiting(id) \/ NotDue(id)
  BY <1>7, <1>10, <1>14 DEF TakeWaiting, NotDue
<1>15. CASE TakeGone(id)
  <2>1. ~(confirmed[id] > 0)
    BY <1>2, <1>15 DEF TakeGone
  <2>2. PICK attempt \in Attempt : Remembers(id, attempt) /\ ~attempt.offered /\ attempt.accepted = FALSE
    BY <1>12, <1>15 DEF TakeGone
  <2> QED BY <1>8, <1>10, <1>15, <2>1, <2>2 DEF TakeGone
<1>16. ASSUME Tries(id), ClearsOnly(id) PROVE IInv'
  BY <1>2, <1>7, <1>9, <1>11, <1>16 DEF Tries, ClearsOnly
<1>17. ASSUME Tries(id), GivesUp(id) PROVE IInv'
  <2>1. Held(id) = {} /\ ~(confirmed[id] > 0) /\ outbox' = outbox
    BY <1>2, <1>17 DEF Tries, GivesUp
  <2> QED BY <1>7, <1>9, <1>11, <1>17, <2>1 DEF GivesUp
<1>18. ASSUME Tries(id), Fresh(id), CannotPrepare(id) PROVE IInv'
  <2>1. Held(id) = {} /\ ~(confirmed[id] > 0)
    BY <1>2, <1>18 DEF Tries, Fresh
  <2>2. PICK attempt \in Attempt : Remembers(id, attempt) /\ ~attempt.offered /\ attempt.accepted = FALSE
    BY <1>12, <1>18 DEF CannotPrepare
  <2> QED BY <1>8, <1>10, <1>18, <2>1, <2>2 DEF CannotPrepare
<1>19. ASSUME Tries(id), Fresh(id), Unsendable(id) PROVE IInv'
  <2>1. Held(id) = {} /\ ~(confirmed[id] > 0)
    BY <1>2, <1>19 DEF Tries, Fresh
  <2> QED BY <1>7, <1>9, <1>11, <1>19, <2>1 DEF Unsendable
<1>20. ASSUME Tries(id), Fresh(id), StartsDelivery(id) PROVE IInv'
  <2>1. Held(id) = {} /\ ~(confirmed[id] > 0) /\ confirmed[id] = 0
    BY <1>2, <1>20 DEF Tries, Fresh
  <2>2. /\ Moved /\ sender'.at = "deliver"
        /\ sender' \in [at : {"deliver"}, id : Ids, left : SUBSET Ids]
    BY <1>20, <1>1, HandTyped DEF IInv, StartsDelivery, Moved
  <2> QED BY <1>7, <1>20, <2>1, <2>2 DEF StartsDelivery
<1>21. ASSUME Tries(id), Fresh(id), Offer(id) PROVE IInv'
  <2> DEFINE kept == {e \in outbox : e.acked \/ ~e.late}
             new == [id |-> id, acked |-> FALSE, late |-> FALSE]
  <2>1. Held(id) = {} /\ ~(confirmed[id] > 0) /\ confirmed[id] = 0
    BY <1>2, <1>21 DEF Tries, Fresh
  <2>2. PICK attempt \in Attempt :
          /\ Remembers(id, attempt) /\ ~attempt.accepted
          /\ outbox' = IF attempt.offered THEN kept \cup {new} ELSE kept
    <3>1. ~ \E e \in kept : e.id = id
      BY <2>1 DEF Held
    <3>2. PICK room \in BOOLEAN :
            /\ outbox' = IF ~room THEN kept ELSE kept \cup {new}
            /\ Remembers(id, [accepted |-> FALSE, offered |-> room, due |-> FALSE])
      BY <1>21, <3>1 DEF Offer
    <3> DEFINE attempt == [accepted |-> FALSE, offered |-> room, due |-> FALSE]
    <3>3. attempt \in Attempt /\ ~attempt.accepted /\ attempt.offered = room
      BY DEF Attempt
    <3> QED BY <3>2, <3>3
  <2>3. /\ new \in Entry /\ new.id = id /\ ~new.acked
        /\ kept \subseteq outbox /\ \A e \in outbox : e.acked => e \in kept
        /\ \A e \in outbox : e \in Entry /\ e.id \in Ids /\ e.id # id
    BY <2>1 DEF Held, Entry, IInv, TypeOK
  <2> HIDE DEF kept, new
  <2>4. /\ \E known \in SUBSET Ids : attempts' \in [known -> Attempt]
        /\ \A i \in Ids : Offered(i)' <=> IF i = id THEN attempt.offered ELSE Offered(i)
        /\ \A i \in Ids : Accepted(i)' <=> IF i = id THEN FALSE ELSE Accepted(i)
    BY <2>2, RemembersOne DEF IInv
  <2>5. \A i \in Ids : i # id => (Acked(i) => Acked(i)')
    BY <2>2, <2>3 DEF Acked, Held
  <2>6. Moved /\ sender'.at = "look" /\ desktop
    BY <1>10, <1>21 DEF Offer
  <2>7. TypeOK'
    BY <1>1, <1>10, <1>21, <2>2, <2>3, <2>4 DEF Offer, IInv, TypeOK
  <2>8. Grounds'
    BY <1>1, <2>2, <2>3, <2>4, <2>6 DEF IInv, Grounds
  <2>9. Stamps'
    BY <1>1, <1>5, <2>2, <2>3, <2>6 DEF IInv, Stamps
  <2>10. Entries'
    <3>1. \A e, f \in outbox' : e.id = f.id => e = f
      BY <2>2, <2>3 DEF IInv, Entries
    <3>2. \A e \in outbox' : Offered(e.id)' \/ Past(e.id)'
      BY <1>4, <2>2, <2>3, <2>4, <2>6 DEF IInv, Entries
    <3>3. \A e \in outbox' : Current(e.id)' /\ e.id[1] <= after' => e.id \in seen'
      BY <1>1, <2>2, <2>3 DEF IInv, Entries, Current
    <3> QED BY <1>1, <1>6, <2>6, <3>1, <3>2, <3>3 DEF Entries
  <2>11. Hand'
    BY <2>6 DEF Hand
  <2>12. Once'
    BY <1>1, <1>4, <2>1, <2>2, <2>3, <2>4, <2>5, <2>6 DEF IInv, Once, Settling
  <2> QED BY <2>7, <2>8, <2>9, <2>10, <2>11, <2>12 DEF IInv
<1> QED
  BY <1>13, <1>14, <1>15, <1>16, <1>17, <1>18, <1>19, <1>20, <1>21 DEF Handle

\* What follows a delivery, and what clears a marker.
LEMMA DeliveredInv == ASSUME IInv, Delivered PROVE IInv'
<1> USE BotsAssumption, BoundsAssumption DEF remembered
<1> DEFINE id == sender.id
<1>1. id \in Ids /\ id \notin sender.left /\ confirmed[id] = 0 /\ outbox = {} /\ ~desktop
  BY HandTyped DEF Delivered, IInv, Hand, Entries
<1>2. /\ sender' \in [at : {"clear"}, id : Ids, why : Whys, left : SUBSET Ids]
      /\ sender'.at = "clear" /\ sender'.id = id /\ sender'.why = "accepted"
      /\ sender'.left = sender.left
  BY <1>1, HandTyped DEF Delivered, Clearing, IInv, Whys
<1>3. confirmed' = [confirmed EXCEPT ![id] = 1] /\ confirmed'[id] = 1
  BY <1>1 DEF Delivered, IInv, TypeOK
<1>4. \A i \in Ids : i # id => confirmed'[i] = confirmed[i]
  BY <1>3 DEF IInv, TypeOK
<1>5. UNCHANGED <<marker, raised, aged, desktop, attempts, outbox, after, seen, crashes>> /\ sender.at = "deliver"
  BY DEF Delivered
<1> HIDE DEF id
<1>6. \A i \in Ids : (InHand(i)' <=> InHand(i)) /\ InHand(id)
  BY <1>2, <1>5 DEF InHand, id
<1>7. TypeOK' BY <1>1, <1>2, <1>3, <1>5 DEF IInv, TypeOK
<1>8. Grounds' BY <1>1, <1>2, <1>3, <1>4, <1>5 DEF IInv, Grounds, Accepted, Offered
<1>9. Stamps'
  <2>1. \A i \in Ids : confirmed'[i] > 0 => i = id \/ confirmed[i] > 0
    BY <1>4
  <2>2. \A i \in Ids : InHand(i)' \/ confirmed'[i] > 0 => i[2] <= raised[i[1]]
    BY <1>6, <2>1 DEF IInv, Stamps
  <2> QED BY <1>5, <2>2 DEF IInv, Stamps
<1>10. Entries' BY <1>1, <1>2, <1>5 DEF IInv, Entries
<1>11. Hand' BY <1>1, <1>2, <1>5 DEF Hand
<1>12. Once' BY <1>1, <1>2, <1>3, <1>4, <1>5, <1>6 DEF IInv, Once, Settling, Accepted, Offered, Acked, Held, Past, Current
<1> QED BY <1>7, <1>8, <1>9, <1>10, <1>11, <1>12 DEF IInv

\* A delivery that failed, and a refused clear, are remembered for later.
LEMMA LaterInv ==
  ASSUME IInv, DeliveryFails \/ ClearRefused
  PROVE  IInv'
<1> USE BotsAssumption, BoundsAssumption
<1>0. PICK id \in Ids : id = sender.id
  BY HandTyped DEF DeliveryFails, ClearRefused, Clears, IInv
<1>1. /\ id \notin sender.left /\ \A e \in outbox : e.id # id
      /\ sender.at \in {"deliver", "clear"} /\ InHand(id)
      /\ UNCHANGED <<marker, raised, aged, desktop, outbox, after, seen, crashes, confirmed>>
  BY <1>0 DEF DeliveryFails, ClearRefused, IInv, Hand, Entries, InHand
<1>2. PICK attempt \in Attempt :
        Remembers(id, attempt) /\ ~attempt.offered /\ (attempt.accepted <=> confirmed[id] > 0)
  <2> DEFINE attempt == [accepted |-> sender.at = "clear" /\ sender.why = "accepted", offered |-> FALSE, due |-> FALSE]
  <2>1. attempt \in Attempt /\ ~attempt.offered
        /\ attempt.accepted = (sender.at = "clear" /\ sender.why = "accepted")
    BY <1>0 DEF Attempt
  <2>2. Remembers(id, attempt)
    BY <1>0 DEF DeliveryFails, ClearRefused, Later
  <2>3. sender.at = "clear" /\ sender.why = "accepted" <=> confirmed[id] > 0
    BY <1>0, <1>1 DEF IInv, Hand, Grounds
  <2> QED BY <2>1, <2>2, <2>3
<1>3. /\ \E known \in SUBSET Ids : attempts' \in [known -> Attempt]
      /\ \A i \in Ids : Offered(i)' <=> IF i = id THEN FALSE ELSE Offered(i)
      /\ \A i \in Ids : Accepted(i)' <=> IF i = id THEN confirmed[id] > 0 ELSE Accepted(i)
  BY <1>0, <1>1, <1>2, RemembersOne DEF IInv
<1>4. /\ sender' \in [at : {"look"}, left : SUBSET Ids]
      /\ sender'.at = "look" /\ sender'.left = sender.left
  <2>1. sender' = [at |-> "look", left |-> sender.left \ {id}]
    BY <1>0 DEF DeliveryFails, ClearRefused, Done
  <2>2. sender.left \ {id} = sender.left /\ sender.left \subseteq Ids
    BY <1>0, <1>1, HandTyped DEF IInv
  <2> QED BY <2>1, <2>2
<1>5. \A i \in Ids : /\ i # id => (InHand(i)' <=> InHand(i))
                     /\ ~InHand(id)' /\ (Past(i) => Past(i)')
                     /\ (Settling(i) => i = id)
  <2>1. \A i \in Ids : Settling(i) => i = id
    BY <1>0 DEF Settling
  <2>2. \A i \in Ids : i # id => (InHand(i)' <=> InHand(i))
    BY <1>0, <1>1, <1>4 DEF InHand
  <2>3. ~InHand(id)'
    BY <1>0, <1>1, <1>4 DEF InHand
  <2>4. \A i \in Ids : Current(i)' <=> Current(i)
    BY <1>0, <1>1 DEF Current
  <2> QED BY <1>1, <2>1, <2>2, <2>3, <2>4 DEF Past
<1>6. TypeOK' BY <1>1, <1>3, <1>4 DEF IInv, TypeOK
<1>7. Grounds' BY <1>1, <1>3, <1>4 DEF IInv, Grounds
<1>8. Stamps' BY <1>1, <1>4, <1>5 DEF IInv, Stamps
<1>9. Entries'
  <2>1. \A e \in outbox' : Offered(e.id)' \/ Past(e.id)'
    BY <1>0, <1>1, <1>3, <1>5 DEF IInv, Entries, TypeOK, Entry
  <2> QED BY <1>1, <1>4, <2>1 DEF IInv, Entries, Current
<1>10. Hand' BY <1>4 DEF Hand
<1>11. Once' BY <1>1, <1>3, <1>4, <1>5 DEF IInv, Once, Acked, Held
<1> QED BY <1>6, <1>7, <1>8, <1>9, <1>10, <1>11 DEF IInv

LEMMA ClearsInv == ASSUME IInv, Clears PROVE IInv'
<1> USE BotsAssumption, BoundsAssumption
<1>0. PICK id \in Ids : id = sender.id
  BY HandTyped DEF DeliveryFails, ClearRefused, Clears, IInv
<1>1. /\ id \notin sender.left /\ \A e \in outbox : e.id # id
      /\ sender.at = "clear" /\ InHand(id)
      /\ UNCHANGED <<raised, aged, desktop, outbox, after, seen, crashes, confirmed>>
  BY <1>0 DEF Clears, IInv, Hand, InHand
<1>2. /\ sender' \in [at : {"look"}, left : SUBSET Ids]
      /\ sender'.at = "look" /\ sender'.left = sender.left
  BY <1>0, <1>1, HandTyped DEF Clears, Done, IInv
<1>3. /\ marker' \in [Bots -> 0..MaxRaises]
      /\ \A b \in Bots : marker'[b] = marker[b] \/ marker'[b] = 0
      /\ ~Current(id)'
      /\ \A i \in Ids : Current(i)' => Current(i)
  <2>1. id[1] \in Bots /\ id[2] # 0 /\ \A i \in Ids : i[1] \in Bots /\ i[2] # 0
    BY <1>0, <1>1 DEF Ids
  <2>2. marker' = [marker EXCEPT ![id[1]] = IF @ = id[2] THEN 0 ELSE @]
    BY <1>0 DEF Clears
  <2>3. marker \in [Bots -> 0..MaxRaises]
    BY <1>0 DEF IInv, TypeOK
  <2>4. marker'[id[1]] # id[2] /\ \A b \in Bots : marker'[b] = marker[b] \/ marker'[b] = 0
    BY <1>0, <2>1, <2>2, <2>3
  <2>5. \A i \in Ids : Current(i)' => Current(i)
    BY <1>0, <2>1, <2>4 DEF Current
  <2>6. marker' \in [Bots -> 0..MaxRaises]
    <3>3. MaxRaises \in Nat
      BY BoundsAssumption
    <3>4. 0 \in 0..MaxRaises
      BY <3>3
    <3>1. 0 \in 0..MaxRaises /\ marker[id[1]] \in 0..MaxRaises
      BY <2>1, <2>3, <3>4
    <3>2. PICK v \in 0..MaxRaises : marker' = [marker EXCEPT ![id[1]] = v]
      BY <2>2, <3>1
    <3> QED BY <2>3, <3>2
  <2> QED BY <2>4, <2>5, <2>6 DEF Current
<1>4. PICK known \in SUBSET Ids : attempts \in [known -> Attempt]
  BY <1>0 DEF IInv, TypeOK
<1>5. attempts' \in [known \ {id} -> Attempt] /\ \A i \in known \ {id} : attempts'[i] = attempts[i]
  BY <1>0, <1>4 DEF Clears
<1>6. \A i \in Ids : /\ Offered(i)' <=> i # id /\ Offered(i)
                     /\ Accepted(i)' <=> i # id /\ Accepted(i)
  BY <1>0, <1>4, <1>5 DEF Offered, Accepted
<1>7. \A i \in Ids : /\ i # id => (InHand(i)' <=> InHand(i))
                     /\ (Past(i) => Past(i)') /\ Past(id)'
                     /\ (Settling(i) => i = id)
  <2>1. \A i \in Ids : Settling(i) => i = id
    BY <1>0 DEF Settling
  <2>2. \A i \in Ids : i # id => (InHand(i)' <=> InHand(i))
    BY <1>0, <1>1, <1>2 DEF InHand
  <2>3. ~InHand(id)'
    BY <1>0, <1>1, <1>2 DEF InHand
  <2> QED BY <1>1, <1>3, <2>1, <2>2, <2>3 DEF Past
<1>8. TypeOK' BY <1>1, <1>2, <1>3, <1>5 DEF IInv, TypeOK
<1>9. Grounds' BY <1>1, <1>2, <1>6 DEF IInv, Grounds
<1>10. Stamps'
  <2>1. \A b \in Bots : marker'[b] <= raised[b]
    BY <1>0, <1>3 DEF IInv, Stamps, TypeOK
  <2> QED BY <1>1, <1>7, <2>1 DEF IInv, Stamps
<1>11. Entries'
  <2>1. \A e \in outbox : e.id \in Ids /\ (Offered(e.id)' \/ Past(e.id)') /\ (Current(e.id)' => Current(e.id))
    BY <1>0, <1>1, <1>3, <1>6, <1>7 DEF IInv, Entries, TypeOK, Entry
  <2> QED BY <1>1, <1>2, <2>1 DEF IInv, Entries
<1>12. Hand' BY <1>2 DEF Hand
<1>13. Once'
  <2>1. \A i \in Ids : Acked(i)' <=> Acked(i)
    BY <1>0, <1>1 DEF Acked, Held
  <2>2. \A i \in Ids : confirmed[i] > 0 => Accepted(i)' \/ (Offered(i)' /\ Acked(i)') \/ Past(i)'
    BY <1>0, <1>6, <1>7, <2>1 DEF IInv, Once
  <2> QED BY <1>1, <2>2 DEF IInv, Once
<1> QED BY <1>8, <1>9, <1>10, <1>11, <1>12, <1>13 DEF IInv

\* A death forgets everything but the markers, and what it accepted is counted anew.
LEMMA LifeInv == ASSUME IInv, Crash \/ Boot PROVE IInv'
<1> USE BotsAssumption, BoundsAssumption DEF remembered
<1>1. CASE Crash
  <2>1. /\ attempts' \in [{} -> Attempt] /\ outbox' = {} /\ sender'.at = "dead"
        /\ \A i \in Ids : confirmed'[i] = 0 /\ ~InHand(i)' /\ ~Accepted(i)'
    BY <1>1 DEF Crash, NoAttempts, Dead, InHand, Accepted
  <2>2. TypeOK'
    <3>1. confirmed' \in [Ids -> Nat] /\ crashes' \in 0..MaxCrashes
      BY <1>1 DEF Crash, IInv, TypeOK
    <3>2. sender' \in {Rest, Dead} /\ after' = 0 /\ seen' = {}
      BY <1>1 DEF Crash
    <3>3. \E known \in SUBSET Ids : attempts' \in [known -> Attempt]
      BY <2>1
    <3>4. UNCHANGED <<marker, raised, aged, desktop>>
      BY <1>1 DEF Crash
    <3> QED BY <2>1, <3>1, <3>2, <3>3, <3>4 DEF IInv, TypeOK
  <2>3. Grounds' BY <2>1 DEF Grounds
  <2>4. Stamps' BY <1>1, <2>1 DEF Crash, IInv, Stamps
  <2>5. Entries' /\ Hand' /\ Once' BY <2>1 DEF Entries, Hand, Once
  <2> QED BY <2>2, <2>3, <2>4, <2>5 DEF IInv
<1>2. CASE Boot
  <2>1. sender'.at = "rest" /\ sender.at = "dead" /\ \A id \in Ids : ~InHand(id) /\ ~InHand(id)'
    BY <1>2 DEF Boot, InHand, Rest, Dead
  <2>2. TypeOK' BY <1>2 DEF IInv, Boot, TypeOK
  <2>3. Grounds' BY <1>2, <2>1 DEF IInv, Boot, Grounds, Accepted, Offered
  <2>4. Stamps' BY <1>2, <2>1 DEF IInv, Boot, Stamps
  <2>5. Entries' BY <1>2, <2>1 DEF IInv, Boot, Entries, Offered, Past, Current, TypeOK, Entry
  <2>6. Hand' BY <2>1 DEF Hand
  <2>7. Once' BY <1>2, <2>1 DEF IInv, Boot, Once, Settling, Accepted, Offered, Acked, Held, Past, Current
  <2> QED BY <2>2, <2>3, <2>4, <2>5, <2>6, <2>7 DEF IInv
<1> QED BY <1>1, <1>2

\* Every step keeps the invariant.
LEMMA NextInv == IInv /\ [Next]_vars => IInv'
<1> SUFFICES ASSUME IInv, [Next]_vars PROVE IInv'
  OBVIOUS
<1>1. CASE UNCHANGED vars
  BY <1>1 DEF vars, remembered, IInv, TypeOK, Grounds, Stamps, Entries, Hand, Once, Settling,
              Accepted, Offered, Acked, Held, Past, InHand, Current
<1> QED
  BY <1>1, RaiseInv, WeekInv, DueInv, DeadlineInv, AckInv, LookInv, LookEndsInv, HandleInv,
     DeliveredInv, LaterInv, ClearsInv, LifeInv DEF Next, Sends

LEMMA Invariance == Spec => []IInv
  BY InitInv, NextInv, PTL DEF Spec

\* Every variable of the notices keeps its type.
THEOREM NoticesTyped == Spec => []TypeOK
<1>1. IInv => TypeOK
  BY DEF IInv
<1> QED BY Invariance, <1>1, PTL

\* A notice accepted by its server or launcher is not delivered again by the same process
\* (sender.rs, attempt; outbox.rs, take).
THEOREM DeliveredOnce == Spec => []AcceptedOnce
<1>1. IInv => AcceptedOnce
  BY DEF IInv, Once, AcceptedOnce
<1> QED BY Invariance, <1>1, PTL

\* A marker leaves only when its own notice was accepted, is a week old or cannot be sent
\* (notice.rs, clear).
THEOREM MarkersKept == Spec => NoNoticeLost
<1>1. ASSUME IInv, Next, NEW b \in Bots, marker[b] # 0, marker'[b] = 0
      PROVE  \/ confirmed[<<b, marker[b]>>] > 0 \/ <<b, marker[b]>> \in aged
             \/ sender.at = "clear" /\ sender.id = <<b, marker[b]>> /\ sender.why = "unsendable"
  <2>1. CASE Clears
    <3>5. sender.at = "clear" /\ marker' = [marker EXCEPT ![sender.id[1]] = IF @ = sender.id[2] THEN 0 ELSE @]
      BY <2>1 DEF Clears
    <3>1. sender.id \in Ids
      BY <1>1, <3>5, HandTyped DEF IInv
    <3>2. sender.id[1] = b /\ sender.id[2] = marker[b]
      BY <1>1, <3>1, <3>5 DEF IInv, TypeOK
    <3>3. sender.id = <<b, marker[b]>>
      BY <3>1, <3>2 DEF Ids
    <3>4. sender.why \in Whys
      BY <1>1, <3>5, HandTyped DEF IInv
    <3> QED BY <1>1, <3>3, <3>4, <3>5 DEF Whys, IInv, Grounds
  <2>2. CASE \E c \in Bots : Raise(c)
    BY <1>1, <2>2, BoundsAssumption DEF Raise, IInv, TypeOK
  <2>3. CASE UNCHANGED marker
    BY <1>1, <2>3
  <2> QED
    BY <1>1, <2>1, <2>2, <2>3 DEF Next, Sends, WeekPasses, Due, DeadlinePasses, Ack, Look, LookEnds,
       Handle, Delivered, DeliveryFails, ClearRefused, Crash, Boot
<1>2. IInv /\ [Next]_vars =>
        [\A b \in Bots : marker[b] # 0 /\ marker'[b] = 0 =>
           LET id == <<b, marker[b]>> IN
           \/ confirmed[id] > 0 \/ id \in aged
           \/ sender.at = "clear" /\ sender.id = id /\ sender.why = "unsendable"]_vars
  BY <1>1
<1> QED BY Invariance, <1>2, PTL DEF Spec, NoNoticeLost
=============================================================================
