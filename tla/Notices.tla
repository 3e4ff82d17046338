------------------------------- MODULE Notices -------------------------------
(***************************************************************************)
(* The notices a bot owes its owner (engine/notice.rs) and the sender that *)
(* delivers them (mail/sender.rs), by SMTP or, on the desktop, through the *)
(* launcher's outbox (mail/outbox.rs).  The markers on the bots' rows are  *)
(* the queue: the engine raises and overwrites them at any time, the       *)
(* sender clears one only once its notice is accepted, unsendable or a     *)
(* week old, and everything else it knows dies with the process.           *)
(*                                                                         *)
(* One marker to a bot.  A wait is over when Due says so; the count of     *)
(* tries, which only sets its length, is left out.                         *)
(***************************************************************************)
EXTENDS Naturals, FiniteSets

CONSTANTS
  Bots,        \* the bots' ids, positive numbers
  Theirs,      \* the bots that are not the desktop account's
  Batch,       \* bots whose markers one look reads
  Capacity,    \* CAP: the most notices the outbox holds
  MaxRaises,   \* bound on the raises of one bot's marker
  MaxCrashes   \* bound on the process's deaths

ASSUME BotsAssumption == Bots \subseteq Nat \ {0} /\ IsFiniteSet(Bots) /\ Theirs \subseteq Bots
ASSUME BoundsAssumption ==
  Batch \in Nat \ {0} /\ Capacity \in Nat /\ MaxRaises \in Nat /\ MaxCrashes \in Nat

VARIABLES
  marker,      \* the stamp of each bot's marker, 0: none
  raised,      \* how often each bot's marker was raised: the last stamp
  aged,        \* the notices raised seven days ago
  desktop,     \* the launcher delivers, not a mail server
  attempts,    \* what the sender remembers of the notices it tried
  outbox,      \* the launcher's entries
  sender,      \* where the sender is: resting, in a look, delivering, clearing, dead
  after, seen, \* the bot the next look starts above; the ids of this round of looks
  crashes,     \* bounded counter
  confirmed    \* history: accepted deliveries and acks in time, in this life

remembered == <<attempts, outbox, after, seen>>
vars == <<marker, raised, aged, desktop, remembered, sender, crashes, confirmed>>

\* Pending::id: the marker and its stamp.
Ids == Bots \X (1..MaxRaises)
Attempt == [accepted : BOOLEAN, offered : BOOLEAN, due : BOOLEAN]
Entry == [id : Ids, acked : BOOLEAN, late : BOOLEAN]
Whys == {"accepted", "expired", "unsendable"}
Rest == [at |-> "rest"]
Dead == [at |-> "dead"]

TypeOK ==
  /\ marker \in [Bots -> 0..MaxRaises] /\ raised \in [Bots -> 0..MaxRaises]
  /\ aged \subseteq Ids /\ desktop \in BOOLEAN
  /\ \E known \in SUBSET Ids : attempts \in [known -> Attempt]
  /\ outbox \subseteq Entry
  /\ sender \in {Rest, Dead} \cup [at : {"look"}, left : SUBSET Ids]
                \cup [at : {"deliver"}, id : Ids, left : SUBSET Ids]
                \cup [at : {"clear"}, id : Ids, why : Whys, left : SUBSET Ids]
  /\ after \in Bots \cup {0} /\ seen \subseteq Ids
  /\ crashes \in 0..MaxCrashes /\ confirmed \in [Ids -> Nat]

NoAttempts == [id \in {} |-> [accepted |-> FALSE, offered |-> FALSE, due |-> TRUE]]

Init ==
  /\ marker = [b \in Bots |-> 0] /\ raised = [b \in Bots |-> 0]
  /\ aged = {} /\ desktop \in BOOLEAN
  /\ attempts = NoAttempts /\ outbox = {} /\ after = 0 /\ seen = {}
  /\ sender = Rest /\ crashes = 0
  /\ confirmed = [id \in Ids |-> 0]

-----------------------------------------------------------------------------
(* The engine, the clock and the launcher. *)

\* A marker is written over the one there: the notice is about the last time.
Raise(b) ==
  /\ raised[b] < MaxRaises
  /\ raised' = [raised EXCEPT ![b] = @ + 1]
  /\ marker' = [marker EXCEPT ![b] = raised[b] + 1]
  /\ UNCHANGED <<aged, desktop, remembered, sender, crashes, confirmed>>

WeekPasses(b) ==
  /\ marker[b] # 0 /\ <<b, marker[b]>> \notin aged
  /\ aged' = aged \cup {<<b, s>> : s \in 1..marker[b]}
  /\ UNCHANGED <<marker, raised, desktop, remembered, sender, crashes, confirmed>>

Due(id) ==
  /\ id \in DOMAIN attempts /\ ~attempts[id].due /\ ~attempts[id].offered
  /\ attempts' = [attempts EXCEPT ![id].due = TRUE]
  /\ UNCHANGED <<marker, raised, aged, desktop, outbox, after, seen, sender, crashes, confirmed>>

DeadlinePasses(e) ==
  /\ e \in outbox /\ ~e.acked /\ ~e.late
  /\ outbox' = (outbox \ {e}) \cup {[e EXCEPT !.late = TRUE]}
  /\ UNCHANGED <<marker, raised, aged, desktop, attempts, after, seen, sender, crashes, confirmed>>

\* The launcher acks what it showed; after the deadline it is ignored.
Ack(e) ==
  /\ e \in outbox /\ ~e.acked /\ ~e.late
  /\ outbox' = (outbox \ {e}) \cup {[e EXCEPT !.acked = TRUE]}
  /\ confirmed' = [confirmed EXCEPT ![e.id] = @ + 1]
  /\ UNCHANGED <<marker, raised, aged, desktop, attempts, after, seen, sender, crashes>>

-----------------------------------------------------------------------------
(* The sender's looks. *)

Marked == {b \in Bots : b > after /\ marker[b] # 0}
\* The first Batch bots with a marker, and the bot the next look starts above: 0 once
\* the last has been read.
Reads(bots, next) ==
  /\ \A b \in bots : \A c \in Marked : c <= b => c \in bots
  /\ Cardinality(bots) <= Batch
  /\ IF Cardinality(bots) < Batch THEN bots = Marked /\ next = 0
     ELSE next \in bots /\ \A b \in bots : b <= next

\* An attempt whose marker is gone is never asked for again, and goes (in the code
\* within the hour).
KeepsCurrent == attempts' = [id \in {i \in DOMAIN attempts : marker[i[1]] = i[2]} |-> attempts[id]]

\* Mutant: the outbox keeps what the last look saw, not the round.
LookKeepsBatch ==
  /\ sender = Rest
  /\ \E bots \in SUBSET Marked, next \in Bots \cup {0} :
       LET ids == {<<b, marker[b]>> : b \in bots} IN
       /\ Reads(bots, next)
       /\ sender' = [at |-> "look", left |-> ids]
       /\ after' = next /\ seen' = {}
       /\ outbox' = IF next = 0 THEN {e \in outbox : e.id \in ids} ELSE outbox
  /\ KeepsCurrent
  /\ UNCHANGED <<marker, raised, aged, desktop, crashes, confirmed>>

\* When the round ends, entries of markers it did not see go from the outbox.
Look ==
  /\ sender = Rest
  /\ \E bots \in SUBSET Marked, next \in Bots \cup {0} :
       LET ids == {<<b, marker[b]>> : b \in bots} IN
       /\ Reads(bots, next)
       /\ sender' = [at |-> "look", left |-> ids]
       /\ after' = next
       /\ seen' = IF next = 0 THEN {} ELSE seen \cup ids
       /\ outbox' = IF next = 0 THEN {e \in outbox : e.id \in seen \cup ids} ELSE outbox
  /\ KeepsCurrent
  /\ UNCHANGED <<marker, raised, aged, desktop, crashes, confirmed>>

LookEnds ==
  /\ sender.at = "look" /\ sender.left = {}
  /\ sender' = Rest
  /\ UNCHANGED <<marker, raised, aged, desktop, remembered, crashes, confirmed>>

Done(id) == [at |-> "look", left |-> sender.left \ {id}]
Clearing(id, why) == [at |-> "clear", id |-> id, why |-> why, left |-> sender.left \ {id}]

Remembers(id, attempt) ==
  attempts' = [i \in DOMAIN attempts \cup {id} |-> IF i = id THEN attempt ELSE attempts[i]]
\* Tried again later, by the same schedule whatever failed.
Later(id, accepted) == Remembers(id, [accepted |-> accepted, offered |-> FALSE, due |-> FALSE])

Offered(id) == id \in DOMAIN attempts /\ attempts[id].offered
Accepted(id) == id \in DOMAIN attempts /\ attempts[id].accepted
Held(id) == {e \in outbox : e.id = id}
Acked(id) == \E e \in Held(id) : e.acked
Waits(id) == \E e \in Held(id) : ~e.acked /\ ~e.late

\* take: an offered notice is settled before its wait is looked at.
TakeAcked(id) ==
  /\ Offered(id) /\ Acked(id)
  /\ outbox' = outbox \ Held(id)
  /\ Remembers(id, [accepted |-> TRUE, offered |-> FALSE, due |-> TRUE])
  /\ sender' = Clearing(id, "accepted")

TakeWaiting(id) ==
  /\ Offered(id) /\ Waits(id)
  /\ sender' = Done(id)
  /\ UNCHANGED <<attempts, outbox>>

TakeGone(id) ==
  /\ Offered(id) /\ ~Acked(id) /\ ~Waits(id)
  /\ outbox' = outbox \ Held(id)
  /\ Later(id, FALSE)
  /\ sender' = Done(id)

NotDue(id) ==
  /\ ~Offered(id) /\ id \in DOMAIN attempts /\ ~attempts[id].due
  /\ sender' = Done(id)
  /\ UNCHANGED <<attempts, outbox>>

Tries(id) == ~Offered(id) /\ (id \in DOMAIN attempts => attempts[id].due)

\* Only the clear is still owed, or the notice is too old to send.
ClearsOnly(id) ==
  /\ Accepted(id)
  /\ sender' = Clearing(id, "accepted")
  /\ UNCHANGED <<attempts, outbox>>

GivesUp(id) ==
  /\ ~Accepted(id) /\ id \in aged
  /\ outbox' = outbox \ Held(id)
  /\ sender' = Clearing(id, "expired")
  /\ UNCHANGED attempts

Fresh(id) == ~Accepted(id) /\ id \notin aged

\* It cannot be built for now, nothing is configured, or it is another account's.
CannotPrepare(id) ==
  /\ Later(id, FALSE)
  /\ sender' = Done(id)
  /\ UNCHANGED outbox

Unsendable(id) ==
  /\ ~desktop \/ id[1] \notin Theirs
  /\ sender' = Clearing(id, "unsendable")
  /\ UNCHANGED <<attempts, outbox>>

\* offer: the late entries go; an id held keeps its entry; a full outbox refuses.
Offer(id) ==
  /\ desktop /\ id[1] \notin Theirs
  /\ LET kept == {e \in outbox : e.acked \/ ~e.late}
         held == \E e \in kept : e.id = id
         room == Cardinality(kept) < Capacity
     IN /\ outbox' = IF held \/ ~room THEN kept
                     ELSE kept \cup {[id |-> id, acked |-> FALSE, late |-> FALSE]}
        /\ Remembers(id, [accepted |-> FALSE, offered |-> held \/ room, due |-> FALSE])
  /\ sender' = Done(id)

StartsDelivery(id) ==
  /\ ~desktop
  /\ sender' = [at |-> "deliver", id |-> id, left |-> sender.left \ {id}]
  /\ UNCHANGED <<attempts, outbox>>

\* Mutant: what another account is owed is put off before its age is looked at.
HandleOwnersFirst(id) ==
  /\ sender.at = "look" /\ id \in sender.left
  /\ \/ TakeAcked(id) \/ TakeWaiting(id) \/ TakeGone(id) \/ NotDue(id)
     \/ /\ Tries(id)
        /\ IF desktop /\ id[1] \in Theirs THEN CannotPrepare(id)
           ELSE \/ ClearsOnly(id) \/ GivesUp(id)
                \/ Fresh(id) /\ (CannotPrepare(id) \/ Unsendable(id) \/ Offer(id) \/ StartsDelivery(id))
  /\ UNCHANGED <<marker, raised, aged, desktop, after, seen, crashes, confirmed>>

\* One marker of the look.
Handle(id) ==
  /\ sender.at = "look" /\ id \in sender.left
  /\ \/ TakeAcked(id) \/ TakeWaiting(id) \/ TakeGone(id) \/ NotDue(id)
     \/ /\ Tries(id)
        /\ \/ ClearsOnly(id) \/ GivesUp(id)
           \/ Fresh(id) /\ (CannotPrepare(id) \/ Unsendable(id) \/ Offer(id) \/ StartsDelivery(id))
  /\ UNCHANGED <<marker, raised, aged, desktop, after, seen, crashes, confirmed>>

\* The server took it, or it failed (the server may have it all the same).
Delivered ==
  /\ sender.at = "deliver"
  /\ confirmed' = [confirmed EXCEPT ![sender.id] = @ + 1]
  /\ sender' = Clearing(sender.id, "accepted")
  /\ UNCHANGED <<marker, raised, aged, desktop, remembered, crashes>>

DeliveryFails ==
  /\ sender.at = "deliver"
  /\ Later(sender.id, FALSE)
  /\ sender' = Done(sender.id)
  /\ UNCHANGED <<marker, raised, aged, desktop, outbox, after, seen, crashes, confirmed>>

\* Mutant: the marker goes whatever its stamp.
ClearsAny ==
  /\ sender.at = "clear"
  /\ marker' = [marker EXCEPT ![sender.id[1]] = 0]
  /\ attempts' = [i \in DOMAIN attempts \ {sender.id} |-> attempts[i]]
  /\ sender' = Done(sender.id)
  /\ UNCHANGED <<raised, aged, desktop, outbox, after, seen, crashes, confirmed>>

\* clear: the marker goes only if it is still the one that was read.
Clears ==
  /\ sender.at = "clear"
  /\ marker' = [marker EXCEPT ![sender.id[1]] = IF @ = sender.id[2] THEN 0 ELSE @]
  /\ attempts' = [i \in DOMAIN attempts \ {sender.id} |-> attempts[i]]
  /\ sender' = Done(sender.id)
  /\ UNCHANGED <<raised, aged, desktop, outbox, after, seen, crashes, confirmed>>

\* Busy, or refused by the eligibility guard; what was accepted is remembered.
ClearRefused ==
  /\ sender.at = "clear"
  /\ Later(sender.id, sender.why = "accepted")
  /\ sender' = Done(sender.id)
  /\ UNCHANGED <<marker, raised, aged, desktop, outbox, after, seen, crashes, confirmed>>

-----------------------------------------------------------------------------
(* A stop, or a death, drops whatever is in hand; the markers stay. *)

Crash ==
  /\ sender # Dead /\ crashes < MaxCrashes
  /\ crashes' = crashes + 1
  /\ sender' = Dead
  /\ attempts' = NoAttempts /\ outbox' = {} /\ after' = 0 /\ seen' = {}
  /\ confirmed' = [id \in Ids |-> 0]
  /\ UNCHANGED <<marker, raised, aged, desktop>>

Boot ==
  /\ sender = Dead
  /\ sender' = Rest
  /\ UNCHANGED <<marker, raised, aged, desktop, remembered, crashes, confirmed>>

Sends == Look \/ LookEnds \/ (\E id \in Ids : Handle(id)) \/ Delivered \/ DeliveryFails \/ Boot

Next ==
  \/ \E b \in Bots : Raise(b) \/ WeekPasses(b)
  \/ \E id \in Ids : Due(id)
  \/ \E e \in outbox : DeadlinePasses(e) \/ Ack(e)
  \/ Sends \/ Clears \/ ClearRefused \/ Crash

Spec == Init /\ [][Next]_vars

\* The sender goes on, the clock too, and no clear is refused for ever: the guard's
\* reason to refuse is not a marker's, and goes when its owner resolves it.
FairSpec ==
  /\ Spec
  /\ WF_vars(Sends \/ Clears \/ ClearRefused) /\ SF_vars(Clears)
  /\ \A b \in Bots : WF_vars(WeekPasses(b))
  /\ \A id \in Ids : WF_vars(Due(id))
  /\ WF_vars(\E e \in outbox : DeadlinePasses(e))

-----------------------------------------------------------------------------
(* A notice its server or launcher accepted is not delivered a second time by *)
(* the same process, whatever clear is refused and however acks and deadlines *)
(* cross.                                                                     *)
AcceptedOnce == \A id \in Ids : confirmed[id] <= 1

(* A marker goes only when its own notice was accepted, is a week old or cannot *)
(* be sent; one raised again while its predecessor was sent stays.              *)
NoNoticeLost ==
  [][\A b \in Bots : marker[b] # 0 /\ marker'[b] = 0 =>
       LET id == <<b, marker[b]>> IN
       \/ confirmed[id] > 0 \/ id \in aged
       \/ sender.at = "clear" /\ sender.id = id /\ sender.why = "unsendable"]_vars

(* Every marker leaves the row: delivered, given up after a week, or replaced. *)
NoticesLeave == \A b \in Bots : \A s \in 1..MaxRaises : marker[b] = s ~> marker[b] # s
=============================================================================
