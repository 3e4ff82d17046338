------------------------------ MODULE Reversal ------------------------------
(***************************************************************************)
(* The reversal of one bot (engine/reversal.rs) and the settlement of the  *)
(* orders it captures (engine/polling.rs, engine/reconcile.rs).  The web   *)
(* flips the direction and leaves a cancel entry for every waiting order,  *)
(* and a reserve for every buy; the engine cancels the orders, polls them  *)
(* and returns what a stopped buy left unspent to the bot's carry.  The    *)
(* engine awaits the venue between its reads and its writes; the web, the  *)
(* venue, the ledger's import and a crash interleave there.                *)
(*                                                                         *)
(* An order of KuCoin with a route record ("hf") is settled only through   *)
(* the gate `admit`; KuCoin's other orders ("classic") and the orders of   *)
(* the other venues ("plain") take each answer as it comes.                *)
(***************************************************************************)
EXTENDS Naturals, Sequences

CONSTANTS
  Orders,      \* the orders the bot may place
  Size,        \* what each order asks for, in units of its fill
  MaxFlips,    \* bound on the reversals
  MaxCrashes,  \* bound on the engine's deaths
  None         \* absent

ASSUME SizeAssumption == Size \in Nat \ {0}
ASSUME BoundsAssumption == MaxFlips \in Nat /\ MaxCrashes \in Nat

VARIABLES
  venue,       \* each order at the venue: status, dealt, and who ended it
  requests,    \* cancels on their way: the order, and whether its reserve was registered
  row,         \* each order's row: status and dealt
  obligation,  \* the hf rows whose state could not be told (rust_kucoin_unresolved)
  receipt,     \* the facts each hf row settled on (rust_kucoin_evidence)
  known,       \* what the imported ledger holds of each hf order
  kucoin,      \* the bot trades on KuCoin
  kind,        \* "hf", "classic" or "plain", and "none" before it is placed
  side,        \* "buy" or "sell"
  selling,     \* the bot's direction
  cancels,     \* each order's cancel entry, or None (rust_reversal_cancels)
  pending,     \* the buys whose reserve is owed (flip_reserve_pending)
  polls,       \* the follow-up polls in the engine's memory
  engine,      \* what the engine is in the middle of
  flips, crashes, \* the bounded counters
  credits      \* history: what each buy's settlement returned to the carry

onVenue == <<venue, requests>>
books == <<row, obligation, receipt>>
fixed == <<kucoin, kind, side>>
vars == <<venue, requests, row, obligation, receipt, known, kucoin, kind, side, selling,
          cancels, pending, polls, engine, flips, crashes, credits>>

Statuses == {"none", "open", "closed", "cancelled"}
Facts == [status : Statuses \cup {"abandoned"}, dealt : 0..Size]
Entry == [registered : BOOLEAN, sent : BOOLEAN]
ASSUME NoneAssumption == None \notin Facts \cup Entry

Ended(f) == f.status \in {"closed", "cancelled"}

Idle == [pc |-> "idle"]
Down == [pc |-> "down"]
Answers == [status : {"open", "closed", "cancelled"}, dealt : 0..Size]
             \cup {[status |-> s, dealt |-> 0] : s \in {"unknown", "unread", "missing"}}
Engines ==
  {Idle, Down}
    \cup [pc : {"sending"}, order : Orders, was : BOOLEAN]
    \cup [pc : {"replied"}, order : Orders, was : BOOLEAN, reply : {"ok", "rejected", "error"}]
    \cup [pc : {"reread"}, order : Orders, was : BOOLEAN, reply : {"rejected", "error"}, answer : Answers]
    \cup [pc : {"polled"}, order : Orders, answer : Answers]

TypeOK ==
  /\ venue \in [Orders -> [status : Statuses, dealt : 0..Size, by : {"none", "venue", "cancel", "reserve"}]]
  /\ requests \subseteq Orders \X BOOLEAN
  /\ row \in [Orders -> Facts]
  /\ obligation \subseteq Orders
  /\ receipt \in [Orders -> Facts \cup {None}]
  /\ known \in [Orders -> 0..Size]
  /\ kucoin \in BOOLEAN
  /\ kind \in [Orders -> {"none", "hf", "classic", "plain"}]
  /\ side \in [Orders -> {"none", "buy", "sell"}]
  /\ selling \in BOOLEAN
  /\ cancels \in [Orders -> Entry \cup {None}]
  /\ pending \subseteq Orders
  /\ polls \subseteq Orders
  /\ engine \in Engines
  /\ flips \in 0..MaxFlips
  /\ crashes \in 0..MaxCrashes
  /\ credits \in [Orders -> Seq(0..Size)]

Waiting == {o \in Orders : row[o].status = "open"}
Barred == \E o \in Orders : cancels[o] # None

Init ==
  /\ venue = [o \in Orders |-> [status |-> "none", dealt |-> 0, by |-> "none"]]
  /\ requests = {}
  /\ row = [o \in Orders |-> [status |-> "none", dealt |-> 0]]
  /\ obligation = {}
  /\ receipt = [o \in Orders |-> None]
  /\ known = [o \in Orders |-> 0]
  /\ kucoin \in BOOLEAN
  /\ kind = [o \in Orders |-> "none"]
  /\ side = [o \in Orders |-> "none"]
  /\ selling = FALSE
  /\ cancels = [o \in Orders |-> None]
  /\ pending = {}
  /\ polls = {}
  /\ engine = Idle
  /\ flips = 0
  /\ crashes = 0
  /\ credits = [o \in Orders |-> <<>>]

-----------------------------------------------------------------------------
(* The venue and the ledger's import. *)

VenueFills(o) ==
  /\ venue[o].status = "open"
  /\ LET dealt == venue[o].dealt + 1
     IN venue' = [venue EXCEPT ![o].dealt = dealt,
                               ![o].status = IF dealt = Size THEN "closed" ELSE "open"]
  /\ UNCHANGED <<requests, books, known, fixed, selling, cancels, pending, polls, engine, flips, crashes, credits>>

CancelledBy(o, who) == [venue EXCEPT ![o].status = "cancelled", ![o].by = who]
By(registered) == IF registered THEN "reserve" ELSE "cancel"

(* The venue, or the owner there, ends an order nobody here asked to end. *)
VenueEnds(o) ==
  /\ venue[o].status = "open"
  /\ venue' = CancelledBy(o, "venue")
  /\ UNCHANGED <<requests, books, known, fixed, selling, cancels, pending, polls, engine, flips, crashes, credits>>

(* A cancel that was still on its way arrives. *)
CancelArrives(o, registered) ==
  /\ <<o, registered>> \in requests
  /\ requests' = requests \ {<<o, registered>>}
  /\ venue' = IF venue[o].status = "open" THEN CancelledBy(o, By(registered)) ELSE venue
  /\ UNCHANGED <<books, known, fixed, selling, cancels, pending, polls, engine, flips, crashes, credits>>

(* known_fills: the ledger's import reads the order's fills. *)
LedgerImports(o) ==
  /\ kind[o] = "hf"
  /\ known[o] < venue[o].dealt
  /\ known' = [known EXCEPT ![o] = venue[o].dealt]
  /\ UNCHANGED <<onVenue, books, fixed, selling, cancels, pending, polls, engine, flips, crashes, credits>>

(* What a read of the order may answer.  A final state is exact; an hf read *)
(* may lag behind the venue or tell nothing, and a venue that names the     *)
(* orders it no longer holds forgets one that ended without a fill.         *)
AnswersFor(o) ==
  {[status |-> s, dealt |-> 0] : s \in {"unknown", "unread"}}
    \cup (IF kind[o] = "hf"
          THEN {[status |-> "open", dealt |-> d] : d \in 0..venue[o].dealt}
          ELSE {})
    \cup (IF kind[o] = "plain" /\ Ended(venue[o]) /\ venue[o].dealt = 0
          THEN {[status |-> "missing", dealt |-> 0]}
          ELSE {})
    \cup {[status |-> venue[o].status, dealt |-> venue[o].dealt]}

-----------------------------------------------------------------------------
(* Placement and the web's reversal. *)

(* A tick places: not while a reversal's cancel is unrecorded (barred) nor  *)
(* while an hf row cannot be told (barrier).  Its row is followed up.       *)
Place(o, k) ==
  /\ engine = Idle
  /\ kind[o] = "none"
  /\ k \in (IF kucoin THEN {"hf", "classic"} ELSE {"plain"})
  /\ ~Barred
  /\ obligation = {}
  /\ kind' = [kind EXCEPT ![o] = k]
  /\ side' = [side EXCEPT ![o] = IF selling THEN "sell" ELSE "buy"]
  /\ venue' = [venue EXCEPT ![o].status = "open"]
  /\ row' = [row EXCEPT ![o].status = "open"]
  /\ polls' = polls \cup {o}
  /\ UNCHANGED <<requests, obligation, receipt, known, kucoin, selling, cancels, pending, engine, flips, crashes, credits>>

(* reverse, flip_in and record: one transaction of the web.  An order still *)
(* awaiting an earlier reversal's cancel keeps that entry; a buy is         *)
(* registered once.                                                         *)
Reverse ==
  LET captured == {o \in Waiting : cancels[o] = None}
      registers == {o \in captured : ~selling /\ side[o] = "buy" /\ o \notin pending}
  IN /\ engine # Down
     /\ flips < MaxFlips
     /\ flips' = flips + 1
     /\ selling' = ~selling
     /\ cancels' = [o \in Orders |->
                      IF o \in captured
                      THEN [registered |-> o \in registers, sent |-> FALSE]
                      ELSE cancels[o]]
     /\ pending' = pending \cup registers
     /\ UNCHANGED <<onVenue, books, known, fixed, polls, engine, crashes, credits>>

-----------------------------------------------------------------------------
(* The settlement of a row. *)

(* reversal::settle, given the rows, the entries and the reserves as the    *)
(* caller's transaction leaves them: a final row returns its remainder, an  *)
(* abandoned one nothing; not before its cancel is recorded.                *)
Settles(o, rows, entries, owed) ==
  /\ o \in owed
  /\ entries[o] = None
  /\ Ended(rows[o]) \/ rows[o].status = "abandoned"

\* Mutant: the reserve is credited and its place in the list left to a later write.
SettleKeepsReserve(o, rows, entries, owed) ==
  /\ pending' = owed
  /\ credits' = IF Settles(o, rows, entries, owed) /\ Ended(rows[o])
                THEN [credits EXCEPT ![o] = Append(@, Size - rows[o].dealt)]
                ELSE credits

Settle(o, rows, entries, owed) ==
  LET due == Settles(o, rows, entries, owed)
  IN /\ pending' = IF due THEN owed \ {o} ELSE owed
     /\ credits' = IF due /\ Ended(rows[o])
                   THEN [credits EXCEPT ![o] = Append(@, Size - rows[o].dealt)]
                   ELSE credits

(* reconcile::admit, and unread for an answer that came without a state: an *)
(* hf row owes unless the answer may be applied, or is its own settlement.  *)
Doubts(o, a) ==
  \/ a.status = "unread" /\ receipt[o] = None
  \/ a.status \in Statuses /\ a.dealt < known[o]
  \/ a.status # "unread" /\ receipt[o] # None /\ a # receipt[o]
  \/ a.status = "unknown"
  \/ a.status \in Statuses /\ a.dealt < row[o].dealt

\* Mutant: the gate without its look at the receipt.
AdmitsAgain(o, a) == a.status \in Statuses /\ a.dealt >= known[o] /\ a.dealt >= row[o].dealt
Admits(o, a) == receipt[o] = None /\ a.status # "unread" /\ ~Doubts(o, a)

(* apply_order_in for an hf row: its cancel entry ends with the proof of    *)
(* its final state, its obligation with any answer applied.                 *)
ApplyHf(o, a) ==
  LET rows == [row EXCEPT ![o] = a]
      entries == IF Ended(a) THEN [cancels EXCEPT ![o] = None] ELSE cancels
  IN IF Admits(o, a)
     THEN /\ row' = rows
          /\ cancels' = entries
          /\ obligation' = obligation \ {o}
          /\ receipt' = IF Ended(a) THEN [receipt EXCEPT ![o] = a] ELSE receipt
          /\ Settle(o, rows, entries, pending)
     ELSE /\ obligation' = IF Doubts(o, a) THEN obligation \cup {o}
                           ELSE IF a.status = "unread" THEN obligation
                           ELSE obligation \ {o}
          /\ UNCHANGED <<row, receipt, cancels, pending, credits>>

(* apply_order_in for the other rows, and the missing order that is old    *)
(* enough to be abandoned (poll_rows).                                      *)
ApplyPlain(o, a) ==
  LET abandoned == [status |-> "abandoned", dealt |-> row[o].dealt]
      rows == [row EXCEPT ![o] = IF a.status = "missing" THEN abandoned ELSE a]
  IN IF a.status \in {"unknown", "unread"}
     THEN UNCHANGED <<books, cancels, pending, credits>>
     ELSE /\ row' = rows
          /\ Settle(o, rows, cancels, pending)
          /\ UNCHANGED <<obligation, receipt, cancels>>

Apply(o, a) == IF kind[o] = "hf" THEN ApplyHf(o, a) ELSE ApplyPlain(o, a)

-----------------------------------------------------------------------------
(* The polls. *)

(* follow_up, sweep and refresh read the venue: a waiting row, or an hf row *)
(* already final that the rebalancer asks again.                            *)
PollReads(o) ==
  /\ engine = Idle
  /\ o \in Waiting \/ (kind[o] = "hf" /\ receipt[o] # None)
  /\ \E a \in AnswersFor(o) :
       engine' = [pc |-> "polled", order |-> o, answer |-> a]
  /\ UNCHANGED <<onVenue, books, known, fixed, selling, cancels, pending, polls, flips, crashes, credits>>

(* ... and its answer is applied.  A chain ends with its row settled, or    *)
(* with its last attempt.                                                   *)
PollApplies ==
  /\ engine.pc = "polled"
  /\ Apply(engine.order, engine.answer)
  /\ engine' = Idle
  /\ polls' \in {polls \ {engine.order}} \cup
                 (IF row'[engine.order].status = "open" THEN {polls} ELSE {})
  /\ UNCHANGED <<onVenue, known, fixed, selling, flips, crashes>>

\* Mutant: the scan settles what is final and polls nothing.
ScanPollsNothing(o) ==
  /\ engine = Idle
  /\ o \in pending
  /\ Settle(o, row, cancels, pending)
  /\ UNCHANGED <<onVenue, books, known, fixed, selling, cancels, polls, engine, flips, crashes>>

(* run_reversals' scan: a reserve whose row is final is settled, one whose  *)
(* row still waits is polled again.                                         *)
Scan(o) ==
  /\ engine = Idle
  /\ o \in pending
  /\ Settle(o, row, cancels, pending)
  /\ polls' = IF o \in Waiting THEN polls \cup {o} ELSE polls
  /\ UNCHANGED <<onVenue, books, known, fixed, selling, cancels, engine, flips, crashes>>

-----------------------------------------------------------------------------
(* The cancels: cancel_captured and hf_cancel. *)

(* The entry is marked sent, committed, before its cancel goes out. *)
CancelMarks(o) ==
  /\ engine = Idle
  /\ cancels[o] # None
  /\ engine' = [pc |-> "sending", order |-> o, was |-> cancels[o].sent]
  /\ cancels' = [cancels EXCEPT ![o].sent = TRUE]
  /\ UNCHANGED <<onVenue, books, known, fixed, selling, pending, polls, flips, crashes, credits>>

(* The cancel at the venue: acknowledged (an hf cancel only as a request),  *)
(* refused, or answered by an error after which it may still arrive.        *)
CancelSends ==
  /\ engine.pc = "sending"
  /\ LET o == engine.order
         registered == cancels[o].registered
         asked == requests \cup {<<o, registered>>}
         Replied(r) == engine' = [pc |-> "replied", order |-> o, was |-> engine.was, reply |-> r]
     IN \/ /\ venue[o].status = "open"
           /\ Replied("ok")
           /\ IF kind[o] = "hf"
              THEN requests' = asked /\ UNCHANGED venue
              ELSE venue' = CancelledBy(o, By(registered)) /\ UNCHANGED requests
        \/ /\ Replied("rejected")
           /\ UNCHANGED onVenue
        \/ /\ Replied("error")
           /\ requests' \in {requests, asked}
           /\ UNCHANGED venue
  /\ UNCHANGED <<books, known, fixed, selling, cancels, pending, polls, flips, crashes, credits>>

(* The order is read when the reply alone does not settle the question: an  *)
(* hf order's unless it was refused at first, another's when its cancel had *)
(* been sent before.                                                        *)
Rereads ==
  /\ engine.reply # "ok"
  /\ IF kind[engine.order] = "hf" THEN engine.reply # "rejected" \/ engine.was ELSE engine.was

CancelReads ==
  /\ engine.pc = "replied"
  /\ Rereads
  /\ \E a \in AnswersFor(engine.order) :
       engine' = [pc |-> "reread", order |-> engine.order, was |-> engine.was,
                  reply |-> engine.reply, answer |-> a]
  /\ UNCHANGED <<onVenue, books, known, fixed, selling, cancels, pending, polls, flips, crashes, credits>>

(* The outcomes.  The cancel stands: the entry goes, the reserve is settled *)
(* if its row is final, and the order is polled. *)
Cancelled(o) ==
  LET entries == [cancels EXCEPT ![o] = None]
  IN /\ cancels' = entries
     /\ Settle(o, row, entries, pending)
     /\ polls' = polls \cup {o}
     /\ UNCHANGED books

(* It failed: the entry goes, and the reserve this reversal registered. *)
Failed(o) ==
  /\ cancels' = [cancels EXCEPT ![o] = None]
  /\ pending' = IF cancels[o].registered THEN pending \ {o} ELSE pending
  /\ UNCHANGED <<books, polls, credits>>

(* Nothing is known: entry and reserve stay for the next pass. *)
Keeps == UNCHANGED <<books, cancels, pending, polls, credits>>

(* What the reply, and the order's own state where it was read, prove of a  *)
(* cancel outside the hf gate.                                              *)
ProvesCancelled ==
  \/ engine.pc = "replied" /\ engine.reply = "ok"
  \/ /\ engine.pc = "reread"
     /\ \/ engine.answer.status = "cancelled"
        \/ kucoin /\ engine.answer.status = "closed"
        \/ kucoin /\ Ended(row[engine.order])

(* On KuCoin a cancel that may have gone out is not resolved by its error. *)
\* Mutant: any cancel that was not acknowledged has failed, as Rails reads it.
NeverUncertain == FALSE
Uncertain == kucoin /\ (engine.pc = "reread" \/ engine.reply = "error")

CancelRecords ==
  /\ \/ engine.pc = "replied" /\ ~Rereads
     \/ engine.pc = "reread"
  /\ LET o == engine.order
     IN IF kind[o] = "hf"
        THEN \/ /\ engine.pc = "replied"
                /\ engine.reply = "ok"
                /\ polls' = polls \cup {o}
                /\ UNCHANGED <<books, cancels, pending, credits>>
             \/ /\ engine.pc = "replied"
                /\ engine.reply = "rejected"
                /\ Failed(o)
             \/ /\ engine.pc = "reread"
                /\ IF Ended(engine.answer)
                   THEN ApplyHf(o, engine.answer) /\ polls' = polls \cup {o}
                   ELSE Keeps
        ELSE IF ProvesCancelled THEN Cancelled(o)
        ELSE IF Uncertain THEN Keeps
        ELSE Failed(o)
  /\ engine' = Idle
  /\ UNCHANGED <<onVenue, known, fixed, selling, flips, crashes>>

-----------------------------------------------------------------------------
(* The engine's death and restart, and the operator between them. *)

Crash ==
  /\ engine # Down
  /\ crashes < MaxCrashes
  /\ crashes' = crashes + 1
  /\ engine' = Down
  /\ polls' = {}
  /\ UNCHANGED <<onVenue, books, known, fixed, selling, cancels, pending, flips, credits>>

(* run::step's first pass: every outstanding order is polled once. *)
Start ==
  /\ engine = Down
  /\ engine' = Idle
  /\ polls' = Waiting
  /\ UNCHANGED <<onVenue, books, known, fixed, selling, cancels, pending, flips, crashes, credits>>

(* reconcile::by_operator: the order's final facts from its owner's         *)
(* evidence.  What the gate refuses commits nothing, and a final row keeps  *)
(* its facts.  A classic row gets its record here, and is an hf row's equal *)
(* from then on.                                                            *)
OperatorReconciles(o) ==
  LET a == [status |-> venue[o].status, dealt |-> venue[o].dealt]
  IN /\ engine = Down
     /\ kind[o] \in {"hf", "classic"}
     /\ Ended(a)
     /\ Ended(row[o]) => a = row[o]
     /\ Admits(o, a) \/ a = receipt[o]
     /\ kind' = [kind EXCEPT ![o] = "hf"]
     /\ ApplyHf(o, a)
     /\ UNCHANGED <<onVenue, known, kucoin, side, selling, polls, engine, flips, crashes>>

-----------------------------------------------------------------------------
Environment ==
  \E o \in Orders :
    \/ VenueFills(o)
    \/ VenueEnds(o)
    \/ \E registered \in BOOLEAN : CancelArrives(o, registered)
    \/ LedgerImports(o)
    \/ OperatorReconciles(o)

Next ==
  \/ Environment
  \/ Reverse
  \/ \E o \in Orders : \/ \E k \in {"hf", "classic", "plain"} : Place(o, k)
                       \/ PollReads(o)
                       \/ Scan(o)
                       \/ CancelMarks(o)
  \/ PollApplies
  \/ CancelSends
  \/ CancelReads
  \/ CancelRecords
  \/ Crash
  \/ Start

Spec == Init /\ [][Next]_vars

(* The engine's passes go on once it runs, and it is started again after a  *)
(* death; a follow-up poll and a cancel's reread are answered with the       *)
(* order's final state again and again once it has one.                      *)
Told(A) == A /\ Ended(engine'.answer)
FairSpec ==
  /\ Spec
  /\ WF_vars(Start)
  /\ WF_vars(PollApplies)
  /\ WF_vars(CancelSends)
  /\ WF_vars(CancelReads)
  /\ WF_vars(CancelRecords)
  /\ \A o \in Orders :
       /\ SF_vars(Scan(o))
       /\ SF_vars(CancelMarks(o))
       /\ SF_vars(Told(o \in polls /\ PollReads(o)))
       /\ SF_vars(Told(CancelReads /\ engine.order = o))

-----------------------------------------------------------------------------
(* A buy's remainder is returned at most once, only once the venue has      *)
(* ended the order, and it is exactly what the venue left undealt: whoever   *)
(* settles the row first, the poll, the cancel, the scan or the operator.   *)
CreditedRight ==
  \A o \in Orders :
    credits[o] # <<>> =>
      /\ side[o] = "buy"
      /\ Ended(venue[o])
      /\ credits[o] = <<Size - venue[o].dealt>>

(* A row settles once: whatever is answered or proved later, its receipt    *)
(* and its row stay as they were settled (reconcile::admit).                *)
SettledForGood ==
  [][\A o \in Orders : receipt[o] # None => receipt'[o] = receipt[o] /\ row'[o] = row[o]]_vars

(* A reserve owed for an order the venue has ended does not stay owed: the   *)
(* scan outlives a follow-up chain that gave up, a flip back and a restart. *)
ReservesSettle ==
  \A o \in Orders : o \in pending /\ Ended(venue[o]) ~> o \notin pending

-----------------------------------------------------------------------------
(* What a reversal promises of the reserves. *)

\* An order at its venue, and its reserve, as the owner sees them.
State(o)   == IF Ended(venue[o]) THEN "ended"
              ELSE IF venue[o].status = "open" THEN "live" ELSE "none"
Reserve(o) == IF o \in pending THEN "owed"
              ELSE IF credits[o] # <<>> THEN "returned" ELSE "none"

Ledger == INSTANCE ReserveLedger WITH
  strict <- kucoin, buys <- {o \in Orders : side[o] = "buy"},
  state <- [o \in Orders |-> State(o)], dealt <- [o \in Orders |-> venue[o].dealt],
  stopped <- {o \in Orders : venue[o].by = "reserve"},
  reserve <- [o \in Orders |-> Reserve(o)], returns <- credits

(* Whatever the polls, the cancels, the operator and the deaths do to rows   *)
(* and entries, a buy's reserve is owed until the venue has ended it, then   *)
(* returned once and for good; on KuCoin it is never given up once the       *)
(* reversal's registered cancel ended its order (D-KUCOIN-CANCEL-OBLIGATION).*)
ImplementsReserves == Ledger!Spec

=============================================================================
