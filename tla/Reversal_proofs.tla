---------------------------- MODULE Reversal_proofs ----------------------------
(***************************************************************************)
(* Proofs about Reversal, for every set of orders, their size, and every   *)
(* number of reversals and deaths.                                         *)
(***************************************************************************)
EXTENDS Reversal, TLAPS

\* An order that was never placed is nowhere; one that was is at its venue.
Placed(o) ==
  /\ kind[o] = "none" =>
       /\ venue[o].status = "none" /\ venue[o].dealt = 0 /\ row[o].status = "none"
       /\ receipt[o] = None /\ cancels[o] = None /\ o \notin pending /\ credits[o] = <<>>
       /\ \A registered \in BOOLEAN : <<o, registered>> \notin requests
  /\ kind[o] # "none" => venue[o].status # "none"
  /\ kind[o] = "plain" => ~kucoin
  /\ venue[o].status = "open" => venue[o].dealt < Size

\* A final row is what the venue ended the order with; an hf row is final with its receipt.
Exact(o) ==
  /\ Ended(row[o]) => venue[o].status = row[o].status /\ venue[o].dealt = row[o].dealt
  /\ receipt[o] # None => kind[o] = "hf" /\ Ended(row[o]) /\ row[o] = receipt[o]
  /\ kind[o] = "hf" /\ Ended(row[o]) => receipt[o] # None

\* A reserve is owed by a buy until its credit, and a credit is made on a final row.
Owed(o) ==
  /\ o \in pending => side[o] = "buy" /\ credits[o] = <<>>
  /\ credits[o] # <<>> => side[o] = "buy" /\ Ended(row[o]) /\ credits[o] = <<Size - row[o].dealt>>
  /\ cancels[o] # None /\ cancels[o].registered => o \in pending

\* The cancel of a registered reserve is, or has been, at the venue.
Out(o) == <<o, TRUE>> \in requests \/ venue[o].by = "reserve"

\* On KuCoin such a cancel leaves its reserve owed or credited, and an entry not yet sent
\* has none out.
Reserved(o) ==
  kucoin => /\ Out(o) => o \in pending \/ credits[o] # <<>>
            /\ cancels[o] # None /\ cancels[o].registered /\ ~cancels[o].sent => ~Out(o)
            /\ row[o].status # "abandoned"

Orderly(o) == Placed(o) /\ Exact(o) /\ Owed(o) /\ Reserved(o)

\* What the engine is in the middle of: a cancel whose entry stands, marked; a poll whose
\* row waits; a final answer that is the venue's.
InHand ==
  /\ engine.pc \in {"sending", "replied", "reread"} =>
       cancels[engine.order] # None /\ cancels[engine.order].sent
  /\ engine.pc = "polled" => kind[engine.order] = "hf" \/ row[engine.order].status = "open"
  /\ engine.pc \in {"polled", "reread"} =>
       /\ kind[engine.order] # "none"
       /\ Ended(engine.answer) => /\ venue[engine.order].status = engine.answer.status
                                  /\ venue[engine.order].dealt = engine.answer.dealt
       /\ engine.answer.status = "missing" => kind[engine.order] = "plain"
  /\ engine.pc = "sending" \/ (engine.pc = "replied" /\ engine.reply = "rejected") =>
       ~kucoin \/ engine.was \/ ~cancels[engine.order].registered \/ ~Out(engine.order)

IInv == TypeOK /\ InHand /\ \A o \in Orders : Orderly(o)

Venues == [status : Statuses, dealt : 0..Size, by : {"none", "venue", "cancel", "reserve"}]

-----------------------------------------------------------------------------
LEMMA EngineTyped ==
  ASSUME TypeOK
  PROVE  /\ engine.pc \in {"sending", "replied", "reread", "polled"} => engine.order \in Orders
         /\ engine.pc \in {"polled", "reread"} => engine.answer \in Answers
         /\ engine.pc \in {"sending", "replied", "reread"} => engine.was \in BOOLEAN
         /\ engine.pc \in {"replied", "reread"} => engine.reply \in {"ok", "rejected", "error"}
  BY DEF TypeOK, Engines, Idle, Down

\* What a step leaves alone stays in order.
LEMMA Untouched ==
  ASSUME NEW o \in Orders, Orderly(o), UNCHANGED kucoin,
         venue'[o] = venue[o], row'[o] = row[o], receipt'[o] = receipt[o], kind'[o] = kind[o],
         side'[o] = side[o], cancels'[o] = cancels[o], credits'[o] = credits[o],
         o \in pending' <=> o \in pending,
         \A registered \in BOOLEAN : <<o, registered>> \in requests' <=> <<o, registered>> \in requests
  PROVE  Orderly(o)'
<1>1. Placed(o)' BY DEF Orderly, Placed
<1>2. Exact(o)' BY DEF Orderly, Exact
<1>3. Owed(o)' BY DEF Orderly, Owed
<1>4. Reserved(o)' BY DEF Orderly, Reserved, Out
<1> QED BY <1>1, <1>2, <1>3, <1>4 DEF Orderly

\* A move at the venue keeps an order's books in order, if a registered cancel comes out
\* only of an entry that was sent.
LEMMA VenueMoves ==
  ASSUME NEW o \in Orders, Orderly(o), UNCHANGED <<row, receipt, kind, side, kucoin, cancels, pending, credits>>,
         Ended(venue[o]) \/ venue[o].status = "none" =>
           venue'[o].status = venue[o].status /\ venue'[o].dealt = venue[o].dealt,
         venue[o].status # "none" => venue'[o].status # "none",
         venue'[o].status = "open" => venue'[o].dealt < Size,
         \A registered \in BOOLEAN : <<o, registered>> \in requests' =>
           <<o, registered>> \in requests \/ kind[o] # "none",
         Out(o)' => Out(o) \/ (cancels[o] # None /\ cancels[o].registered /\ cancels[o].sent)
  PROVE  Orderly(o)'
<1>1. Placed(o)' BY DEF Orderly, Placed
<1>2. Exact(o)' BY DEF Orderly, Exact, Ended
<1>3. Owed(o)' BY DEF Orderly, Owed
<1>4. Reserved(o)' BY DEF Orderly, Owed, Reserved
<1> QED BY <1>1, <1>2, <1>3, <1>4 DEF Orderly

\* Every move of an open order at its venue.
Moves(o) ==
  /\ venue[o].status = "open" /\ venue' \in [Orders -> Venues]
  /\ \A x \in Orders \ {o} : venue'[x] = venue[x]
  /\ venue'[o].status \in {"open", "closed", "cancelled"}
  /\ venue'[o].status = "open" => venue'[o].dealt < Size

LEMMA FillMoves ==
  ASSUME IInv, NEW o \in Orders, VenueFills(o)
  PROVE  Moves(o) /\ venue'[o].by = venue[o].by
<1> USE SizeAssumption
<1>1. venue \in [Orders -> Venues]
  BY DEF IInv, TypeOK, Venues
<1>2. venue[o].status = "open" /\ venue[o].dealt < Size
  BY DEF VenueFills, IInv, Orderly, Placed
<1> DEFINE dealt == venue[o].dealt + 1
           status == IF dealt = Size THEN "closed" ELSE "open"
<1>3. dealt \in 0..Size /\ (dealt # Size => dealt < Size)
  BY <1>1, <1>2 DEF Venues
<1>4. venue' = [venue EXCEPT ![o] = [[venue[o] EXCEPT !.dealt = dealt] EXCEPT !.status = status]]
  BY DEF VenueFills
<1> HIDE DEF dealt
<1>5. venue[o] = [status |-> venue[o].status, dealt |-> venue[o].dealt, by |-> venue[o].by]
  BY <1>1 DEF Venues
<1>6. [[venue[o] EXCEPT !.dealt = dealt] EXCEPT !.status = status]
        = [status |-> status, dealt |-> dealt, by |-> venue[o].by]
  <2>1. [venue[o] EXCEPT !.dealt = dealt] = [status |-> venue[o].status, dealt |-> dealt, by |-> venue[o].by]
    BY <1>5
  <2>2. [[status |-> venue[o].status, dealt |-> dealt, by |-> venue[o].by] EXCEPT !.status = status]
          = [status |-> status, dealt |-> dealt, by |-> venue[o].by]
    OBVIOUS
  <2> QED BY <2>1, <2>2
<1>7. [status |-> status, dealt |-> dealt, by |-> venue[o].by] \in Venues
  BY <1>1, <1>3 DEF Venues, Statuses
<1> QED BY <1>1, <1>2, <1>3, <1>4, <1>6, <1>7 DEF Moves

LEMMA CancelMoves ==
  ASSUME IInv, NEW o \in Orders, NEW who \in {"venue", "cancel", "reserve"},
         venue[o].status = "open", venue' = CancelledBy(o, who)
  PROVE  Moves(o) /\ venue'[o].by = who
<1>1. venue \in [Orders -> Venues]
  BY DEF IInv, TypeOK, Venues
<1>2. venue' = [venue EXCEPT ![o] = [[venue[o] EXCEPT !.status = "cancelled"] EXCEPT !.by = who]]
  BY DEF CancelledBy
<1>3. [[venue[o] EXCEPT !.status = "cancelled"] EXCEPT !.by = who]
        = [status |-> "cancelled", dealt |-> venue[o].dealt, by |-> who]
  <2>1. [venue[o] EXCEPT !.status = "cancelled"]
          = [status |-> "cancelled", dealt |-> venue[o].dealt, by |-> venue[o].by]
    BY <1>1 DEF Venues
  <2>2. [[status |-> "cancelled", dealt |-> venue[o].dealt, by |-> venue[o].by] EXCEPT !.by = who]
          = [status |-> "cancelled", dealt |-> venue[o].dealt, by |-> who]
    OBVIOUS
  <2> QED BY <2>1, <2>2
<1>4. [status |-> "cancelled", dealt |-> venue[o].dealt, by |-> who] \in Venues
  BY <1>1 DEF Venues, Statuses
<1> QED BY <1>1, <1>2, <1>3, <1>4 DEF Moves

LEMMA InitInv == Init => IInv
<1> SUFFICES ASSUME Init PROVE IInv
  OBVIOUS
<1> USE SizeAssumption, BoundsAssumption
<1>1. TypeOK
  <2>1. credits \in [Orders -> Seq(0..Size)] /\ known \in [Orders -> 0..Size]
    BY DEF Init
  <2>2. row \in [Orders -> Facts]
    BY DEF Init, Facts, Statuses
  <2>3. venue \in [Orders -> [status : Statuses, dealt : 0..Size, by : {"none", "venue", "cancel", "reserve"}]]
    BY DEF Init, Statuses
  <2>4. engine \in Engines
    BY DEF Init, Engines
  <2>5. kucoin \in BOOLEAN /\ selling \in BOOLEAN
    BY DEF Init
  <2>6. /\ receipt \in [Orders -> Facts \cup {None}] /\ cancels \in [Orders -> Entry \cup {None}]
        /\ kind \in [Orders -> {"none", "hf", "classic", "plain"}] /\ side \in [Orders -> {"none", "buy", "sell"}]
        /\ requests = {} /\ obligation = {} /\ pending = {} /\ polls = {}
    BY DEF Init
  <2>7. flips \in 0..MaxFlips /\ crashes \in 0..MaxCrashes
    BY DEF Init
  <2> QED BY <2>1, <2>2, <2>3, <2>4, <2>5, <2>6, <2>7 DEF TypeOK
<1>2. InHand BY DEF Init, InHand, Idle
<1>3. \A o \in Orders : Orderly(o)
  BY DEF Init, Orderly, Placed, Exact, Owed, Reserved, Out, Ended
<1> QED BY <1>1, <1>2, <1>3 DEF IInv

\* The venue's steps, and the cancels that arrive late.
LEMMA VenueInv ==
  ASSUME IInv, NEW o \in Orders,
         \/ VenueFills(o) \/ VenueEnds(o) \/ LedgerImports(o)
         \/ \E registered \in BOOLEAN : CancelArrives(o, registered)
  PROVE  IInv'
<1> USE SizeAssumption DEF onVenue, books, fixed
<1>1. UNCHANGED <<row, receipt, obligation, kucoin, kind, side, selling, cancels, pending, polls, engine, flips, crashes, credits>>
  BY DEF VenueFills, VenueEnds, LedgerImports, CancelArrives
<1>2. venue \in [Orders -> Venues] /\ known \in [Orders -> 0..Size]
  BY DEF IInv, TypeOK, Venues
<1>3. requests' \subseteq requests /\ (venue' = venue \/ (Moves(o) /\ (venue'[o].by = "reserve" => Out(o))))
  <2>1. CASE VenueFills(o)
    BY <2>1, FillMoves DEF VenueFills, Out
  <2>2. CASE VenueEnds(o)
    BY <2>2, CancelMoves DEF VenueEnds
  <2>3. ASSUME NEW registered \in BOOLEAN, CancelArrives(o, registered)
        PROVE  requests' \subseteq requests /\ (venue' = venue \/ (Moves(o) /\ (venue'[o].by = "reserve" => Out(o))))
    <3>1. By(registered) \in {"venue", "cancel", "reserve"} /\ (By(registered) = "reserve" => registered = TRUE)
      BY DEF By
    <3>2. requests' \subseteq requests /\ (By(registered) = "reserve" => Out(o))
      BY <2>3, <3>1 DEF CancelArrives, Out
    <3> QED BY <2>3, <3>1, <3>2, CancelMoves DEF CancelArrives
  <2>4. CASE LedgerImports(o)
    BY <2>4 DEF LedgerImports
  <2> QED BY <2>1, <2>2, <2>3, <2>4
<1>4. \A x \in Orders :
        /\ Ended(venue[x]) \/ venue[x].status = "none" =>
             venue'[x].status = venue[x].status /\ venue'[x].dealt = venue[x].dealt
        /\ venue[x].status # "none" => venue'[x].status # "none"
        /\ venue'[x].status = "open" => venue'[x].dealt < Size
        /\ Out(x)' => Out(x)
  <2>1. \A x \in Orders : venue[x].status = "open" => venue[x].dealt < Size
    BY DEF IInv, Orderly, Placed
  <2> QED BY <1>3, <2>1 DEF Moves, Ended, Out
<1>5. \A x \in Orders : Orderly(x)'
  BY <1>1, <1>3, <1>4, VenueMoves DEF IInv
<1>6. InHand'
  <2>1. engine.pc \in {"sending", "replied", "reread", "polled"} => engine.order \in Orders
    BY EngineTyped DEF IInv
  <2> QED BY <1>1, <1>4, <2>1 DEF IInv, InHand, Ended, Out
<1>7. TypeOK'
  <2>1. venue' \in [Orders -> Venues]
    BY <1>2, <1>3 DEF Moves
  <2>2. known' \in [Orders -> 0..Size]
    BY <1>2 DEF VenueFills, VenueEnds, LedgerImports, CancelArrives, Venues
  <2> QED BY <1>1, <1>3, <2>1, <2>2 DEF IInv, TypeOK, Venues
<1> QED BY <1>5, <1>6, <1>7 DEF IInv

\* Place: the order is new everywhere.
LEMMA PlaceInv ==
  ASSUME IInv, NEW o \in Orders, NEW k \in {"hf", "classic", "plain"}, Place(o, k)
  PROVE  IInv'
<1> USE SizeAssumption DEF fixed
<1>1. /\ engine = Idle /\ kind[o] = "none" /\ (k = "plain" => ~kucoin)
      /\ UNCHANGED <<requests, obligation, receipt, known, kucoin, selling, cancels, pending, engine, flips, crashes, credits>>
  BY DEF Place
<1>2. /\ venue \in [Orders -> Venues] /\ row \in [Orders -> Facts]
      /\ kind \in [Orders -> {"none", "hf", "classic", "plain"}] /\ side \in [Orders -> {"none", "buy", "sell"}]
  BY DEF IInv, TypeOK, Venues
<1>3. /\ venue' \in [Orders -> Venues] /\ venue'[o].status = "open" /\ venue'[o].dealt = venue[o].dealt
      /\ venue'[o].by = venue[o].by /\ \A x \in Orders \ {o} : venue'[x] = venue[x]
  BY <1>2 DEF Place, Venues, Statuses
<1>4. /\ row' \in [Orders -> Facts] /\ row'[o].status = "open"
      /\ \A x \in Orders \ {o} : row'[x] = row[x]
  BY <1>2 DEF Place, Facts, Statuses
<1>5. /\ kind' \in [Orders -> {"none", "hf", "classic", "plain"}] /\ kind'[o] = k
      /\ side' \in [Orders -> {"none", "buy", "sell"}]
      /\ \A x \in Orders \ {o} : kind'[x] = kind[x] /\ side'[x] = side[x]
  BY <1>2 DEF Place
<1>6. Orderly(o) /\ Placed(o)
  BY DEF IInv, Orderly
<1>7. Placed(o)' BY <1>1, <1>3, <1>5, <1>6 DEF Placed
<1>8. Exact(o)' BY <1>1, <1>4, <1>5, <1>6 DEF Exact, Placed, Ended
<1>9. Owed(o)' BY <1>1, <1>6 DEF Owed, Placed
<1>10. Reserved(o)' BY <1>1, <1>3, <1>4, <1>6 DEF Orderly, Reserved, Placed, Out
<1>11. \A x \in Orders : Orderly(x)'
  BY <1>1, <1>3, <1>4, <1>5, <1>7, <1>8, <1>9, <1>10, Untouched DEF IInv, Orderly
<1>12. InHand' BY <1>1 DEF InHand, Idle
<1>13. TypeOK' BY <1>1, <1>3, <1>4, <1>5 DEF Place, IInv, TypeOK, Venues
<1> QED BY <1>11, <1>12, <1>13 DEF IInv

\* The web's reversal: it registers only what is neither owed nor credited, so no cancel of
\* an earlier reserve is out.
LEMMA ReverseInv == ASSUME IInv, Reverse PROVE IInv'
<1> USE SizeAssumption DEF onVenue, books, fixed
<1> DEFINE captured == {o \in Waiting : cancels[o] = None}
           registers == {o \in captured : ~selling /\ side[o] = "buy" /\ o \notin pending}
<1>1. UNCHANGED <<venue, requests, row, obligation, receipt, known, kucoin, kind, side, polls, engine, crashes, credits>>
  BY DEF Reverse
<1>2. /\ captured \subseteq Orders /\ registers \subseteq captured
      /\ \A o \in captured : row[o].status = "open" /\ cancels[o] = None
      /\ \A o \in registers : side[o] = "buy" /\ o \notin pending
  BY DEF Waiting
<1>3. /\ cancels' = [o \in Orders |-> IF o \in captured THEN [registered |-> o \in registers, sent |-> FALSE]
                                      ELSE cancels[o]]
      /\ pending' = pending \cup registers
  BY DEF Reverse
<1> HIDE DEF captured, registers
<1>4. \A o \in Orders :
        IF o \in captured
        THEN /\ cancels'[o] # None /\ cancels'[o] \in Entry /\ cancels'[o].registered = (o \in registers)
             /\ ~cancels'[o].sent
        ELSE cancels'[o] = cancels[o]
  <2>1. \A o \in Orders : [registered |-> o \in registers, sent |-> FALSE] \in Entry
    BY DEF Entry
  <2> QED BY <1>3, <2>1, NoneAssumption
<1>5. ASSUME NEW o \in Orders PROVE Orderly(o)'
  <2>1. Orderly(o) /\ Placed(o) /\ Exact(o) /\ Owed(o) /\ Reserved(o)
    BY DEF IInv, Orderly
  <2>2. CASE o \notin captured
    <3>1. o \in pending' <=> o \in pending
      BY <1>2, <1>3, <2>2
    <3> QED BY <1>1, <1>4, <2>1, <2>2, <3>1, Untouched
  <2>3. CASE o \in captured
    <3>1. kind[o] # "none" /\ credits[o] = <<>>
      BY <1>2, <2>1, <2>3 DEF Placed, Owed, Ended
    <3>2. Placed(o)' BY <1>1, <2>1, <3>1 DEF Placed
    <3>3. Exact(o)' BY <1>1, <2>1 DEF Exact
    <3>4. Owed(o)' BY <1>1, <1>2, <1>3, <1>4, <2>1, <2>3, <3>1 DEF Owed
    <3>5. Reserved(o)' BY <1>1, <1>2, <1>3, <1>4, <2>1, <2>3, <3>1 DEF Reserved, Out
    <3> QED BY <3>2, <3>3, <3>4, <3>5 DEF Orderly
  <2> QED BY <2>2, <2>3
<1>6. InHand'
  <2>1. engine.pc \in {"sending", "replied", "reread", "polled"} => engine.order \in Orders
    BY EngineTyped DEF IInv
  <2>2. \A o \in Orders : cancels[o] # None => cancels'[o] = cancels[o]
    BY <1>2, <1>4
  <2> QED BY <1>1, <2>1, <2>2 DEF IInv, InHand, Out
<1>7. TypeOK'
  <2>1. cancels' \in [Orders -> Entry \cup {None}]
    BY <1>3, <1>4 DEF IInv, TypeOK
  <2>2. pending' \subseteq Orders
    BY <1>2, <1>3 DEF IInv, TypeOK
  <2>3. selling' \in BOOLEAN
    BY DEF Reverse
  <2>4. flips' \in 0..MaxFlips
    BY BoundsAssumption DEF Reverse, IInv, TypeOK
  <2> QED BY <1>1, <2>1, <2>2, <2>3, <2>4 DEF IInv, TypeOK
<1> QED BY <1>5, <1>6, <1>7 DEF IInv

-----------------------------------------------------------------------------
\* An order's books after a step that writes its row, its entry and its reserve together:
\* the entry can only go, and a final row stays as it is.
Rewrites(o, f, e, r) ==
  /\ row' = [row EXCEPT ![o] = f] /\ cancels' = [cancels EXCEPT ![o] = e]
  /\ receipt' = [receipt EXCEPT ![o] = r]
  /\ e = None \/ e = cancels[o]
  /\ Ended(row[o]) => f = row[o]
  /\ Ended(f) => venue[o].status = f.status /\ venue[o].dealt = f.dealt
  /\ r # None => kind'[o] = "hf" /\ Ended(f) /\ f = r
  /\ kind'[o] = "hf" /\ Ended(f) => r # None
  /\ f.status = "abandoned" => ~kucoin

\* A kind stays, but a classic row that gets its record is an hf row.
Recorded(o) == kind' = kind \/ (kind[o] = "classic" /\ kind' = [kind EXCEPT ![o] = "hf"])

LEMMA SettleInv ==
  ASSUME IInv, NEW o \in Orders, NEW f \in Facts, NEW e \in Entry \cup {None}, NEW r \in Facts \cup {None},
         kind[o] # "none", Rewrites(o, f, e, r), Settle(o, row', cancels', pending),
         Recorded(o), UNCHANGED <<venue, requests, side, kucoin>>
  PROVE  /\ \A x \in Orders : Orderly(x)'
         /\ row' \in [Orders -> Facts] /\ cancels' \in [Orders -> Entry \cup {None}]
         /\ receipt' \in [Orders -> Facts \cup {None}] /\ pending' \subseteq Orders
         /\ credits' \in [Orders -> Seq(0..Size)]
<1> USE SizeAssumption
<1>1. /\ row \in [Orders -> Facts] /\ cancels \in [Orders -> Entry \cup {None}]
      /\ receipt \in [Orders -> Facts \cup {None}] /\ pending \subseteq Orders
      /\ credits \in [Orders -> Seq(0..Size)]
  BY DEF IInv, TypeOK
<1>2. /\ row' \in [Orders -> Facts] /\ cancels' \in [Orders -> Entry \cup {None}]
      /\ receipt' \in [Orders -> Facts \cup {None}]
      /\ row'[o] = f /\ cancels'[o] = e /\ receipt'[o] = r
      /\ \A x \in Orders \ {o} : row'[x] = row[x] /\ cancels'[x] = cancels[x] /\ receipt'[x] = receipt[x]
  BY <1>1 DEF Rewrites
<1>3. Orderly(o) /\ Placed(o) /\ Exact(o) /\ Owed(o) /\ Reserved(o)
  BY DEF IInv, Orderly
<1> DEFINE due == o \in pending /\ e = None /\ (Ended(f) \/ f.status = "abandoned")
<1>4. /\ pending' = IF due THEN pending \ {o} ELSE pending
      /\ credits' = IF due /\ Ended(f) THEN [credits EXCEPT ![o] = Append(@, Size - f.dealt)] ELSE credits
  BY <1>2 DEF Settle, Settles
<1> HIDE DEF due
<1>5. Size - f.dealt \in 0..Size
  BY DEF Facts
<1>6. /\ credits' \in [Orders -> Seq(0..Size)] /\ \A x \in Orders \ {o} : credits'[x] = credits[x]
      /\ credits'[o] = IF due /\ Ended(f) THEN Append(credits[o], Size - f.dealt) ELSE credits[o]
  <2>1. Append(credits[o], Size - f.dealt) \in Seq(0..Size)
    BY <1>1, <1>5
  <2> QED BY <1>1, <1>4, <2>1
<1>7. due => credits'[o] = IF Ended(f) THEN <<Size - f.dealt>> ELSE <<>>
  <2>1. due => credits[o] = <<>>
    BY <1>3 DEF due, Owed
  <2>2. Append(<< >>, Size - f.dealt) = <<Size - f.dealt>>
    BY <1>5
  <2> QED BY <1>6, <2>1, <2>2
<1>8. Placed(o)'
  <2>1. kind'[o] # "none" /\ (kind'[o] = "plain" => kind[o] = "plain")
    BY DEF Recorded, IInv, TypeOK
  <2> QED BY <1>3, <2>1 DEF Placed
<1>9. Exact(o)'
  BY <1>2, <1>3 DEF Exact, Rewrites
<1>10. Owed(o)'
  <2>1. CASE due
    <3>1. o \notin pending' /\ cancels'[o] = None /\ side'[o] = "buy"
      BY <1>2, <1>3, <1>4, <2>1 DEF Owed, due
    <3>2. credits'[o] # <<>> => Ended(f) /\ credits'[o] = <<Size - f.dealt>>
      BY <1>7, <2>1
    <3> QED BY <1>2, <3>1, <3>2 DEF Owed
  <2>2. CASE ~due
    BY <1>2, <1>3, <1>4, <1>6, <2>2 DEF Owed, due, Rewrites
  <2> QED BY <2>1, <2>2
<1>11. Reserved(o)'
  <2>1. <<Size - f.dealt>> # <<>>
    OBVIOUS
  <2>2. CASE due
    BY <1>2, <1>4, <1>7, <2>1, <2>2 DEF Reserved, Out, due, Rewrites
  <2>3. CASE ~due
    BY <1>2, <1>3, <1>4, <1>6, <2>3 DEF Reserved, Out, due, Rewrites
  <2> QED BY <2>2, <2>3
<1>12. \A x \in Orders : Orderly(x)'
  <2> SUFFICES ASSUME NEW x \in Orders \ {o} PROVE Orderly(x)'
    BY <1>8, <1>9, <1>10, <1>11 DEF Orderly
  <2>1. x \in pending' <=> x \in pending
    BY <1>4
  <2>2. kind'[x] = kind[x]
    BY DEF Recorded, IInv, TypeOK
  <2> QED BY <1>2, <1>6, <2>1, <2>2, Untouched DEF IInv
<1>13. pending' \subseteq Orders
  BY <1>1, <1>4
<1> QED BY <1>2, <1>6, <1>12, <1>13

\* A step that leaves the books alone leaves the orders in order.
LEMMA BooksKept ==
  ASSUME IInv, UNCHANGED <<row, receipt, cancels, pending, credits, venue, requests, kind, side, kucoin>>
  PROVE  /\ \A x \in Orders : Orderly(x)'
         /\ row' \in [Orders -> Facts] /\ cancels' \in [Orders -> Entry \cup {None}]
         /\ receipt' \in [Orders -> Facts \cup {None}] /\ pending' \subseteq Orders
         /\ credits' \in [Orders -> Seq(0..Size)]
  BY Untouched DEF IInv, TypeOK

\* What an answer may be of an order that has been placed.
Answered(o, a) ==
  /\ a \in Answers
  /\ Ended(a) => venue[o].status = a.status /\ venue[o].dealt = a.dealt
  /\ a.status = "missing" => kind[o] = "plain"

LEMMA AnswerTrue ==
  ASSUME IInv, NEW o \in Orders, kind[o] # "none", NEW a \in AnswersFor(o)
  PROVE  Answered(o, a)
<1>1. venue[o].status \in {"open", "closed", "cancelled"} /\ venue[o].dealt \in 0..Size
  BY DEF IInv, TypeOK, Orderly, Placed, Statuses
<1>2. CASE a \in {[status |-> s, dealt |-> 0] : s \in {"unknown", "unread"}}
  BY <1>2 DEF Answered, Answers, Ended
<1>3. CASE a \in {[status |-> "open", dealt |-> d] : d \in 0..venue[o].dealt}
  <2>1. \A d \in 0..venue[o].dealt : d \in 0..Size
    BY <1>1, SizeAssumption
  <2> QED BY <1>3, <2>1 DEF Answered, Answers, Ended
<1>4. CASE kind[o] = "plain" /\ a = [status |-> "missing", dealt |-> 0]
  BY <1>4 DEF Answered, Answers, Ended
<1>5. CASE a = [status |-> venue[o].status, dealt |-> venue[o].dealt]
  BY <1>1, <1>5 DEF Answered, Answers, Ended
<1> QED BY <1>2, <1>3, <1>4, <1>5 DEF AnswersFor

\* An answer applied to an hf row: admitted, or nothing but the obligation.
LEMMA HfInv ==
  ASSUME IInv, NEW o \in Orders, kind[o] = "hf", NEW a, Answered(o, a), ApplyHf(o, a),
         UNCHANGED <<venue, requests, kind, side, kucoin>>
  PROVE  /\ \A x \in Orders : Orderly(x)'
         /\ row' \in [Orders -> Facts] /\ cancels' \in [Orders -> Entry \cup {None}]
         /\ receipt' \in [Orders -> Facts \cup {None}] /\ pending' \subseteq Orders
         /\ credits' \in [Orders -> Seq(0..Size)] /\ obligation' \subseteq Orders
<1>1. obligation' \subseteq Orders
  BY DEF ApplyHf, IInv, TypeOK
<1>2. CASE ~Admits(o, a)
  BY <1>1, <1>2, BooksKept DEF ApplyHf
<1>3. CASE Admits(o, a)
  <2>1. receipt[o] = None /\ a \in Facts /\ ~Ended(row[o])
    <3>1. receipt[o] = None /\ a.status \notin {"unread", "unknown", "missing"}
      BY <1>3 DEF Admits, Doubts, Answered
    <3>2. a \in Facts
      BY <3>1 DEF Answered, Answers, Facts, Statuses
    <3>3. ~Ended(row[o])
      BY <3>1 DEF IInv, Orderly, Exact
    <3> QED BY <3>1, <3>2, <3>3
  <2> DEFINE e == IF Ended(a) THEN None ELSE cancels[o]
             r == IF Ended(a) THEN a ELSE receipt[o]
  <2>2. e \in Entry \cup {None} /\ r \in Facts \cup {None}
    BY <2>1 DEF IInv, TypeOK
  <2>3. /\ row' = [row EXCEPT ![o] = a] /\ cancels' = [cancels EXCEPT ![o] = e]
        /\ receipt' = [receipt EXCEPT ![o] = r]
    BY <1>3 DEF ApplyHf, IInv, TypeOK
  <2>4. Settle(o, row', cancels', pending)
    BY <1>3 DEF ApplyHf
  <2>5. Rewrites(o, a, e, r)
    <3>1. Ended(a) => a # None
      BY <2>1, NoneAssumption
    <3>2. a.status = "abandoned" => FALSE
      BY DEF Answered, Answers
    <3> QED BY <2>1, <2>3, <3>1, <3>2 DEF Rewrites, Answered
  <2> HIDE DEF e, r
  <2> QED BY <1>1, <2>1, <2>2, <2>4, <2>5, SettleInv DEF Recorded
<1> QED BY <1>2, <1>3

\* Final evidence of a classic row, which gets its record with its receipt.
LEMMA ClassicInv ==
  ASSUME IInv, NEW o \in Orders, kind[o] = "classic", kind' = [kind EXCEPT ![o] = "hf"],
         NEW a \in Facts, Ended(a), venue[o].status = a.status, venue[o].dealt = a.dealt,
         Ended(row[o]) => a = row[o], Admits(o, a), ApplyHf(o, a),
         UNCHANGED <<venue, requests, side, kucoin>>
  PROVE  /\ \A x \in Orders : Orderly(x)'
         /\ row' \in [Orders -> Facts] /\ cancels' \in [Orders -> Entry \cup {None}]
         /\ receipt' \in [Orders -> Facts \cup {None}] /\ pending' \subseteq Orders
         /\ credits' \in [Orders -> Seq(0..Size)] /\ obligation' \subseteq Orders
<1>1. obligation' \subseteq Orders
  BY DEF ApplyHf, IInv, TypeOK
<1>2. /\ row' = [row EXCEPT ![o] = a] /\ cancels' = [cancels EXCEPT ![o] = None]
      /\ receipt' = [receipt EXCEPT ![o] = a] /\ Settle(o, row', cancels', pending)
  BY DEF ApplyHf
<1>3. kind'[o] = "hf" /\ a # None /\ a.status # "abandoned"
  BY NoneAssumption DEF Ended, IInv, TypeOK
<1>4. Rewrites(o, a, None, a)
  BY <1>2, <1>3 DEF Rewrites
<1> QED BY <1>1, <1>2, <1>4, SettleInv DEF Recorded

\* ... and to any other waiting row.
LEMMA PlainInv ==
  ASSUME IInv, NEW o \in Orders, kind[o] \notin {"none", "hf"}, row[o].status = "open",
         NEW a, Answered(o, a), ApplyPlain(o, a), UNCHANGED <<venue, requests, kind, side, kucoin>>
  PROVE  /\ \A x \in Orders : Orderly(x)'
         /\ row' \in [Orders -> Facts] /\ cancels' \in [Orders -> Entry \cup {None}]
         /\ receipt' \in [Orders -> Facts \cup {None}] /\ pending' \subseteq Orders
         /\ credits' \in [Orders -> Seq(0..Size)] /\ obligation' = obligation
<1>1. CASE a.status \in {"unknown", "unread"}
  BY <1>1, BooksKept DEF ApplyPlain, books
<1>2. CASE a.status \notin {"unknown", "unread"}
  <2> DEFINE f == IF a.status = "missing" THEN [status |-> "abandoned", dealt |-> row[o].dealt] ELSE a
  <2>1. f \in Facts
    BY <1>2 DEF Answered, Answers, Facts, Statuses, IInv, TypeOK
  <2>2. /\ row' = [row EXCEPT ![o] = f] /\ cancels' = [cancels EXCEPT ![o] = cancels[o]]
        /\ receipt' = [receipt EXCEPT ![o] = receipt[o]] /\ obligation' = obligation
    BY <1>2 DEF ApplyPlain, IInv, TypeOK
  <2>3. Settle(o, row', cancels', pending)
    BY <1>2 DEF ApplyPlain
  <2>4. f.status = "abandoned" => ~kucoin
    BY DEF Answered, Answers, IInv, Orderly, Placed
  <2>5. Ended(f) => f = a
    BY DEF Ended
  <2>6. receipt[o] = None /\ ~Ended(row[o])
    BY DEF IInv, Orderly, Exact, Ended
  <2>7. Rewrites(o, f, cancels[o], receipt[o])
    BY <2>2, <2>4, <2>5, <2>6 DEF Rewrites, Answered
  <2>8. cancels[o] \in Entry \cup {None} /\ receipt[o] \in Facts \cup {None}
    BY DEF IInv, TypeOK
  <2> HIDE DEF f
  <2> QED BY <2>1, <2>2, <2>3, <2>7, <2>8, SettleInv DEF Recorded
<1> QED BY <1>1, <1>2
-----------------------------------------------------------------------------
\* An idle engine holds nothing.
LEMMA HandEmpty == ASSUME engine' \in {Idle, Down} PROVE InHand'
  BY DEF InHand, Idle, Down

LEMMA ScanInv == ASSUME IInv, NEW o \in Orders, Scan(o) PROVE IInv'
<1> USE DEF onVenue, books, fixed
<1>1. /\ engine' = engine /\ engine = Idle /\ o \in pending /\ Settle(o, row, cancels, pending)
      /\ UNCHANGED <<venue, requests, row, obligation, receipt, known, kucoin, kind, side, selling, cancels, flips, crashes>>
  BY DEF Scan
<1>2. row[o] \in Facts /\ cancels[o] \in Entry \cup {None} /\ receipt[o] \in Facts \cup {None}
  BY DEF IInv, TypeOK
<1>3. Placed(o) /\ Exact(o) /\ Reserved(o)
  BY DEF IInv, Orderly
<1>4. kind[o] # "none"
  BY <1>1, <1>3 DEF Placed
<1>5. /\ row' = [row EXCEPT ![o] = row[o]] /\ cancels' = [cancels EXCEPT ![o] = cancels[o]]
      /\ receipt' = [receipt EXCEPT ![o] = receipt[o]]
  BY <1>1 DEF IInv, TypeOK
<1>6. Rewrites(o, row[o], cancels[o], receipt[o])
  BY <1>1, <1>3, <1>5 DEF Rewrites, Exact, Reserved
<1>7. Settle(o, row', cancels', pending)
  BY <1>1
<1>8. /\ \A x \in Orders : Orderly(x)'
      /\ pending' \subseteq Orders /\ credits' \in [Orders -> Seq(0..Size)]
  BY <1>1, <1>2, <1>4, <1>6, <1>7, SettleInv DEF Recorded
<1>9. polls' \subseteq Orders
  BY DEF Scan, IInv, TypeOK
<1>10. TypeOK'
  BY <1>1, <1>8, <1>9 DEF IInv, TypeOK
<1> QED BY <1>1, <1>8, <1>10, HandEmpty DEF IInv

\* The reads: an answer is in hand that is true of its order.
LEMMA PollReadsInv == ASSUME IInv, NEW o \in Orders, PollReads(o) PROVE IInv'
<1> USE DEF onVenue, books, fixed
<1>1. PICK a \in AnswersFor(o) : engine' = [pc |-> "polled", order |-> o, answer |-> a]
  BY DEF PollReads
<1>2. UNCHANGED <<venue, requests, row, obligation, receipt, known, kucoin, kind, side, selling,
                  cancels, pending, polls, flips, crashes, credits>>
  BY DEF PollReads
<1>3. /\ kind[o] = "hf" \/ row[o].status = "open"
      /\ kind[o] # "none"
  BY DEF PollReads, Waiting, IInv, Orderly, Placed
<1>4. Answered(o, a)
  BY <1>3, AnswerTrue
<1>5. InHand'
  BY <1>1, <1>2, <1>3, <1>4 DEF InHand, Answered, Ended
<1>6. engine' \in Engines
  BY <1>1, <1>4 DEF Engines, Answered
<1> QED BY <1>2, <1>5, <1>6, BooksKept DEF IInv, TypeOK

LEMMA CancelReadsInv == ASSUME IInv, CancelReads PROVE IInv'
<1> USE DEF onVenue, books, fixed
<1>1. PICK o : o = engine.order
  OBVIOUS
<1>2. /\ o \in Orders /\ engine.was \in BOOLEAN /\ engine.reply \in {"rejected", "error"}
      /\ engine.pc = "replied"
  BY <1>1, EngineTyped DEF CancelReads, Rereads, IInv
<1>3. PICK a \in AnswersFor(o) : engine' = [pc |-> "reread", order |-> o, was |-> engine.was,
                                          reply |-> engine.reply, answer |-> a]
  BY <1>1 DEF CancelReads
<1>4. UNCHANGED <<venue, requests, row, obligation, receipt, known, kucoin, kind, side, selling,
                  cancels, pending, polls, flips, crashes, credits>>
  BY DEF CancelReads
<1>5. cancels[o] # None /\ cancels[o].sent /\ kind[o] # "none"
  BY <1>1, <1>2 DEF IInv, InHand, Orderly, Placed
<1>6. Answered(o, a)
  BY <1>2, <1>5, AnswerTrue
<1>7. InHand'
  BY <1>3, <1>4, <1>5, <1>6 DEF InHand, Answered, Ended
<1>8. engine' \in Engines
  BY <1>2, <1>3, <1>6 DEF Engines, Answered
<1> QED BY <1>4, <1>7, <1>8, BooksKept DEF IInv, TypeOK

\* The mark: a first cancel has none of its own out.
LEMMA CancelMarksInv == ASSUME IInv, NEW o \in Orders, CancelMarks(o) PROVE IInv'
<1> USE DEF onVenue, books, fixed
<1>1. /\ cancels[o] # None /\ engine' = [pc |-> "sending", order |-> o, was |-> cancels[o].sent]
      /\ UNCHANGED <<venue, requests, row, obligation, receipt, known, kucoin, kind, side, selling,
                     pending, polls, flips, crashes, credits>>
  BY DEF CancelMarks
<1> DEFINE marked == [registered |-> cancels[o].registered, sent |-> TRUE]
<1>2. cancels[o] \in Entry /\ marked \in Entry /\ [cancels[o] EXCEPT !.sent = TRUE] = marked
  <2>1. cancels[o] \in Entry
    BY <1>1 DEF IInv, TypeOK
  <2>2. PICK b, s : cancels[o] = [registered |-> b, sent |-> s] /\ b \in BOOLEAN
    BY <2>1 DEF Entry
  <2>3. \A t : [[registered |-> b, sent |-> s] EXCEPT !.sent = t] = [registered |-> b, sent |-> t]
    OBVIOUS
  <2>4. [cancels[o] EXCEPT !.sent = TRUE] = [registered |-> b, sent |-> TRUE]
    BY <2>2, <2>3, Zenon
  <2>5. marked = [registered |-> b, sent |-> TRUE]
    BY <2>2
  <2> QED BY <2>1, <2>2, <2>4, <2>5 DEF Entry
<1>3. marked.registered = cancels[o].registered /\ marked.sent = TRUE
  OBVIOUS
<1> HIDE DEF marked
<1>4. cancels' = [cancels EXCEPT ![o] = marked]
  BY <1>2 DEF CancelMarks
<1>5. /\ cancels' \in [Orders -> Entry \cup {None}] /\ cancels'[o] = marked /\ marked # None
      /\ \A x \in Orders \ {o} : cancels'[x] = cancels[x]
  BY <1>2, <1>4, NoneAssumption DEF IInv, TypeOK
<1>6. Orderly(o)'
  <2>1. Placed(o) /\ Exact(o) /\ Owed(o) /\ Reserved(o)
    BY DEF IInv, Orderly
  <2>2. Placed(o)' BY <1>1, <2>1 DEF Placed
  <2>3. Exact(o)' BY <1>1, <2>1 DEF Exact
  <2>4. Owed(o)' BY <1>1, <1>3, <1>5, <2>1 DEF Owed
  <2>5. Reserved(o)' BY <1>1, <1>3, <1>5, <2>1 DEF Reserved, Out
  <2> QED BY <2>2, <2>3, <2>4, <2>5 DEF Orderly
<1>7. \A x \in Orders : Orderly(x)'
  BY <1>1, <1>5, <1>6, Untouched DEF IInv
<1>8. InHand'
  <2>1. ~kucoin \/ cancels[o].sent \/ ~cancels[o].registered \/ ~Out(o)
    BY <1>1 DEF IInv, Orderly, Reserved
  <2>2. engine'.pc = "sending" /\ engine'.order = o /\ engine'.was = cancels[o].sent
    BY <1>1
  <2> QED BY <1>1, <1>3, <1>5, <2>1, <2>2 DEF InHand, Out
<1>9. engine' \in Engines
  BY <1>1, <1>2 DEF Engines, Entry
<1> QED BY <1>1, <1>5, <1>7, <1>8, <1>9 DEF IInv, TypeOK

\* The cancel goes out, of an entry that is marked.
LEMMA CancelSendsInv == ASSUME IInv, CancelSends PROVE IInv'
<1> USE DEF onVenue, books, fixed
<1>1. PICK o, registered, was : o = engine.order /\ registered = cancels[o].registered /\ was = engine.was
  OBVIOUS
<1>2. o \in Orders /\ was \in BOOLEAN /\ engine.pc = "sending"
  BY <1>1, EngineTyped DEF CancelSends, IInv
<1>3. /\ UNCHANGED <<row, obligation, receipt, known, kucoin, kind, side, selling, cancels, pending,
                     polls, flips, crashes, credits>>
  BY DEF CancelSends
<1>4. cancels[o] # None /\ cancels[o].sent /\ kind[o] # "none" /\ registered \in BOOLEAN
  BY <1>1, <1>2 DEF IInv, InHand, TypeOK, Orderly, Placed, Entry
<1>5. /\ requests' \in {requests, requests \cup {<<o, registered>>}}
      /\ venue' = venue \/ (venue[o].status = "open" /\ venue' = CancelledBy(o, By(registered)))
  BY <1>1 DEF CancelSends
<1>6. PICK r \in {"ok", "rejected", "error"} :
        /\ engine' = [pc |-> "replied", order |-> o, was |-> was, reply |-> r]
        /\ r = "rejected" => venue' = venue /\ requests' = requests
  BY <1>1 DEF CancelSends
<1>7. venue' = venue \/ (Moves(o) /\ venue'[o].by = By(registered))
  <2>1. By(registered) \in {"venue", "cancel", "reserve"}
    BY DEF By
  <2> QED BY <1>2, <1>5, <2>1, CancelMoves
<1>8. \A x \in Orders :
        /\ Ended(venue[x]) \/ venue[x].status = "none" =>
             venue'[x].status = venue[x].status /\ venue'[x].dealt = venue[x].dealt
        /\ venue[x].status # "none" => venue'[x].status # "none"
        /\ venue'[x].status = "open" => venue'[x].dealt < Size
        /\ x # o => (Out(x)' => Out(x))
  <2>1. \A x \in Orders : venue[x].status = "open" => venue[x].dealt < Size
    BY DEF IInv, Orderly, Placed
  <2>2. \A x \in Orders : x # o => (<<x, TRUE>> \in requests' => <<x, TRUE>> \in requests)
    BY <1>5
  <2> QED BY <1>7, <2>1, <2>2 DEF Moves, Ended, Out
<1>9. Out(o)' => Out(o) \/ registered = TRUE
  <2>1. By(registered) = "reserve" => registered = TRUE
    BY <1>4 DEF By
  <2>2. <<o, TRUE>> \in requests' => <<o, TRUE>> \in requests \/ registered = TRUE
    <3>1. PICK yes : yes = TRUE
      OBVIOUS
    <3>2. <<o, yes>> \in requests' => <<o, yes>> \in requests \/ registered = yes
      BY <1>5
    <3> QED BY <3>1, <3>2, Zenon
  <2>3. venue'[o].by = "reserve" => venue[o].by = "reserve" \/ registered = TRUE
    BY <1>7, <2>1
  <2> QED BY <2>2, <2>3 DEF Out
<1>10. \A x \in Orders, b \in BOOLEAN : <<x, b>> \in requests' => <<x, b>> \in requests \/ kind[x] # "none"
  BY <1>4, <1>5
<1>11. \A x \in Orders : Orderly(x)'
  BY <1>1, <1>3, <1>4, <1>8, <1>9, <1>10, VenueMoves DEF IInv
<1>12. InHand'
  <2>1. ~kucoin \/ was \/ ~cancels[o].registered \/ ~Out(o)
    BY <1>1, <1>2 DEF IInv, InHand
  <2>2. r = "rejected" => (Out(o)' <=> Out(o))
    BY <1>6 DEF Out
  <2>3. engine'.pc = "replied" /\ engine'.order = o /\ engine'.was = was /\ engine'.reply = r
    BY <1>6
  <2> QED BY <1>3, <1>4, <2>1, <2>2, <2>3 DEF InHand, Out
<1>13. TypeOK'
  <2>1. venue' \in [Orders -> Venues]
    BY <1>7 DEF Moves, IInv, TypeOK, Venues
  <2>2. requests' \subseteq Orders \X BOOLEAN
    BY <1>2, <1>4, <1>5 DEF IInv, TypeOK
  <2>3. engine' \in Engines
    BY <1>2, <1>6 DEF Engines
  <2> QED BY <1>3, <2>1, <2>2, <2>3 DEF IInv, TypeOK, Venues
<1> QED BY <1>11, <1>12, <1>13 DEF IInv
-----------------------------------------------------------------------------
\* A poll's answer applied.
LEMMA PollAppliesInv == ASSUME IInv, PollApplies PROVE IInv'
<1> USE DEF onVenue, fixed
<1>1. PICK o, a : o = engine.order /\ a = engine.answer
  OBVIOUS
<1>2. /\ engine.pc = "polled" /\ engine' = Idle /\ Apply(o, a)
      /\ UNCHANGED <<venue, requests, known, kucoin, kind, side, selling, flips, crashes>>
  BY <1>1 DEF PollApplies
<1>3. /\ o \in Orders /\ Answered(o, a) /\ kind[o] # "none"
      /\ kind[o] = "hf" \/ row[o].status = "open"
  BY <1>1, <1>2, EngineTyped DEF IInv, InHand, Answered
<1>4. /\ \A x \in Orders : Orderly(x)'
      /\ row' \in [Orders -> Facts] /\ cancels' \in [Orders -> Entry \cup {None}]
      /\ receipt' \in [Orders -> Facts \cup {None}] /\ pending' \subseteq Orders
      /\ credits' \in [Orders -> Seq(0..Size)] /\ obligation' \subseteq Orders
  <2>1. CASE kind[o] = "hf"
    BY <1>2, <1>3, <2>1, HfInv DEF Apply
  <2>2. CASE kind[o] # "hf"
    <3>1. obligation \subseteq Orders
      BY DEF IInv, TypeOK
    <3> QED BY <1>2, <1>3, <2>2, <3>1, PlainInv DEF Apply
  <2> QED BY <2>1, <2>2
<1>5. polls' \subseteq Orders
  BY DEF PollApplies, IInv, TypeOK
<1>6. TypeOK'
  BY <1>2, <1>4, <1>5 DEF IInv, TypeOK, Engines
<1> QED BY <1>2, <1>4, <1>6, HandEmpty DEF IInv

\* A cancel that failed takes its reserve with it only when none of its cancels is out.
LEMMA FailedInv ==
  ASSUME IInv, NEW o \in Orders, cancels[o] # None, Failed(o),
         ~kucoin \/ ~cancels[o].registered \/ ~Out(o),
         UNCHANGED <<venue, requests, kind, side, kucoin>>
  PROVE  /\ \A x \in Orders : Orderly(x)'
         /\ row' \in [Orders -> Facts] /\ cancels' \in [Orders -> Entry \cup {None}]
         /\ receipt' \in [Orders -> Facts \cup {None}] /\ pending' \subseteq Orders
         /\ credits' \in [Orders -> Seq(0..Size)]
<1>1. UNCHANGED <<row, receipt, obligation, polls, credits>>
  BY DEF Failed, books
<1>2. /\ cancels' \in [Orders -> Entry \cup {None}] /\ cancels'[o] = None
      /\ \A x \in Orders \ {o} : cancels'[x] = cancels[x]
  BY DEF Failed, IInv, TypeOK
<1>3. /\ pending' \subseteq Orders
      /\ \A x \in Orders \ {o} : x \in pending' <=> x \in pending
      /\ ~cancels[o].registered => (o \in pending' <=> o \in pending)
      /\ o \in pending' => o \in pending
  BY DEF Failed, IInv, TypeOK
<1>4. Placed(o) /\ Exact(o) /\ Owed(o) /\ Reserved(o)
  BY DEF IInv, Orderly
<1>5. Placed(o)' BY <1>1, <1>2, <1>3, <1>4 DEF Placed
<1>6. Exact(o)' BY <1>1, <1>4 DEF Exact
<1>7. Owed(o)' BY <1>1, <1>2, <1>3, <1>4 DEF Owed
<1>8. Reserved(o)' BY <1>1, <1>2, <1>3, <1>4 DEF Reserved, Out
<1>9. \A x \in Orders : Orderly(x)'
  BY <1>1, <1>2, <1>3, <1>5, <1>6, <1>7, <1>8, Untouched DEF IInv, Orderly
<1> QED BY <1>1, <1>2, <1>3, <1>9 DEF IInv, TypeOK

\* A cancel that stands takes its entry, and settles the row if it is final.
LEMMA CancelledInv ==
  ASSUME IInv, NEW o \in Orders, kind[o] # "none", Cancelled(o),
         UNCHANGED <<venue, requests, kind, side, kucoin>>
  PROVE  /\ \A x \in Orders : Orderly(x)'
         /\ row' \in [Orders -> Facts] /\ cancels' \in [Orders -> Entry \cup {None}]
         /\ receipt' \in [Orders -> Facts \cup {None}] /\ pending' \subseteq Orders
         /\ credits' \in [Orders -> Seq(0..Size)]
<1>1. row[o] \in Facts /\ receipt[o] \in Facts \cup {None} /\ Exact(o) /\ Reserved(o)
  BY DEF IInv, TypeOK, Orderly
<1>2. /\ row' = [row EXCEPT ![o] = row[o]] /\ cancels' = [cancels EXCEPT ![o] = None]
      /\ receipt' = [receipt EXCEPT ![o] = receipt[o]]
  BY DEF Cancelled, books, IInv, TypeOK
<1>3. Settle(o, row', cancels', pending)
  BY DEF Cancelled, books
<1>4. Rewrites(o, row[o], None, receipt[o])
  BY <1>1, <1>2 DEF Rewrites, Exact, Reserved
<1> QED BY <1>1, <1>3, <1>4, SettleInv DEF Recorded

\* The outcome of a cancel is recorded.
LEMMA CancelRecordsInv == ASSUME IInv, CancelRecords PROVE IInv'
<1> USE DEF onVenue, fixed
<1>1. PICK o, a : o = engine.order /\ a = engine.answer
  OBVIOUS
<1>2. /\ engine.pc \in {"replied", "reread"} /\ engine' = Idle
      /\ UNCHANGED <<venue, requests, known, kucoin, kind, side, selling, flips, crashes>>
  BY DEF CancelRecords
<1>3. /\ o \in Orders /\ engine.was \in BOOLEAN /\ engine.reply \in {"ok", "rejected", "error"}
      /\ cancels[o] # None
  BY <1>1, <1>2, EngineTyped DEF IInv, InHand
<1>4. kind[o] # "none" /\ polls \cup {o} \subseteq Orders
  BY <1>3 DEF IInv, Orderly, Placed, TypeOK
<1>5. engine.pc = "reread" => Answered(o, a)
  BY <1>1, <1>3, EngineTyped DEF IInv, InHand, Answered
<1>6. engine.pc = "replied" /\ engine.reply = "rejected" =>
        ~kucoin \/ engine.was \/ ~cancels[o].registered \/ ~Out(o)
  BY <1>1 DEF IInv, InHand
<1> DEFINE Ordered == /\ \A x \in Orders : Orderly(x)'
                      /\ row' \in [Orders -> Facts] /\ cancels' \in [Orders -> Entry \cup {None}]
                      /\ receipt' \in [Orders -> Facts \cup {None}] /\ pending' \subseteq Orders
                      /\ credits' \in [Orders -> Seq(0..Size)]
<1> DEFINE Rest == obligation' \subseteq Orders /\ polls' \subseteq Orders
<1>7. ASSUME Failed(o), ~kucoin \/ ~cancels[o].registered \/ ~Out(o) PROVE Ordered /\ Rest
  <2>1. Rest
    BY <1>7 DEF Failed, books, IInv, TypeOK
  <2> QED BY <1>2, <1>3, <1>7, <2>1, FailedInv
<1>8. ASSUME Keeps PROVE Ordered /\ Rest
  <2>1. Rest
    BY <1>8 DEF Keeps, books, IInv, TypeOK
  <2>2. Ordered
    BY <1>2, <1>8, BooksKept DEF Keeps, books
  <2> QED BY <2>1, <2>2
<1>9. ASSUME kind[o] = "hf" PROVE Ordered /\ Rest
  <2>1. CASE UNCHANGED <<books, cancels, pending, credits>> /\ polls' = polls \cup {o}
    <3>1. Rest
      BY <1>4, <2>1 DEF books, IInv, TypeOK
    <3>2. Ordered
      BY <1>2, <2>1, BooksKept DEF books
    <3> QED BY <3>1, <3>2
  <2>2. CASE engine.pc = "replied" /\ engine.reply = "rejected" /\ Failed(o)
    <3>1. ~engine.was
      BY <1>1, <1>9, <2>2 DEF CancelRecords, Rereads
    <3> QED BY <1>6, <1>7, <2>2, <3>1
  <2>3. CASE engine.pc = "reread" /\ ApplyHf(o, a) /\ polls' = polls \cup {o}
    <3> HIDE DEF Ordered
    <3>1. Ordered /\ obligation' \subseteq Orders
      BY <1>2, <1>3, <1>5, <1>9, <2>3, HfInv DEF Ordered
    <3> QED BY <1>4, <2>3, <3>1
  <2> QED BY <1>1, <1>8, <1>9, <2>1, <2>2, <2>3 DEF CancelRecords
<1>10. ASSUME kind[o] # "hf" PROVE Ordered /\ Rest
  <2>1. CASE Cancelled(o)
    <3>1. Rest
      BY <1>4, <2>1 DEF Cancelled, books, IInv, TypeOK
    <3>2. Ordered
      BY <1>2, <1>3, <1>4, <2>1, CancelledInv
    <3> QED BY <3>1, <3>2
  <2>2. CASE ~ProvesCancelled /\ ~Uncertain /\ Failed(o)
    <3>1. CASE ~kucoin
      BY <1>7, <2>2, <3>1
    <3>2. CASE kucoin
      <4>1. engine.pc = "replied" /\ engine.reply = "rejected"
        BY <1>2, <1>3, <2>2, <3>2 DEF ProvesCancelled, Uncertain
      <4>2. ~engine.was
        BY <1>1, <1>10, <4>1 DEF CancelRecords, Rereads
      <4> QED BY <1>6, <1>7, <2>2, <4>1, <4>2
    <3> QED BY <3>1, <3>2
  <2> HIDE DEF Ordered, Rest
  <2> QED BY <1>1, <1>8, <1>10, <2>1, <2>2 DEF CancelRecords
<1>11. TypeOK'
  BY <1>2, <1>9, <1>10 DEF IInv, TypeOK, Engines
<1> QED BY <1>2, <1>9, <1>10, <1>11, HandEmpty DEF IInv

\* The operator's evidence is what the venue ended the order with.
LEMMA OperatorInv == ASSUME IInv, NEW o \in Orders, OperatorReconciles(o) PROVE IInv'
<1> USE DEF onVenue
<1> DEFINE a == [status |-> venue[o].status, dealt |-> venue[o].dealt]
<1>1. /\ engine' = engine /\ engine = Down /\ kind[o] \in {"hf", "classic"} /\ Ended(a)
      /\ Ended(row[o]) => a = row[o]
      /\ Admits(o, a) \/ a = receipt[o]
      /\ kind' = [kind EXCEPT ![o] = "hf"] /\ ApplyHf(o, a)
      /\ UNCHANGED <<venue, requests, known, kucoin, side, selling, polls, flips, crashes>>
  BY DEF OperatorReconciles
<1>2. Answered(o, a) /\ a \in Facts /\ venue[o].status = a.status /\ venue[o].dealt = a.dealt
  BY <1>1 DEF Answered, Answers, Ended, Facts, IInv, TypeOK
<1> HIDE DEF a
<1>3. CASE kind[o] = "hf"
  <2>1. kind' = kind
    BY <1>1, <1>3 DEF IInv, TypeOK
  <2>2. TypeOK'
    BY <1>1, <1>2, <1>3, <2>1, HfInv DEF IInv, TypeOK
  <2> QED BY <1>1, <1>2, <1>3, <2>1, <2>2, HfInv, HandEmpty DEF IInv
<1>4. CASE kind[o] = "classic"
  <2>1. Admits(o, a)
    BY <1>1, <1>2, <1>4, NoneAssumption DEF IInv, Orderly, Exact
  <2>2. TypeOK'
    BY <1>1, <1>2, <1>4, <2>1, ClassicInv DEF IInv, TypeOK
  <2> QED BY <1>1, <1>2, <1>4, <2>1, <2>2, ClassicInv, HandEmpty DEF IInv
<1> QED BY <1>1, <1>3, <1>4

LEMMA RestartInv == ASSUME IInv, Crash \/ Start PROVE IInv'
<1> USE BoundsAssumption DEF onVenue, books, fixed
<1>1. /\ UNCHANGED <<venue, requests, row, obligation, receipt, known, kucoin, kind, side, selling,
                     cancels, pending, flips, credits>>
      /\ engine' \in {Idle, Down}
  BY DEF Crash, Start
<1>2. crashes' \in 0..MaxCrashes /\ polls' \subseteq Orders
  BY DEF Crash, Start, Waiting, IInv, TypeOK
<1>3. TypeOK'
  BY <1>1, <1>2 DEF IInv, TypeOK, Engines
<1> QED BY <1>1, <1>3, BooksKept, HandEmpty DEF IInv

LEMMA NextInv == IInv /\ [Next]_vars => IInv'
<1> SUFFICES ASSUME IInv, [Next]_vars PROVE IInv'
  OBVIOUS
<1>1. CASE Next
  BY <1>1, VenueInv, OperatorInv, ReverseInv, PlaceInv, PollReadsInv, ScanInv, CancelMarksInv,
     PollAppliesInv, CancelSendsInv, CancelReadsInv, CancelRecordsInv, RestartInv
     DEF Next, Environment
<1>2. CASE UNCHANGED vars
  <2>1. TypeOK' /\ InHand'
    BY <1>2 DEF vars, IInv, TypeOK, InHand, Out, Ended
  <2> QED BY <1>2, <2>1, BooksKept DEF vars, IInv
<1> QED BY <1>1, <1>2

LEMMA Invariance == Spec => []IInv
  BY InitInv, NextInv, PTL DEF Spec

-----------------------------------------------------------------------------
\* The state keeps its types.
THEOREM ReversalTyped == Spec => []TypeOK
<1>1. IInv => TypeOK BY DEF IInv
<1> QED BY <1>1, Invariance, PTL

\* A reserve is returned once, after the venue ended the order, and is what was left
\* undealt: whoever settles the row first (reversal::settle).
THEOREM CreditsRight == Spec => []CreditedRight
<1>1. IInv => CreditedRight
  BY DEF IInv, Orderly, Exact, Owed, CreditedRight, Ended
<1> QED BY <1>1, Invariance, PTL

\* On KuCoin a buy ended by a reversal's registered cancel is owed or credited
\* (cancel_captured, hf_cancel).
ReserveKept ==
  \A o \in Orders :
    kucoin /\ venue[o].by = "reserve" => o \in pending \/ credits[o] # <<>>

\* A cancel that may have gone out never costs the reserve of the order it ended.
THEOREM ReservesKept == Spec => []ReserveKept
<1>1. IInv => ReserveKept
  BY DEF IInv, Orderly, Reserved, Out, ReserveKept
<1> QED BY <1>1, Invariance, PTL

\* No answer, poll, cancel or evidence changes a row that has its receipt (reconcile::admit).
THEOREM SettledOnce == Spec => SettledForGood
<1>1. ASSUME IInv, [Next]_vars, NEW o \in Orders, receipt[o] # None
      PROVE  receipt'[o] = receipt[o] /\ row'[o] = row[o]
  <2> USE DEF books
  <2>1. ASSUME NEW x \in Orders, NEW a, ApplyHf(x, a)
        PROVE  receipt'[o] = receipt[o] /\ row'[o] = row[o]
    BY <1>1, <2>1 DEF ApplyHf, Admits, IInv, TypeOK
  <2>2. kind[o] = "hf"
    BY <1>1 DEF IInv, Orderly, Exact
  <2>3. CASE UNCHANGED books
    BY <2>3
  <2>4. ASSUME NEW x \in Orders, NEW k, Place(x, k)
        PROVE  receipt'[o] = receipt[o] /\ row'[o] = row[o]
    BY <2>2, <2>4 DEF Place, IInv, TypeOK
  <2>5. CASE PollApplies
    <3>1. engine.order \in Orders
      BY <1>1, <2>5, EngineTyped DEF PollApplies, IInv
    <3>2. CASE kind[engine.order] = "hf"
      BY <2>1, <2>5, <3>1, <3>2 DEF PollApplies, Apply
    <3>3. CASE kind[engine.order] # "hf"
      BY <1>1, <2>2, <2>5, <3>1, <3>3 DEF PollApplies, Apply, ApplyPlain, IInv, TypeOK
    <3> QED BY <3>2, <3>3
  <2>6. CASE CancelRecords
    <3>1. engine.order \in Orders
      BY <1>1, <2>6, EngineTyped DEF CancelRecords, IInv
    <3> QED BY <2>1, <2>3, <2>6, <3>1 DEF CancelRecords, Cancelled, Failed, Keeps
  <2>7. ASSUME NEW x \in Orders, OperatorReconciles(x)
        PROVE  receipt'[o] = receipt[o] /\ row'[o] = row[o]
    BY <2>1, <2>7 DEF OperatorReconciles
  <2>8. ASSUME \/ \E x \in Orders : \/ VenueFills(x) \/ VenueEnds(x) \/ LedgerImports(x)
                                  \/ \E b \in BOOLEAN : CancelArrives(x, b)
                                  \/ PollReads(x) \/ Scan(x) \/ CancelMarks(x)
               \/ Reverse \/ CancelSends \/ CancelReads \/ Crash \/ Start \/ UNCHANGED vars
        PROVE  UNCHANGED books
    BY <2>8 DEF VenueFills, VenueEnds, LedgerImports, CancelArrives, PollReads, Scan, CancelMarks,
                Reverse, CancelSends, CancelReads, Crash, Start, vars
  <2> QED BY <1>1, <2>3, <2>4, <2>5, <2>6, <2>7, <2>8 DEF Next, Environment
<1>2. IInv /\ [Next]_vars =>
        [\A o \in Orders : receipt[o] # None => receipt'[o] = receipt[o] /\ row'[o] = row[o]]_vars
  BY <1>1
<1> QED BY <1>2, Invariance, PTL DEF Spec, SettledForGood

-----------------------------------------------------------------------------
(* Reversal implements ReserveLedger. *)

view == <<kucoin, {o \in Orders : side[o] = "buy"}, [o \in Orders |-> State(o)],
          [o \in Orders |-> venue[o].dealt], {o \in Orders : venue[o].by = "reserve"},
          [o \in Orders |-> Reserve(o)], credits>>

\* Who ended an order is known only once it has ended, and its side once it is placed.
Unended ==
  \A o \in Orders : /\ Ended(venue[o]) \/ venue[o].by = "none"
                    /\ kind[o] = "none" => side[o] = "none"

LEMMA UnendedStays == ASSUME IInv, Unended, [Next]_vars PROVE Unended'
<1> USE DEF onVenue, books, fixed
<1>1. ASSUME NEW o \in Orders, NEW who, venue' = CancelledBy(o, who), UNCHANGED <<kind, side>>
      PROVE  Unended'
  BY <1>1 DEF CancelledBy, Unended, Ended, IInv, TypeOK
<1>2. ASSUME NEW o \in Orders, VenueFills(o) PROVE Unended'
  BY <1>2 DEF VenueFills, Unended, Ended, IInv, TypeOK
<1>3. ASSUME NEW o \in Orders, NEW k, Place(o, k) PROVE Unended'
  <2>1. venue[o].by = "none"
    BY <1>3 DEF Place, Unended, IInv, Orderly, Placed, Ended
  <2> QED BY <1>3, <2>1 DEF Place, Unended, Ended, IInv, TypeOK
<1>4. CASE CancelSends
  <2>1. engine.order \in Orders /\ UNCHANGED <<kind, side>>
    BY <1>4, EngineTyped DEF CancelSends, IInv
  <2>2. venue' = venue \/ \E who : venue' = CancelledBy(engine.order, who)
    BY <1>4 DEF CancelSends
  <2> QED BY <1>1, <2>1, <2>2 DEF Unended
<1>5. CASE UNCHANGED <<venue, kind, side>>
  BY <1>5 DEF Unended
<1>6. ASSUME NEW o \in Orders, VenueEnds(o) \/ \E b \in BOOLEAN : CancelArrives(o, b)
      PROVE  Unended'
  <2>1. /\ UNCHANGED <<kind, side>>
        /\ venue' = venue \/ \E who : venue' = CancelledBy(o, who)
    BY <1>6 DEF VenueEnds, CancelArrives
  <2> QED BY <1>1, <1>5, <2>1
<1>7. ASSUME NEW o \in Orders, OperatorReconciles(o) PROVE Unended'
  BY <1>7 DEF OperatorReconciles, Unended, IInv, TypeOK
<1> QED BY <1>2, <1>3, <1>4, <1>5, <1>6, <1>7 DEF Next, Environment, LedgerImports, Reverse,
     PollReads, Scan, CancelMarks, PollApplies, CancelReads, CancelRecords, Crash, Start, vars

\* What leaves the orders, their ends and their reserves alone is no step of the ledger.
LEMMA NoStep ==
  ASSUME UNCHANGED <<venue, side, kucoin, pending, credits>> PROVE UNCHANGED view
  BY DEF view, State, Reserve, Ended

\* A reserve that moves, of one order.
LEMMA ReserveMoves ==
  ASSUME NEW o \in Orders, NEW to,
         \A x \in Orders \ {o} : (x \in pending' <=> x \in pending) /\ credits'[x] = credits[x],
         Reserve(o)' = to
  PROVE  [x \in Orders |-> Reserve(x)]' = [[x \in Orders |-> Reserve(x)] EXCEPT ![o] = to]
  BY DEF Reserve

\* A settlement returns the reserve of an order its venue ended, exactly, or gives up that
\* of an abandoned one, of which KuCoin has none.
LEMMA SettleRefines ==
  ASSUME IInv, IInv', NEW o \in Orders, NEW entries, Settle(o, row', entries, pending),
         UNCHANGED <<venue, side, kucoin>>
  PROVE  Ledger!Next \/ UNCHANGED view
<1> DEFINE due == Settles(o, row', entries, pending)
<1>1. CASE ~due
  BY <1>1, NoStep DEF Settle
<1>2. CASE due
  <2>1. o \in pending /\ pending' = pending \ {o} /\ (Ended(row'[o]) \/ row'[o].status = "abandoned")
    BY <1>2 DEF Settle, Settles
  <2>2. /\ UNCHANGED {x \in Orders : side[x] = "buy"} /\ UNCHANGED [x \in Orders |-> State(x)]
        /\ UNCHANGED [x \in Orders |-> venue[x].dealt] /\ UNCHANGED {x \in Orders : venue[x].by = "reserve"}
    BY DEF State, Ended
  <2>3. [x \in Orders |-> Reserve(x)][o] = "owed" /\ credits[o] = <<>> /\ credits \in [Orders -> Seq(0..Size)]
    BY <2>1 DEF Reserve, IInv, TypeOK, Orderly, Owed
  <2>4. CASE Ended(row'[o])
    <3>1. venue[o].status = row'[o].status /\ venue[o].dealt = row'[o].dealt
      BY <2>4 DEF IInv, Orderly, Exact
    <3>2. [x \in Orders |-> State(x)][o] = "ended"
      BY <2>4, <3>1 DEF State, Ended
    <3>3. credits' = [credits EXCEPT ![o] = <<Size - venue[o].dealt>>]
      <4>1. credits' = [credits EXCEPT ![o] = Append(credits[o], Size - row'[o].dealt)]
        BY <1>2, <2>4 DEF Settle
      <4>2. Append(<< >>, Size - venue[o].dealt) = <<Size - venue[o].dealt>>
        OBVIOUS
      <4> QED BY <2>3, <3>1, <4>1, <4>2
    <3>4. credits'[o] # <<>> /\ \A x \in Orders \ {o} : credits'[x] = credits[x]
      BY <2>3, <3>3
    <3>5. [x \in Orders |-> Reserve(x)]' = [[x \in Orders |-> Reserve(x)] EXCEPT ![o] = "returned"]
      <4>1. Reserve(o)' = "returned"
        BY <2>1, <3>4 DEF Reserve
      <4> QED BY <2>1, <3>4, <4>1, ReserveMoves
    <3>6. Ledger!Returns(o)
      BY <2>2, <2>3, <3>2, <3>3, <3>5 DEF Ledger!Returns
    <3> QED BY <3>6 DEF Ledger!Next
  <2>5. CASE ~Ended(row'[o])
    <3>1. ~kucoin
      BY <2>1, <2>5 DEF IInv, Orderly, Reserved
    <3>2. credits' = credits
      BY <2>5 DEF Settle
    <3>3. [x \in Orders |-> Reserve(x)]' = [[x \in Orders |-> Reserve(x)] EXCEPT ![o] = "none"]
      <4>1. Reserve(o)' = "none"
        BY <2>1, <2>3, <3>2 DEF Reserve
      <4> QED BY <2>1, <3>2, <4>1, ReserveMoves
    <3>4. Ledger!GivesUp(o)
      BY <2>2, <2>3, <3>1, <3>2, <3>3 DEF Ledger!GivesUp
    <3> QED BY <3>4 DEF Ledger!Next
  <2> QED BY <2>4, <2>5
<1> QED BY <1>1, <1>2

\* A failed cancel gives its reserve up, on KuCoin only while none of its cancels is out.
LEMMA FailedRefines ==
  ASSUME IInv, IInv', NEW o \in Orders, Failed(o), UNCHANGED <<venue, side, kucoin>>
  PROVE  Ledger!Next \/ UNCHANGED view
<1>1. credits' = credits
  BY DEF Failed
<1>2. CASE pending' = pending
  BY <1>1, <1>2, NoStep
<1>3. CASE o \in pending /\ pending' = pending \ {o}
  <2>1. credits[o] = <<>> /\ Reserved(o)'
    BY <1>3 DEF IInv, Orderly, Owed
  <2>2. ~(kucoin /\ o \in {x \in Orders : venue[x].by = "reserve"})
    BY <1>1, <1>3, <2>1 DEF Reserved, Out
  <2>3. [x \in Orders |-> Reserve(x)]' = [[x \in Orders |-> Reserve(x)] EXCEPT ![o] = "none"]
    <3>1. Reserve(o)' = "none"
      BY <1>1, <1>3, <2>1 DEF Reserve
    <3> QED BY <1>1, <1>3, <3>1, ReserveMoves
  <2>4. [x \in Orders |-> Reserve(x)][o] = "owed"
    BY <1>3 DEF Reserve
  <2>5. /\ UNCHANGED {x \in Orders : side[x] = "buy"} /\ UNCHANGED [x \in Orders |-> State(x)]
        /\ UNCHANGED [x \in Orders |-> venue[x].dealt] /\ UNCHANGED {x \in Orders : venue[x].by = "reserve"}
    BY DEF State, Ended
  <2>6. Ledger!GivesUp(o)
    BY <1>1, <2>2, <2>3, <2>4, <2>5 DEF Ledger!GivesUp
  <2> QED BY <2>6 DEF Ledger!Next
<1> QED BY <1>2, <1>3 DEF Failed

\* The venue deals one unit of an order, and ends it with the last.
LEMMA FillRefines ==
  ASSUME IInv, NEW o \in Orders, VenueFills(o) PROVE Ledger!Next
<1> USE DEF books, fixed
<1>1. /\ Moves(o) /\ venue'[o].by = venue[o].by /\ venue \in [Orders -> Venues]
      /\ UNCHANGED <<side, kucoin, pending, credits>>
  BY FillMoves DEF VenueFills, IInv, TypeOK, Venues
<1>2. venue'[o].dealt = venue[o].dealt + 1
  BY <1>1 DEF VenueFills, Venues
<1>3. [x \in Orders |-> State(x)][o] = "live" /\ State(o)' \in {"live", "ended"}
  BY <1>1 DEF Moves, State, Ended
<1>4. [x \in Orders |-> State(x)]' = [[x \in Orders |-> State(x)] EXCEPT ![o] = State(o)']
  BY <1>1 DEF Moves, State, Ended
<1>5. [x \in Orders |-> State(x)]' \in
        {[x \in Orders |-> State(x)], [[x \in Orders |-> State(x)] EXCEPT ![o] = "ended"]}
  BY <1>3, <1>4
<1>6. [x \in Orders |-> venue[x].dealt]' = [[x \in Orders |-> venue[x].dealt] EXCEPT ![o] = @ + 1]
  BY <1>1, <1>2 DEF Moves
<1>7. UNCHANGED {x \in Orders : venue[x].by = "reserve"}
  BY <1>1 DEF Moves
<1>8. UNCHANGED {x \in Orders : side[x] = "buy"} /\ UNCHANGED [x \in Orders |-> Reserve(x)]
  BY <1>1 DEF Reserve
<1>9. Ledger!Deals(o)
  BY <1>1, <1>3, <1>5, <1>6, <1>7, <1>8 DEF Ledger!Deals
<1> QED BY <1>9 DEF Ledger!Next

\* A cancel ends an order; KuCoin's orders not with a reserve's cancel when none is owed.
LEMMA CancelRefines ==
  ASSUME IInv, IInv', Unended, NEW o \in Orders, NEW who \in {"venue", "cancel", "reserve"},
         venue[o].status = "open", venue' = CancelledBy(o, who),
         UNCHANGED <<side, kucoin, pending, credits>>
  PROVE  Ledger!Next
<1>1. Moves(o) /\ venue'[o].by = who /\ venue \in [Orders -> Venues]
  BY CancelMoves DEF IInv, TypeOK, Venues
<1>2. venue'[o].dealt = venue[o].dealt /\ venue'[o].status = "cancelled"
  BY <1>1 DEF CancelledBy, Venues
<1>3. [x \in Orders |-> State(x)][o] = "live"
  BY DEF State, Ended
<1>4. [x \in Orders |-> State(x)]' = [[x \in Orders |-> State(x)] EXCEPT ![o] = "ended"]
  BY <1>1, <1>2 DEF Moves, State, Ended
<1>5. UNCHANGED [x \in Orders |-> venue[x].dealt]
  BY <1>1, <1>2 DEF Moves
<1>6. UNCHANGED {x \in Orders : side[x] = "buy"} /\ UNCHANGED [x \in Orders |-> Reserve(x)]
  BY DEF Reserve
<1>7. \/ UNCHANGED {x \in Orders : venue[x].by = "reserve"}
      \/ /\ {x \in Orders : venue[x].by = "reserve"}' = {x \in Orders : venue[x].by = "reserve"} \cup {o}
         /\ kucoin => [x \in Orders |-> Reserve(x)][o] # "none"
  <2>1. venue[o].by = "none"
    BY DEF Unended, Ended
  <2>2. CASE who # "reserve"
    BY <1>1, <2>1, <2>2 DEF Moves
  <2>3. CASE who = "reserve"
    <3>1. {x \in Orders : venue[x].by = "reserve"}' = {x \in Orders : venue[x].by = "reserve"} \cup {o}
      BY <1>1, <2>3 DEF Moves
    <3>2. kucoin => [x \in Orders |-> Reserve(x)][o] # "none"
      BY <1>1, <2>3 DEF IInv, Orderly, Reserved, Out, Reserve
    <3> QED BY <3>1, <3>2
  <2> QED BY <2>2, <2>3
<1>8. Ledger!Ends(o)
  BY <1>3, <1>4, <1>5, <1>6, <1>7 DEF Ledger!Ends
<1> QED BY <1>8 DEF Ledger!Next

LEMMA PlaceRefines ==
  ASSUME IInv, Unended, NEW o \in Orders, NEW k, Place(o, k) PROVE Ledger!Next
<1>1. /\ kucoin' = kucoin /\ pending' = pending /\ credits' = credits
      /\ side' = [side EXCEPT ![o] = IF selling THEN "sell" ELSE "buy"]
      /\ venue' = [venue EXCEPT ![o] = [venue[o] EXCEPT !.status = "open"]]
      /\ venue \in [Orders -> Venues] /\ side \in [Orders -> {"none", "buy", "sell"}]
  BY DEF Place, IInv, TypeOK, Venues
<1>2. venue[o].status = "none" /\ o \notin pending /\ credits[o] = <<>>
  BY DEF Place, IInv, Orderly, Placed
<1>3. /\ venue'[o].status = "open" /\ venue'[o].dealt = venue[o].dealt /\ venue'[o].by = venue[o].by
      /\ \A x \in Orders \ {o} : venue'[x] = venue[x] /\ side'[x] = side[x]
  BY <1>1 DEF Venues
<1>4. [x \in Orders |-> State(x)][o] = "none"
  BY <1>2 DEF State, Ended
<1>5. [x \in Orders |-> State(x)]' = [[x \in Orders |-> State(x)] EXCEPT ![o] = "live"]
  BY <1>3 DEF State, Ended
<1>6. UNCHANGED [x \in Orders |-> venue[x].dealt] /\ UNCHANGED {x \in Orders : venue[x].by = "reserve"}
  BY <1>3
<1>7. UNCHANGED [x \in Orders |-> Reserve(x)]
  BY <1>1 DEF Reserve
<1>8. side[o] # "buy"
  BY DEF Place, Unended
<1>9. {x \in Orders : side[x] = "buy"}' \in
        {{x \in Orders : side[x] = "buy"}, {x \in Orders : side[x] = "buy"} \cup {o}}
  BY <1>1, <1>3, <1>8
<1>10. Ledger!Places(o)
  BY <1>1, <1>4, <1>5, <1>6, <1>7, <1>9 DEF Ledger!Places
<1> QED BY <1>10 DEF Ledger!Next

\* A reversal registers buys that have no reserve.
LEMMA ReverseRefines == ASSUME IInv, Reverse PROVE Ledger!Next
<1> USE DEF onVenue, books, fixed
<1> DEFINE captured == {o \in Waiting : cancels[o] = None}
           new == {o \in captured : ~selling /\ side[o] = "buy" /\ o \notin pending}
<1>1. UNCHANGED <<venue, side, kucoin, credits>> /\ pending' = pending \cup new
  BY DEF Reverse
<1>2. \A o \in new : /\ o \in Orders /\ o \in {x \in Orders : side[x] = "buy"}
                     /\ [x \in Orders |-> Reserve(x)][o] = "none" /\ credits[o] = <<>>
  <2> SUFFICES ASSUME NEW o \in new PROVE /\ o \in Orders /\ o \in {x \in Orders : side[x] = "buy"}
                                          /\ Reserve(o) = "none" /\ credits[o] = <<>>
    BY DEF Waiting
  <2>1. o \in Orders /\ row[o].status = "open" /\ side[o] = "buy" /\ o \notin pending
    BY DEF Waiting
  <2>2. credits[o] = <<>>
    BY <2>1 DEF IInv, Orderly, Owed, Ended
  <2> QED BY <2>1, <2>2 DEF Reserve
<1> HIDE DEF new
<1>3. [o \in Orders |-> Reserve(o)]' = [o \in Orders |-> IF o \in new THEN "owed" ELSE [x \in Orders |-> Reserve(x)][o]]
  BY <1>1 DEF Reserve
<1>4. /\ UNCHANGED {x \in Orders : side[x] = "buy"} /\ UNCHANGED [x \in Orders |-> State(x)]
      /\ UNCHANGED [x \in Orders |-> venue[x].dealt] /\ UNCHANGED {x \in Orders : venue[x].by = "reserve"}
  BY <1>1 DEF State, Ended
<1>5. Ledger!Registers(new)
  BY <1>1, <1>2, <1>3, <1>4 DEF Ledger!Registers
<1>6. new \in SUBSET Orders
  BY <1>2
<1> QED BY <1>5, <1>6 DEF Ledger!Next

LEMMA StepRefines ==
  ASSUME IInv, IInv', Unended, [Next]_vars
  PROVE  Ledger!Next \/ UNCHANGED view
<1> USE DEF onVenue, books, fixed
<1>1. ASSUME NEW o \in Orders, NEW a, ApplyHf(o, a), UNCHANGED <<venue, side, kucoin>>
      PROVE  Ledger!Next \/ UNCHANGED view
  BY <1>1, SettleRefines, NoStep DEF ApplyHf
<1>2. ASSUME NEW o \in Orders, NEW a, ApplyPlain(o, a), UNCHANGED <<venue, side, kucoin>>
      PROVE  Ledger!Next \/ UNCHANGED view
  BY <1>2, SettleRefines, NoStep DEF ApplyPlain
<1>3. CASE PollApplies
  <2>1. engine.order \in Orders /\ UNCHANGED <<venue, side, kucoin>>
    BY <1>3, EngineTyped DEF PollApplies, IInv
  <2> QED BY <1>1, <1>2, <1>3, <2>1 DEF PollApplies, Apply
<1>4. CASE CancelRecords
  <2>1. engine.order \in Orders /\ UNCHANGED <<venue, side, kucoin>>
    BY <1>4, EngineTyped DEF CancelRecords, IInv
  <2>2. CASE Cancelled(engine.order)
    BY <2>1, <2>2, SettleRefines DEF Cancelled
  <2>3. CASE UNCHANGED <<pending, credits>>
    BY <2>1, <2>3, NoStep
  <2>4. CASE Failed(engine.order)
    BY <2>1, <2>4, FailedRefines
  <2> QED BY <1>1, <1>4, <2>1, <2>2, <2>3, <2>4 DEF CancelRecords, Keeps
<1>5. ASSUME NEW o \in Orders, Scan(o) PROVE Ledger!Next \/ UNCHANGED view
  BY <1>5, SettleRefines DEF Scan
<1>6. ASSUME NEW o \in Orders, OperatorReconciles(o) PROVE Ledger!Next \/ UNCHANGED view
  BY <1>1, <1>6 DEF OperatorReconciles
<1>7. CASE CancelSends
  <2>1. engine.order \in Orders /\ UNCHANGED <<side, kucoin, pending, credits>>
    BY <1>7, EngineTyped DEF CancelSends, IInv
  <2>2. \A b : By(b) \in {"venue", "cancel", "reserve"}
    BY DEF By
  <2>3. CASE venue' = venue
    BY <2>1, <2>3, NoStep
  <2>4. CASE venue[engine.order].status = "open" /\ \E b : venue' = CancelledBy(engine.order, By(b))
    BY <2>1, <2>2, <2>4, CancelRefines
  <2> QED BY <1>7, <2>3, <2>4 DEF CancelSends
<1>8. ASSUME NEW o \in Orders, NEW b \in BOOLEAN, CancelArrives(o, b)
      PROVE  Ledger!Next \/ UNCHANGED view
  <2>1. By(b) \in {"venue", "cancel", "reserve"} /\ UNCHANGED <<side, kucoin, pending, credits>>
    BY <1>8 DEF By, CancelArrives
  <2> QED BY <1>8, <2>1, CancelRefines, NoStep DEF CancelArrives
<1>9. ASSUME NEW o \in Orders, VenueEnds(o) PROVE Ledger!Next
  BY <1>9, CancelRefines DEF VenueEnds
<1>10. ASSUME \/ \E o \in Orders : LedgerImports(o) \/ PollReads(o) \/ CancelMarks(o)
              \/ CancelReads \/ Crash \/ Start \/ UNCHANGED vars
       PROVE  UNCHANGED view
  BY <1>10, NoStep DEF LedgerImports, PollReads, CancelMarks, CancelReads, Crash, Start, vars
<1> QED BY <1>3, <1>4, <1>5, <1>6, <1>7, <1>8, <1>9, <1>10, FillRefines, PlaceRefines, ReverseRefines
     DEF Next, Environment

\* The polls, the cancels, the scan and the operator keep the promise of the reserves: each
\* owed until its order ended, returned once and exactly, and on KuCoin not given up
\* once its own cancel ended the order.
THEOREM ReservesImplement == Spec => ImplementsReserves
<1>1. Init => Ledger!Init
  BY DEF Init, Ledger!Init, State, Reserve, Ended
<1>2. Init => Unended
  <2> SUFFICES ASSUME Init, NEW o \in Orders PROVE venue[o].by = "none" /\ side[o] = "none"
    BY DEF Unended
  <2>1. venue[o] = [status |-> "none", dealt |-> 0, by |-> "none"] /\ side[o] = "none"
    BY DEF Init
  <2> QED BY <2>1
<1>3. Spec => []Unended
  BY <1>2, UnendedStays, Invariance, PTL DEF Spec
<1>4. IInv /\ IInv' /\ Unended /\ [Next]_vars => [Ledger!Next]_view
  BY StepRefines
<1> QED
  BY <1>1, <1>3, <1>4, Invariance, PTL DEF Spec, ImplementsReserves, Ledger!Spec, view

=============================================================================
