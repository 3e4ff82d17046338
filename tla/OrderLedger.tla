----------------------------- MODULE OrderLedger -----------------------------
(***************************************************************************)
(* What the placement of orders promises the owner of a bot, without the   *)
(* intent, the clock, the credentials or the process: every order ever     *)
(* begun is open until it is either recorded, and then the venue has it,   *)
(* or void, and then the venue never will; one order is open at a time.    *)
(***************************************************************************)
CONSTANT Orders

VARIABLES
  fate,     \* of each order: new, open, recorded or void
  accepted  \* the orders the venue has accepted

Init == fate = [o \in Orders |-> "new"] /\ accepted = {}

Open(o) ==
  /\ fate[o] = "new" /\ \A p \in Orders : fate[p] # "open"
  /\ fate' = [fate EXCEPT ![o] = "open"] /\ UNCHANGED accepted

VenueAccepts(o) ==
  /\ fate[o] = "open" /\ o \notin accepted
  /\ accepted' = accepted \cup {o} /\ UNCHANGED fate

Record(o) ==
  /\ fate[o] = "open" /\ o \in accepted
  /\ fate' = [fate EXCEPT ![o] = "recorded"] /\ UNCHANGED accepted

Void(o) ==
  /\ fate[o] = "open" /\ o \notin accepted
  /\ fate' = [fate EXCEPT ![o] = "void"] /\ UNCHANGED accepted

Next == \E o \in Orders : Open(o) \/ VenueAccepts(o) \/ Record(o) \/ Void(o)

Spec == Init /\ [][Next]_<<fate, accepted>>
=============================================================================
