--------------------------- MODULE WithdrawalLedger ---------------------------
(***************************************************************************)
(* What the withdrawal rules promise the owner of the money, without       *)
(* evaluations, keys, phases or the process: a rule has one withdrawal     *)
(* open at a time; its request leaves once, and the venue takes it only    *)
(* while it is open; it ends as withdrew only when the venue took it, as   *)
(* failed only when the venue did not or undid it, and as void, with no    *)
(* word to the owner, only when nothing left.  An end is final.            *)
(***************************************************************************)
CONSTANTS Ids, Rules, None

VARIABLES
  fate,    \* of each withdrawal: new, open, withdrew, failed or void
  owner,   \* the rule that opened it
  request  \* its request: none, left, taken or undone by the venue

Init == /\ fate = [e \in Ids |-> "new"] /\ owner = [e \in Ids |-> None]
        /\ request = [e \in Ids |-> "none"]

Open(e, r) ==
  /\ fate[e] = "new" /\ \A f \in Ids : fate[f] = "open" => owner[f] # r
  /\ fate' = [fate EXCEPT ![e] = "open"] /\ owner' = [owner EXCEPT ![e] = r]
  /\ UNCHANGED request

Moves(e, from, to) ==
  /\ request[e] = from /\ request' = [request EXCEPT ![e] = to]
  /\ UNCHANGED <<fate, owner>>
Leaves(e) == fate[e] = "open" /\ Moves(e, "none", "left")
Takes(e)  == fate[e] = "open" /\ Moves(e, "left", "taken")
Undoes(e) == Moves(e, "taken", "undone")

Ends(e, as, requests) ==
  /\ fate[e] = "open" /\ request[e] \in requests
  /\ fate' = [fate EXCEPT ![e] = as] /\ UNCHANGED <<owner, request>>
Withdrew(e) == Ends(e, "withdrew", {"taken", "undone"})
Failed(e)   == Ends(e, "failed", {"none", "left", "undone"})
Void(e)     == Ends(e, "void", {"none"})

Next == \E e \in Ids : \/ \E r \in Rules : Open(e, r)
                       \/ Leaves(e) \/ Takes(e) \/ Undoes(e)
                       \/ Withdrew(e) \/ Failed(e) \/ Void(e)

Spec == Init /\ [][Next]_<<fate, owner, request>>
=============================================================================
