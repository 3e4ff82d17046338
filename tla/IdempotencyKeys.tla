---------------------------- MODULE IdempotencyKeys ----------------------------
(***************************************************************************)
(* What an Idempotency-Key promises a client, without rows, tasks, engine  *)
(* or process: whatever is sent with it and however often, the venue has   *)
(* at most one order of it; the answer it gives is true when it is given   *)
(* and stays so; it is given back only when nothing was placed.  A restart *)
(* may end every held key at once.                                         *)
(***************************************************************************)
CONSTANTS Keys, Requests

VARIABLES
  stands,  \* each key: free, held by a call, or answered: placed, nothing, or maybe
  orders   \* of each key: the calls sent with it whose order the venue accepted

Init == stands = [k \in Keys |-> "free"] /\ orders = [k \in Keys |-> {}]

Becomes(k, from, to) ==
  /\ stands[k] = from /\ stands' = [stands EXCEPT ![k] = to]
  /\ UNCHANGED orders

Hold(k)     == Becomes(k, "free", "held")
GiveBack(k) == orders[k] = {} /\ Becomes(k, "held", "free")
Answer(k)   == \/ orders[k] # {} /\ Becomes(k, "held", "placed")
               \/ orders[k] = {} /\ Becomes(k, "held", "nothing")
               \/ Becomes(k, "held", "maybe")

\* The order of a call that still waits, or was told it may be placed.
Accept(k, r) ==
  /\ stands[k] \in {"held", "maybe"} /\ orders[k] = {}
  /\ orders' = [orders EXCEPT ![k] = {r}] /\ UNCHANGED stands

Restart ==
  \E back \in SUBSET {k \in Keys : stands[k] = "held" /\ orders[k] = {}} :
    /\ stands' = [k \in Keys |-> IF k \in back THEN "free"
                                 ELSE IF stands[k] = "held" THEN "maybe" ELSE stands[k]]
    /\ UNCHANGED orders

Next == \/ \E k \in Keys : \/ Hold(k) \/ GiveBack(k) \/ Answer(k)
                           \/ \E r \in Requests : Accept(k, r)
        \/ Restart

Spec == Init /\ [][Next]_<<stands, orders>>
=============================================================================
