----------------------------- MODULE MCApiOrders -----------------------------
(* Two calls that may share an Idempotency-Key: the model checked by TLC. *)
EXTENDS ApiOrders, TLC

Symmetry == Permutations(Requests) \cup Permutations(Keys)
=============================================================================
