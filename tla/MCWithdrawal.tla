---- MODULE MCWithdrawal ----
(* Withdrawal on small instances; destinations are only compared. *)
EXTENDS Withdrawal, TLC
Symmetry == Permutations(Destinations) \cup Permutations(Rules)
====
