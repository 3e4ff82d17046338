----------------------------- MODULE MCPlacement -----------------------------
(* One bot, two orders, two API key ids: the model checked by TLC. *)
EXTENDS Placement, TLC

Symmetry == Permutations(Orders) \cup Permutations(Keys)
=============================================================================
