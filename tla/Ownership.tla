------------------------------ MODULE Ownership ------------------------------
(***************************************************************************)
(* What the engine lock and the lease row promise about an install, without*)
(* locks, stamps or queues: one engine acts on it at a time, Rails never   *)
(* on an install the Rust engine owns, and what Rust owns becomes Rails'   *)
(* again only after Rust has released it.                                  *)
(***************************************************************************)
VARIABLES
  owner,   \* rails, rust, or released by Rust and not yet taken back
  actor    \* which engine acts on the install: rails, rust or nobody

Init == /\ owner \in {"rails", "rust"}
        /\ actor = "nobody"

RailsStarts ==
  /\ actor = "nobody" /\ owner # "rust"
  /\ owner' = "rails" /\ actor' = "rails"

RustClaims ==
  /\ actor = "nobody"
  /\ owner' = "rust" /\ UNCHANGED actor

RustStarts ==
  /\ actor = "nobody" /\ owner = "rust"
  /\ actor' = "rust" /\ UNCHANGED owner

RustReleases ==
  /\ actor = "nobody"
  /\ owner' = "released" /\ UNCHANGED actor

Stops == actor' = "nobody" /\ UNCHANGED owner

Next == RailsStarts \/ RustClaims \/ RustStarts \/ RustReleases \/ Stops

Spec == Init /\ [][Next]_<<owner, actor>>
=============================================================================
