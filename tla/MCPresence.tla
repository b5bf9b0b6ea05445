----------------------------- MODULE MCPresence -----------------------------
(* Small instances of Presence for TLC. *)
EXTENDS Presence, TLC

\* Clients are interchangeable.
Symmetry == Permutations(Clients)
=============================================================================
