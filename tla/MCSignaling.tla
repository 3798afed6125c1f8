----------------------------- MODULE MCSignaling -----------------------------
(* TLC instances of SignalingServer. *)
EXTENDS SignalingServer, TLC

Symmetry == Permutations(Peers) \cup Permutations(Addresses)
=============================================================================
