----------------------------- MODULE MCRendezvous -----------------------------
(* TLC instance of Rendezvous. *)
EXTENDS Rendezvous, TLC

Symmetry == Permutations(Others)
=============================================================================
