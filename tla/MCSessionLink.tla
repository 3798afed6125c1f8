---------------------------- MODULE MCSessionLink ----------------------------
(* TLC instance of SessionLink. *)
EXTENDS SessionLink, TLC

Symmetry == Permutations(Peers) \cup Permutations(Texts)
=============================================================================
