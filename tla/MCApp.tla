------------------------------- MODULE MCApp -------------------------------
(* Attempts are interchangeable names. *)
EXTENDS App, TLC

Symmetry == Permutations(Attempts)
=============================================================================
