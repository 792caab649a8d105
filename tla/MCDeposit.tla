----------------------------- MODULE MCDeposit -----------------------------
(* Visits, taps and the whole amounts are interchangeable names. *)
EXTENDS Deposit, TLC

Symmetry ==
    Permutations(Visits) \union Permutations(Deposits) \union Permutations(Whole)
=============================================================================
