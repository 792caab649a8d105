----------------------------- MODULE MCComments -----------------------------
(* Small collections: document order is not id order, one document does    *)
(* not decode, and after one more comment the ids are at their end.        *)
EXTENDS Comments, TLC

MCCatalogs == {<<1>>, <<2, Broken, 1>>}
MCThreads == {<<>>, <<3, Broken, 1>>}
Symmetry == Permutations(Visits) \union Permutations(Slots)
=============================================================================
