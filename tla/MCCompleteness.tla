--------------------------- MODULE MCCompleteness ---------------------------
(* Small instances of Completeness for TLC.                                *)
EXTENDS Completeness, TLC

Symmetry == Permutations(Rows) \cup Permutations(Ids) \cup Permutations(Bands)
=============================================================================
