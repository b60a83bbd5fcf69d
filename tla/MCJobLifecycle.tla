--------------------------- MODULE MCJobLifecycle ---------------------------
(* Small instances of JobLifecycle for TLC.                                *)
EXTENDS JobLifecycle

Symmetry == Permutations(Jobs) \cup Permutations(Workers)
=============================================================================
