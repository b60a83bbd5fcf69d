------------------------------ MODULE MCReview ------------------------------
(***************************************************************************)
(* A small instance of every part of ReviewPage.                           *)
(***************************************************************************)
EXTENDS ReviewPage, TLC

CONSTANTS r1, r2, f1, f2, v1, v2

Symmetry == Permutations(Rows) \cup Permutations(Values)

\* the fields stand in the columns Z and AA, or in AA and Z
MCTemplates ==
    LET Z == <<26>>
        AA == <<1, 1>>
    IN {f1 :> Z @@ f2 :> AA, f1 :> AA @@ f2 :> Z}

\* the fields stand in the array as they are numbered
MCPlace == f1 :> 1 @@ f2 :> 2
=============================================================================
