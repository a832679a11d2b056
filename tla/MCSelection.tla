---------------------------- MODULE MCSelection ----------------------------
(***************************************************************************)
(* Selection for TLC.                                                      *)
(***************************************************************************)
EXTENDS Selection, TLC

CONSTANTS n1, n2, n3
NewTrees == {n1, n2, n3}
AlikeTrees == Permutations(NewTrees)

AnyPoint == Points
\* While the copy of the states is being deleted.
OutsideDropping == Points \ {"dropping"}
NoPoint == {}
=============================================================================
