---- MODULE SyncFlowMC ----
(***************************************************************************)
(* The instances of SyncHistory that TLC checks, one per .cfg file.         *)
(***************************************************************************)
EXTENDS SyncHistory, TLC

CONSTANTS p1, p2, c1, c2, none

OnePath == {p1}
TwoPaths == {p1, p2}
OneContent == {c1}
TwoContents == {c1, c2}

\* Nothing tells paths, or contents, apart: the only CHOOSE, of a matching of
\* renames, has one candidate among two paths.
Symmetry == Permutations(Paths) \cup Permutations(Contents)
====
