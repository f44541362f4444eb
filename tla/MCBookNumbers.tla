--------------------------- MODULE MCBookNumbers ----------------------------
(* Small instances of BookNumbers for TLC.                                 *)
EXTENDS BookNumbers, TLC

CONSTANTS e1, e2, p1, p2

\* Sound when every engine searches and maintains, or none does.
Symmetry == Permutations(Engines) \cup Permutations(Paths)

PathSymmetry == Permutations(Paths)
=============================================================================
