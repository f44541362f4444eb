----------------------- MODULE MCLexicalCancellation ------------------------
(* Small instances of LexicalCancellation for TLC.                         *)
EXTENDS LexicalCancellation, TLC

CONSTANTS x, y, c1, c2

OneSegment == <<1>>
TwoSegments == <<1, 1>>

Symmetry == Permutations(Ids) \cup Permutations(Calls)
=============================================================================
