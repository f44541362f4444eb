---------------------------- MODULE MCVectorSet ----------------------------
(* Two calls of one process and one of another.                             *)
EXTENDS VectorSet, TLC

CONSTANTS c1, c2, c3, p1, p2

\* The two threads of one process are alike.
Threads == Permutations({c1, c2})

TwoAndOne(c) == IF c = c3 THEN p2 ELSE p1
=============================================================================
