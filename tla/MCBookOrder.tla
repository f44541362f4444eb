---------------------------- MODULE MCBookOrder -----------------------------
(* Small instances of BookOrder for TLC.                                   *)
EXTENDS BookOrder, TLC

CONSTANTS e1, e2, t1, t2, t3, p1, p2

\* Two threads of one engine and one of another.
TwoAndOne == (t1 :> e1) @@ (t2 :> e1) @@ (t3 :> e2)

\* The mappings each thread may set.
AnyPlaces == [t \in Threads |-> Places]
OwnPlaces == (t1 :> {p1}) @@ (t2 :> {NoPlaces, p1}) @@ (t3 :> {NoPlaces, p2})
=============================================================================
