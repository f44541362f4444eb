------------------------- MODULE MCLibraryIndexing -------------------------
(* A batch of three books, the second empty, that two workers prepare.      *)
EXTENDS LibraryIndexing, TLC

TheEmpty == {2}

Symmetry == {f @@ g : f \in Permutations(Scanners), g \in Permutations(Paths)}
\* What a thread is said to wait for is what its actions wait for; an invariant
\* of the run's instance, which its configuration leaves out for its time.
GuardsAgree ==
  /\ CallerCan <=> ENABLED Caller
  /\ \A w \in Scanners : WorkerCan(w) <=> ENABLED Worker(w)
=============================================================================
