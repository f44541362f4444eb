---------------------------- MODULE MCSearchCaches ----------------------------
(* Two callers and two threads of the pool. In MCOneSpreads the words of one   *)
(* search at a time are materialized on the pool, in MCBothSpread of two.      *)
EXTENDS SearchCaches

CONSTANTS c1, c2, w1, w2

MCOneSpreads == c1 :> {"words"} @@ c2 :> {"patterns", "term_sets"}
MCBothSpread == c1 :> {"words"} @@ c2 :> {"words"}
=============================================================================
