---------------------------- MODULE MCLineSource ----------------------------
(* Small instances of LineSource for TLC.                                  *)
EXTENDS LineSource

CONSTANTS i1, i2, s1, s2, p1, p2
=============================================================================
