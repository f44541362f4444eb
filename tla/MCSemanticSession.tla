------------------------ MODULE MCSemanticSession -------------------------
(* Nine lines: 2, 4, 6, 7 and 8 are of one group, 3 and 9 are no longer in   *)
(* the index. Each window ranks in an order of its own and shows the lines   *)
(* of a group as one, so a window has fewer results than candidates.         *)
EXTENDS SemanticSession

CONSTANTS c1, c2

NineLines == 1 .. 9

Line(l) == [line |-> l, siblings |-> {}, group |-> NoGroup, stale |-> FALSE]
Stale(l) == [Line(l) EXCEPT !.stale = TRUE]
Grouped(l, under) == [Line(l) EXCEPT !.siblings = under, !.group = 2]

\* By vectors and window; a search of windows 3 to 8 asks for no others.
Windows ==
  << << <<>>, <<>>, <<Stale(3), Line(5), Stale(9)>>, <<>>, <<>>,
        <<Line(5), Stale(3), Grouped(2, {4, 6}), Stale(9)>>, <<>>,
        <<Line(1), Grouped(4, {2, 6, 7}), Stale(3), Line(5), Stale(9)>> >>,
     << <<>>, <<>>, <<Grouped(4, {2}), Stale(3)>>, <<>>, <<>>,
        <<Stale(3), Grouped(2, {4}), Line(5), Line(1), Stale(9)>>, <<>>,
        <<Line(5), Line(1), Grouped(2, {4, 6, 7}), Stale(3), Stale(9)>> >> >>

\* The lexical half alone finds three lines, both halves nine.
Lexical == <<Grouped(4, {}), Stale(3), Line(5)>>

Versioned(ranked, version) == [i \in DOMAIN ranked |-> ranked[i] @@ [version |-> version]]
FusedLexical == <<Versioned(Lexical, 1), Versioned(Lexical, 2)>>
FusedWindows ==
  [version \in {1, 2} |-> [w \in 1 .. 8 |-> Versioned(Windows[version][w], version)]]

Fused(version, window, failed) ==
  IF failed THEN FusedLexical[version] ELSE FusedWindows[version][window]
AllFused(version, window, failed) == (IF failed THEN 3 ELSE 9) < window
=============================================================================
