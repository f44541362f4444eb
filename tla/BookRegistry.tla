---------------------------- MODULE BookRegistry ----------------------------
(***************************************************************************)
(* What the book numbers of one index promise, whoever writes it: a number *)
(* is given once, to one book, and the index only ever holds books under   *)
(* the number they were given, each under one, unchanged while the book    *)
(* stays in the index.  Engines, locks, the reservation file, snapshots    *)
(* and crashes are not visible here; BookNumbers implements this module.   *)
(***************************************************************************)
EXTENDS Naturals

CONSTANTS
  Paths,      \* the books, by filePath
  MaxNumber   \* u32::MAX: the number that is never handed out

VARIABLES
  given,      \* every <<path, number>> ever handed out
  index       \* the books of the last commit, as <<path, number>>

Numbers == 1 .. (MaxNumber - 1)

\* No book of S is held under two numbers.
OneNumberEach(S) == \A b, c \in S : b[1] = c[1] => b[2] = c[2]

\* A book of S that is still in T kept its number.
Kept(S, T) == \A b \in S, c \in T : b[1] = c[1] => b[2] = c[2]

RegistryInit == given = {} /\ index = {}

\* A book gets a number nobody holds.
Assign(p, n) ==
  /\ \A g \in given : g[2] # n
  /\ given' = given \cup {<<p, n>>}
  /\ UNCHANGED index

\* A commit replaces the index.
Publish ==
  /\ index' \in SUBSET given
  /\ OneNumberEach(index')
  /\ Kept(index, index')
  /\ UNCHANGED given

RegistryNext == Publish \/ \E p \in Paths, n \in Numbers : Assign(p, n)

RegistrySpec == RegistryInit /\ [][RegistryNext]_<<given, index>>
=============================================================================
