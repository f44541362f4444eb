----------------------- MODULE SemanticSessionProofs ------------------------
(* Theorems about the sessions of a semantic search: their pages repeat no  *)
(* line or group, continue one another and are never older than a change of *)
(* the vectors that returned, and every search goes on until it ends, for   *)
(* any clients, page size, rankings, windows and faults.                    *)
EXTENDS SemanticSession, SequenceTheorems, WellFoundedInduction, TLAPS

----------------------------------------------------------------------------
(* Sequences of results.                                                    *)

\* A set of natural numbers has a least one.
LEMMA NatMin ==
  ASSUME NEW S \in SUBSET Nat, S # {}
  PROVE  \E n \in S : \A m \in S : n <= m
<1>1. PICK n \in S : \A m \in S : ~(<<m, n>> \in OpToRel(<, Nat))
  BY NatLessThanWellFounded, WFMin
<1>2. \A m \in S : ~(m < n)
  BY <1>1 DEF OpToRel
<1>3. QED
  BY <1>2

\* What holds of 0, and of a number after one it holds of, holds up to N.
LEMMA Upto ==
  ASSUME NEW N \in Nat, NEW S, 0 \in S, \A n \in 0 .. N - 1 : n \in S => n + 1 \in S
  PROVE  \A n \in 0 .. N : n \in S
<1>1. SUFFICES ASSUME NEW k \in 0 .. N, k \notin S
               PROVE  FALSE
  OBVIOUS
<1>2. PICK n \in (0 .. N) \ S : \A m \in (0 .. N) \ S : n <= m
  <2>1. (0 .. N) \ S \in SUBSET Nat /\ (0 .. N) \ S # {}
    BY <1>1
  <2>2. QED
    BY <2>1, NatMin
<1>3. n - 1 \in 0 .. N - 1 /\ n - 1 \notin (0 .. N) \ S
  BY <1>2
<1>4. QED
  BY <1>2, <1>3

\* The results of a sequence are at its places.
LEMMA RangeIs ==
  ASSUME NEW q \in Seq(Item)
  PROVE  /\ Range(q) \subseteq Item
         /\ \A i \in 1 .. Len(q) : q[i] \in Range(q)
         /\ \A e \in Range(q) : \E i \in 1 .. Len(q) : e = q[i]
BY DEF Range

\* No results, and one.
LEMMA Single ==
  /\ <<>> \in Seq(Item) /\ Range(<<>>) = {} /\ OneOfEach(<<>>)
  /\ \A e \in Item : <<e>> \in Seq(Item) /\ Range(<<e>>) = {e} /\ OneOfEach(<<e>>)
BY DEF Range, OneOfEach

\* Two results are of different lines and groups.
Differ(e, f) == e.line # f.line /\ (e.group # NoGroup => e.group # f.group)
\* Results of one sequence share no line and no group with those of another.
Apart(p, q) == \A e \in Range(p), f \in Range(q) : Differ(e, f)

\* One sequence after another.
LEMMA Both ==
  ASSUME NEW p \in Seq(Item), NEW q \in Seq(Item)
  PROVE  /\ p \o q \in Seq(Item) /\ Len(p \o q) = Len(p) + Len(q)
         /\ \A i \in 1 .. Len(p) : (p \o q)[i] = p[i]
         /\ \A i \in 1 .. Len(q) : (p \o q)[Len(p) + i] = q[i]
         /\ \A i \in 1 .. Len(p) + Len(q) : i <= Len(p) \/ \E j \in 1 .. Len(q) : i = Len(p) + j
         /\ Range(p \o q) = Range(p) \cup Range(q)
<1>1. /\ p \o q \in Seq(Item) /\ Len(p \o q) = Len(p) + Len(q)
      /\ \A i \in 1 .. Len(p) : (p \o q)[i] = p[i]
      /\ \A i \in 1 .. Len(q) : (p \o q)[Len(p) + i] = q[i]
  OBVIOUS
<1>2. \A i \in 1 .. Len(p) + Len(q) : i <= Len(p) \/ \E j \in 1 .. Len(q) : i = Len(p) + j
  <2>1. SUFFICES ASSUME NEW i \in 1 .. Len(p) + Len(q), ~(i <= Len(p))
                 PROVE  \E j \in 1 .. Len(q) : i = Len(p) + j
    OBVIOUS
  <2>2. i - Len(p) \in 1 .. Len(q) /\ i = Len(p) + (i - Len(p))
    BY <2>1
  <2>3. QED
    BY <2>2
<1>3. Range(p \o q) \subseteq Range(p) \cup Range(q)
  <2>1. SUFFICES ASSUME NEW e \in Range(p \o q)
                 PROVE  e \in Range(p) \cup Range(q)
    OBVIOUS
  <2>2. PICK i \in 1 .. Len(p) + Len(q) : e = (p \o q)[i]
    BY <1>1, <2>1, RangeIs
  <2>3. QED
    BY <1>1, <1>2, <2>2, RangeIs
<1>4. Range(p) \cup Range(q) \subseteq Range(p \o q)
  <2>1. ASSUME NEW e \in Range(p)
        PROVE  e \in Range(p \o q)
    <3>1. PICK i \in 1 .. Len(p) : e = p[i]
      BY <2>1, RangeIs
    <3>2. i \in 1 .. Len(p \o q) /\ (p \o q)[i] = e
      BY <1>1, <3>1
    <3>3. QED
      BY <1>1, <3>2, RangeIs
  <2>2. ASSUME NEW e \in Range(q)
        PROVE  e \in Range(p \o q)
    <3>1. PICK i \in 1 .. Len(q) : e = q[i]
      BY <2>2, RangeIs
    <3>2. Len(p) + i \in 1 .. Len(p \o q) /\ (p \o q)[Len(p) + i] = e
      BY <1>1, <3>1
    <3>3. QED
      BY <1>1, <3>2, RangeIs
  <2>3. QED
    BY <2>1, <2>2
<1>5. QED
  BY <1>1, <1>2, <1>3, <1>4

\* A sequence names lines and groups once when each of its parts does and the
\* parts have none in common.
LEMMA OnceTogether ==
  ASSUME NEW p \in Seq(Item), NEW q \in Seq(Item), OneOfEach(p), OneOfEach(q), Apart(p, q)
  PROVE  OneOfEach(p \o q)
<1> DEFINE r == p \o q
<1>1. /\ r \in Seq(Item) /\ Len(r) = Len(p) + Len(q)
      /\ \A i \in 1 .. Len(p) : r[i] = p[i]
      /\ \A i \in 1 .. Len(q) : r[Len(p) + i] = q[i]
      /\ \A i \in 1 .. Len(p) + Len(q) : i <= Len(p) \/ \E j \in 1 .. Len(q) : i = Len(p) + j
  BY Both
<1>2. SUFFICES OneOfEach(r)
  OBVIOUS
<1> HIDE DEF r
<1>3. \A i, j \in 1 .. Len(p) : i < j => Differ(p[i], p[j])
  BY DEF OneOfEach, Differ
<1>4. \A i, j \in 1 .. Len(q) : i < j => Differ(q[i], q[j])
  BY DEF OneOfEach, Differ
<1>5. \A i \in 1 .. Len(p), j \in 1 .. Len(q) : Differ(p[i], q[j])
  BY RangeIs DEF Apart
<1>6. SUFFICES ASSUME NEW i \in 1 .. Len(r), NEW j \in 1 .. Len(r), i < j
               PROVE  Differ(r[i], r[j])
  BY <1>1 DEF OneOfEach, Differ
<1>7. CASE j <= Len(p)
  <2>1. i \in 1 .. Len(p) /\ j \in 1 .. Len(p)
    BY <1>6, <1>7
  <2>2. QED
    BY <1>1, <1>3, <1>6, <2>1
<1>8. CASE ~(j <= Len(p))
  <2>1. PICK l \in 1 .. Len(q) : j = Len(p) + l
    BY <1>1, <1>8
  <2>2. CASE i <= Len(p)
    BY <1>1, <1>5, <2>1, <2>2
  <2>3. CASE ~(i <= Len(p))
    <3>1. PICK k \in 1 .. Len(q) : i = Len(p) + k
      BY <1>1, <2>3
    <3>2. k < l
      BY <1>6, <2>1, <3>1
    <3>3. QED
      BY <1>1, <1>4, <2>1, <3>1, <3>2
  <2>4. QED
    BY <2>2, <2>3
<1>9. QED
  BY <1>7, <1>8

\* What names lines and groups once does so in any part of it.
LEMMA OnceIn ==
  ASSUME NEW q \in Seq(Item), OneOfEach(q), NEW r \in Seq(Item), NEW m \in Nat,
         \A i \in 1 .. Len(r) : m + i \in 1 .. Len(q) /\ r[i] = q[m + i]
  PROVE  OneOfEach(r)
<1>1. DOMAIN r = 1 .. Len(r) /\ DOMAIN q = 1 .. Len(q)
  OBVIOUS
<1>2. ASSUME NEW i \in 1 .. Len(r), NEW j \in 1 .. Len(r), i < j
      PROVE  Differ(r[i], r[j])
  <2>1. m + i \in DOMAIN q /\ m + j \in DOMAIN q /\ m + i < m + j
    BY <1>1, <1>2
  <2>2. Differ(q[m + i], q[m + j])
    BY <2>1, Zenon DEF OneOfEach, Differ
  <2>3. QED
    BY <2>2
<1>3. QED
  BY <1>1, <1>2, Zenon DEF OneOfEach, Differ

\* A part of a sequence.
LEMMA PartIs ==
  ASSUME NEW q \in Seq(Item), NEW m \in Nat, NEW n \in 0 .. Len(q),
         NEW r, r = SubSeq(q, m + 1, n)
  PROVE  /\ r \in Seq(Item) /\ Len(r) = (IF m <= n THEN n - m ELSE 0)
         /\ \A i \in 1 .. Len(r) : r[i] = q[m + i]
         /\ Range(r) \subseteq Range(q)
<1>1. /\ r \in Seq(Item) /\ Len(r) = (IF m <= n THEN n - m ELSE 0)
      /\ \A i \in 1 .. Len(r) : m + i \in 1 .. Len(q) /\ r[i] = q[m + i]
  <2>1. Len(r) = (IF m <= n THEN n - m ELSE 0)
    OBVIOUS
  <2>2. \A i \in 1 .. Len(r) : r[i] = q[m + i]
    OBVIOUS
  <2>3. \A i \in 1 .. Len(r) : m + i \in 1 .. Len(q)
    BY <2>1
  <2>4. r \in Seq(Item)
    OBVIOUS
  <2>5. QED
    BY <2>1, <2>2, <2>3, <2>4
<1>2. Range(r) \subseteq Range(q)
  <2>1. SUFFICES ASSUME NEW e \in Range(r)
                 PROVE  e \in Range(q)
    OBVIOUS
  <2>2. PICK i \in 1 .. Len(r) : e = r[i]
    BY <1>1, <2>1, RangeIs
  <2>3. QED
    BY <1>1, <2>2, RangeIs
<1>3. QED
  BY <1>1, <1>2

\* The first results of a sequence.
LEMMA FirstIs ==
  ASSUME NEW q \in Seq(Item), NEW n \in 0 .. Len(q)
  PROVE  LET r == SubSeq(q, 1, n)
         IN  /\ r \in Seq(Item) /\ Len(r) = n
             /\ \A i \in 1 .. n : r[i] = q[i]
             /\ Range(r) \subseteq Range(q)
             /\ OneOfEach(q) => OneOfEach(r)
<1> DEFINE r == SubSeq(q, 1, n)
<1>1. r \in Seq(Item) /\ Len(r) = n /\ \A i \in 1 .. n : r[i] = q[i]
  OBVIOUS
<1> HIDE DEF r
<1>2. Range(r) \subseteq Range(q)
  <2>1. SUFFICES ASSUME NEW e \in Range(r)
                 PROVE  e \in Range(q)
    OBVIOUS
  <2>2. PICK i \in 1 .. n : e = r[i]
    BY <1>1, <2>1, RangeIs
  <2>3. QED
    BY <1>1, <2>2, RangeIs
<1>3. ASSUME OneOfEach(q)
      PROVE  OneOfEach(r)
  BY <1>1, <1>3 DEF OneOfEach
<1>4. QED
  BY <1>1, <1>2, <1>3 DEF r

----------------------------------------------------------------------------
(* The additions of an expansion.                                           *)

\* The windows a session has, the sets of groups, and a session (SemanticSession).
Widths == 0 .. MAX_SEMANTIC_CANDIDATE_WINDOW
GroupSets == SUBSET (Lines \cup {NoGroup})

SessionRecord ==
  [entries : Seq(Item), dropped : SUBSET Lines, seen : SUBSET Lines, seen_groups : GroupSets,
   shown : Nat, window : Widths, exhausted : BOOLEAN, fallback : BOOLEAN,
   lock : Clients \cup {Free}]

\* The lines and groups of results are among those seen.
SeenIn(q, lines, groups) ==
  \A e \in Range(q) : e.line \in lines /\ (e.group # NoGroup => e.group \in groups)

\* A stale line is no result.
NoneStale(q) == \A e \in Range(q) : ~e.stale

\* A session names a line and a group once, and has seen those of its results.
SessionOK(s) ==
  /\ s.shown <= Len(s.entries)
  /\ NoneStale(s.entries) /\ OneOfEach(s.entries)
  /\ SeenIn(s.entries, s.seen, s.seen_groups)

\* The results that keep their places when additions come.
Stays(s, a) == IF a.reopened THEN SubSeq(s.entries, 1, s.shown) ELSE s.entries

\* What additions have seen, they hold in a result or dropped.
SeenOnly(a) ==
  /\ a.seen \subseteq Held(a.entries) \cup a.dropped
  /\ a.groups \subseteq Groups(a.entries)

\* Additions to a session name lines and groups of their own, once.
AdditionsOK(s, a) ==
  /\ NoneStale(a.entries) /\ OneOfEach(a.entries)
  /\ SeenIn(a.entries, a.seen, a.groups) /\ SeenOnly(a)
  /\ Apart(Stays(s, a), a.entries)
  /\ a.reopened => SeenIn(Stays(s, a), a.held_seen, a.held_groups)

\* A session keeps what a page has shown, reopened or not.
LEMMA StaysIs ==
  ASSUME NEW s \in SessionRecord, SessionOK(s), NEW a \in AnyAdditions
  PROVE  /\ Stays(s, a) \in Seq(Item) /\ Range(Stays(s, a)) \subseteq Range(s.entries)
         /\ OneOfEach(Stays(s, a))
         /\ s.shown <= Len(Stays(s, a)) /\ Len(Stays(s, a)) <= Len(s.entries)
         /\ \A i \in 1 .. Len(Stays(s, a)) : Stays(s, a)[i] = s.entries[i]
<1>1. /\ s.entries \in Seq(Item) /\ s.shown \in 0 .. Len(s.entries) /\ OneOfEach(s.entries)
  BY DEF SessionRecord, SessionOK
<1>2. CASE a.reopened
  <2>1. Stays(s, a) = SubSeq(s.entries, 1, s.shown)
    BY <1>2 DEF Stays
  <2>2. QED
    BY <1>1, <2>1, FirstIs
<1>3. CASE ~a.reopened
  <2>1. Stays(s, a) = s.entries
    BY <1>3 DEF Stays
  <2>2. QED
    BY <1>1, <2>1
<1>4. QED
  BY <1>2, <1>3

\* No additions yet: there is nothing in them to go wrong.
LEMMA NoneTyped == Additions \in AnyAdditions
BY DEF Additions, AnyAdditions, Item

\* Nor does it clash with its session.
LEMMA NothingYet ==
  ASSUME NEW s \in SessionRecord, SessionOK(s)
  PROVE  Additions \in AnyAdditions /\ AdditionsOK(s, Additions)
<1>1. Additions \in AnyAdditions
  BY NoneTyped
<1>2. /\ Additions.entries = <<>> /\ ~Additions.reopened
      /\ Additions.seen = {} /\ Additions.groups = {}
  BY DEF Additions
<1>3. QED
  BY <1>1, <1>2, Single DEF AdditionsOK, NoneStale, SeenIn, SeenOnly, Apart

\* A sequence's lines and groups are those of its results.
LEMMA HeldIs ==
  ASSUME NEW q \in Seq(Item)
  PROVE  /\ Held(q) \in SUBSET Lines /\ Groups(q) \in GroupSets
         /\ SeenIn(q, Held(q), Groups(q))
<1>1. Range(q) \subseteq Item
  BY RangeIs
<1>2. Held(q) \in SUBSET Lines
  BY <1>1 DEF Held, Holds, Item
<1>3. Groups(q) \in GroupSets
  BY <1>1 DEF Groups, GroupSets, Item
<1>4. \A e \in Range(q) : e.line \in Held(q)
  BY DEF Held, Holds
<1>5. \A e \in Range(q) : e.group # NoGroup => e.group \in Groups(q)
  BY DEF Groups
<1>6. QED
  BY <1>2, <1>3, <1>4, <1>5 DEF SeenIn

\* Reopening a session takes nothing and admits by what stays (reopen).
LEMMA ReopenOK ==
  ASSUME NEW s \in SessionRecord, SessionOK(s)
  PROVE  reopen(s) \in AnyAdditions /\ AdditionsOK(s, reopen(s)) /\ reopen(s).entries = <<>>
<1>1. CASE s.shown = Len(s.entries)
  <2>1. reopen(s) = Additions /\ Additions.entries = <<>>
    BY <1>1 DEF reopen, Additions
  <2>2. QED
    BY <2>1, NothingYet
<1>2. CASE s.shown # Len(s.entries)
  <2> DEFINE shown == SubSeq(s.entries, 1, s.shown)
             b == reopen(s)
  <2>1. b = [Additions EXCEPT !.reopened = TRUE,
               !.held_seen = s.dropped \cup Held(shown), !.held_groups = Groups(shown)]
    BY <1>2 DEF reopen
  <2>2. shown = SubSeq(s.entries, 1, s.shown) /\ s.entries \in Seq(Item)
        /\ s.shown \in 0 .. Len(s.entries) /\ s.dropped \in SUBSET Lines
    BY DEF SessionRecord, SessionOK
  <2>3. shown \in Seq(Item)
    BY <2>2, FirstIs
  <2> HIDE DEF shown
  <2>4. Held(shown) \in SUBSET Lines /\ Groups(shown) \in GroupSets
        /\ SeenIn(shown, Held(shown), Groups(shown))
    BY <2>3, HeldIs
  <2>5. /\ s.dropped \cup Held(shown) \in SUBSET Lines
        /\ Groups(shown) \in SUBSET (Lines \cup {NoGroup})
    BY <2>2, <2>4 DEF GroupSets
  <2>6. Additions \in AnyAdditions
    BY NothingYet
  <2>7. b \in AnyAdditions
    BY <2>1, <2>5, <2>6 DEF AnyAdditions
  <2>8. b.entries = <<>> /\ b.reopened /\ b.held_seen = s.dropped \cup Held(shown)
        /\ b.held_groups = Groups(shown) /\ b.seen = {} /\ b.groups = {}
    BY <2>1 DEF Additions
  <2> HIDE DEF b
  <2>9. Stays(s, b) = shown
    BY <2>8 DEF Stays, shown
  <2>10. AdditionsOK(s, b)
    <3>1. SeenIn(shown, b.held_seen, b.held_groups)
      BY <2>4, <2>8 DEF SeenIn
    <3>2. NoneStale(<<>>) /\ OneOfEach(<<>>) /\ SeenIn(<<>>, b.seen, b.groups) /\ Apart(shown, <<>>)
      BY Single DEF NoneStale, SeenIn, Apart
    <3>3. SeenOnly(b)
      BY <2>8 DEF SeenOnly
    <3>4. QED
      BY <2>8, <2>9, <3>1, <3>2, <3>3 DEF AdditionsOK
  <2>11. QED
    BY <2>7, <2>8, <2>10 DEF b
<1>3. QED
  BY <1>1, <1>2

\* What taking a result leaves of the additions (take).
LEMMA TakeIs ==
  ASSUME NEW a \in AnyAdditions, NEW item \in Item, NEW b, b = take(a, item)
  PROVE  /\ b \in AnyAdditions
         /\ b.seen = a.seen \cup Holds(item) /\ b.reopened = a.reopened
         /\ b.held_seen = a.held_seen /\ b.held_groups = a.held_groups
         /\ item.stale => /\ b.entries = a.entries /\ b.groups = a.groups
                          /\ b.dropped = a.dropped \cup Holds(item)
         /\ ~item.stale => /\ b.entries = a.entries \o <<item>> /\ b.dropped = a.dropped
                           /\ b.groups = a.groups \cup ({item.group} \ {NoGroup})
<1>1. Holds(item) \in SUBSET Lines /\ {item.group} \ {NoGroup} \in GroupSets
  BY DEF Holds, Item, GroupSets
<1>2. /\ a.entries \in Seq(Item) /\ a.groups \in GroupSets /\ a.seen \in SUBSET Lines
      /\ a.dropped \in SUBSET Lines
  BY DEF AnyAdditions, GroupSets
<1>3. CASE item.stale
  <2>1. PICK seen \in SUBSET Lines, dropped \in SUBSET Lines :
          /\ seen = a.seen \cup Holds(item) /\ dropped = a.dropped \cup Holds(item)
    BY <1>1, <1>2
  <2>2. b = [a EXCEPT !.seen = seen, !.dropped = dropped]
    BY <1>3, <2>1 DEF take
  <2>3. b \in AnyAdditions
    BY <2>2, Zenon DEF AnyAdditions
  <2>4. /\ b.seen = seen /\ b.reopened = a.reopened /\ b.held_seen = a.held_seen
        /\ b.held_groups = a.held_groups /\ b.entries = a.entries /\ b.groups = a.groups
        /\ b.dropped = dropped
    BY <2>2 DEF AnyAdditions
  <2>5. QED
    BY <1>3, <2>1, <2>3, <2>4
<1>4. CASE ~item.stale
  <2>1. PICK seen \in SUBSET Lines, groups \in GroupSets, entries \in Seq(Item) :
          /\ seen = a.seen \cup Holds(item) /\ groups = a.groups \cup ({item.group} \ {NoGroup})
          /\ entries = a.entries \o <<item>>
    <3>1. a.groups \cup ({item.group} \ {NoGroup}) \in GroupSets
      BY <1>1, <1>2 DEF GroupSets
    <3>2. a.entries \o <<item>> \in Seq(Item)
      BY <1>2
    <3>3. QED
      BY <1>1, <1>2, <3>1, <3>2
  <2>2. Append(a.entries, item) = entries
    BY <1>2, <2>1
  <2>3. b = [a EXCEPT !.seen = seen, !.groups = groups, !.entries = entries]
    BY <1>4, <2>1, <2>2 DEF take
  <2>4. b \in AnyAdditions
    BY <2>3, Zenon DEF AnyAdditions, GroupSets
  <2>5. /\ b.seen = seen /\ b.reopened = a.reopened /\ b.held_seen = a.held_seen
        /\ b.held_groups = a.held_groups /\ b.entries = entries /\ b.groups = groups
        /\ b.dropped = a.dropped
    BY <2>3 DEF AnyAdditions
  <2>6. QED
    BY <1>4, <2>1, <2>4, <2>5
<1>5. QED
  BY <1>3, <1>4

\* A result the session and the additions lack is unlike all of theirs (admits, take).
LEMMA TakeOK ==
  ASSUME NEW s \in SessionRecord, SessionOK(s), NEW a \in AnyAdditions, AdditionsOK(s, a),
         NEW item \in Item, admits(s, a, item), NEW b, b = take(a, item)
  PROVE  /\ b \in AnyAdditions /\ AdditionsOK(s, b)
         /\ Range(b.entries) \subseteq Range(a.entries) \cup {item}
<1> DEFINE p == Stays(s, a)
<1>1. /\ b \in AnyAdditions
      /\ b.seen = a.seen \cup Holds(item) /\ b.reopened = a.reopened
      /\ b.held_seen = a.held_seen /\ b.held_groups = a.held_groups
      /\ item.stale => /\ b.entries = a.entries /\ b.groups = a.groups
                       /\ b.dropped = a.dropped \cup Holds(item)
      /\ ~item.stale => /\ b.entries = a.entries \o <<item>> /\ b.dropped = a.dropped
                        /\ b.groups = a.groups \cup ({item.group} \ {NoGroup})
  BY TakeIs
<1>2. Stays(s, b) = p
  BY <1>1 DEF Stays
<1>3. /\ a.entries \in Seq(Item) /\ <<item>> \in Seq(Item) /\ Range(<<item>>) = {item}
      /\ OneOfEach(<<item>>)
  BY Single DEF AnyAdditions
<1>4. /\ NoneStale(a.entries) /\ OneOfEach(a.entries)
      /\ SeenIn(a.entries, a.seen, a.groups) /\ SeenOnly(a) /\ Apart(p, a.entries)
      /\ a.reopened => SeenIn(p, a.held_seen, a.held_groups)
      /\ ~a.reopened => SeenIn(p, s.seen, s.seen_groups)
  BY DEF AdditionsOK, Stays, SessionOK
<1>5. Apart(a.entries, <<item>>) /\ Apart(p, <<item>>)
  BY <1>3, <1>4 DEF admits, SeenIn, Apart, Differ
<1>6. CASE item.stale
  <2>1. SeenIn(b.entries, b.seen, b.groups)
    BY <1>1, <1>4, <1>6 DEF SeenIn
  <2>2. SeenOnly(b)
    BY <1>1, <1>4, <1>6 DEF SeenOnly
  <2>3. QED
    BY <1>1, <1>2, <1>4, <1>6, <2>1, <2>2 DEF AdditionsOK
<1>7. CASE ~item.stale
  <2>1. /\ b.entries = a.entries \o <<item>> /\ Range(b.entries) = Range(a.entries) \cup {item}
        /\ OneOfEach(b.entries)
    <3>1. b.entries = a.entries \o <<item>>
      BY <1>1, <1>7
    <3>2. Range(a.entries \o <<item>>) = Range(a.entries) \cup {item}
      <4>1. PICK es \in Seq(Item), one \in Seq(Item) : es = a.entries /\ one = <<item>>
        BY <1>3
      <4>2. Range(es \o one) = Range(es) \cup Range(one)
        BY Both
      <4>3. QED
        BY <1>3, <4>1, <4>2
    <3>3. OneOfEach(a.entries \o <<item>>)
      BY <1>3, <1>4, <1>5, OnceTogether
    <3>4. QED
      BY <3>1, <3>2, <3>3
  <2>2. NoneStale(b.entries)
    BY <1>4, <1>7, <2>1 DEF NoneStale
  <2>3. SeenIn(b.entries, b.seen, b.groups)
    BY <1>1, <1>4, <1>7, <2>1 DEF SeenIn, Holds
  <2>4. Apart(p, b.entries)
    BY <1>3, <1>4, <1>5, <2>1 DEF Apart
  <2>5. SeenOnly(b)
    <3>1. Held(b.entries) = Held(a.entries) \cup Holds(item)
      BY <2>1 DEF Held
    <3>2. Groups(b.entries) = Groups(a.entries) \cup ({item.group} \ {NoGroup})
      BY <2>1 DEF Groups
    <3>3. QED
      BY <1>1, <1>4, <1>7, <3>1, <3>2 DEF SeenOnly
  <2>6. QED
    BY <1>1, <1>2, <1>4, <2>1, <2>2, <2>3, <2>4, <2>5 DEF AdditionsOK
<1>8. QED
  BY <1>6, <1>7

\* Offering the results of a window, one after another, to a session's additions.
Offers(s, a, items) ==
  CHOOSE taken : taken = [n \in 0 .. Len(items) |->
    IF n = 0 THEN a ELSE Offered(s, items[n])[taken[n - 1]]]

\* The recursion over a window's results is what it says (the loop of
\* expand_semantic_session).
LEMMA OffersIs ==
  ASSUME NEW s, NEW a, NEW items \in Seq(Item)
  PROVE  LET f == Offers(s, a, items)
         IN  f = [n \in 0 .. Len(items) |->
                    IF n = 0 THEN a ELSE Offered(s, items[n])[f[n - 1]]]
<1> DEFINE To(f, m) == f = [n \in 0 .. m |->
                              IF n = 0 THEN a ELSE Offered(s, items[n])[f[n - 1]]]
           N == Len(items)
           S == {m \in 0 .. N : \E f : To(f, m)}
<1>1. N \in Nat /\ 0 \in 0 .. N /\ \A m \in 0 .. N - 1 : m \in 0 .. N /\ m + 1 \in 0 .. N
  OBVIOUS
<1>2. \A m : m \in S <=> m \in 0 .. N /\ \E f : To(f, m)
  BY Zenon
<1>3. To([n \in 0 .. 0 |-> a], 0)
  OBVIOUS
<1> HIDE DEF S
<1>4. 0 \in S
  <2> HIDE DEF To, N
  <2>1. \E f : To(f, 0)
    BY <1>3, Zenon
  <2>2. QED
    BY <1>1, <1>2, <2>1, Zenon
<1>5. \A m \in 0 .. N - 1 : m \in S => m + 1 \in S
  <2>1. SUFFICES ASSUME NEW m \in 0 .. N - 1, m \in S
                 PROVE  \E g : To(g, m + 1)
    <3> HIDE DEF To, N
    <3>1. QED
      BY <1>1, <1>2
  <2>2. PICK f : To(f, m)
    <3> HIDE DEF To, N
    <3>1. QED
      BY <1>2, <2>1
  <2> DEFINE g == [n \in 0 .. m + 1 |->
                     IF n = m + 1 THEN Offered(s, items[n])[f[m]] ELSE f[n]]
  <2>3. \A n \in 0 .. m + 1 : g[n] = IF n = 0 THEN a ELSE Offered(s, items[n])[g[n - 1]]
    <3>1. SUFFICES ASSUME NEW n \in 0 .. m + 1
                   PROVE  g[n] = IF n = 0 THEN a ELSE Offered(s, items[n])[g[n - 1]]
      OBVIOUS
    <3>2. CASE n = m + 1
      <4>1. g[n] = Offered(s, items[n])[f[m]] /\ n # 0 /\ n - 1 = m /\ m \in 0 .. m + 1 /\ m # m + 1
        BY <3>2
      <4>2. g[m] = f[m]
        BY <4>1
      <4>3. QED
        BY <4>1, <4>2
    <3>3. CASE n # m + 1
      <4>1. n \in 0 .. m /\ g[n] = f[n]
        BY <3>3
      <4>2. f[n] = IF n = 0 THEN a ELSE Offered(s, items[n])[f[n - 1]]
        BY <2>2, <4>1
      <4>3. n # 0 => n - 1 \in 0 .. m + 1 /\ n - 1 # m + 1
        BY <4>1
      <4>4. n # 0 => g[n - 1] = f[n - 1]
        BY <4>3
      <4>5. QED
        BY <4>1, <4>2, <4>4
    <3>4. QED
      BY <3>2, <3>3
  <2>4. g = [n \in 0 .. m + 1 |-> g[n]]
    OBVIOUS
  <2> HIDE DEF g
  <2>5. To(g, m + 1)
    BY <2>3, <2>4
  <2>6. QED
    <3> HIDE DEF To
    <3>1. QED
      BY <2>5
<1>6. N \in S
  <2> HIDE DEF N, To
  <2>1. \A n \in 0 .. N : n \in S
    BY <1>1, <1>4, <1>5, Upto
  <2>2. QED
    BY <1>1, <2>1
<1>7. PICK f : To(f, N)
  <2> HIDE DEF To, N
  <2>1. QED
    BY <1>6, <1>2
<1>8. QED
  BY <1>7, Zenon DEF Offers

\* Every result of a window that is taken is unlike all before it
\* (expand_semantic_session's loop).
LEMMA TakenOK ==
  ASSUME NEW s \in SessionRecord, SessionOK(s), NEW a \in AnyAdditions, AdditionsOK(s, a),
         NEW items \in Seq(Item), NEW b, b = Taken(s, a, items)
  PROVE  /\ b \in AnyAdditions /\ AdditionsOK(s, b)
         /\ Range(b.entries) \subseteq Range(a.entries) \cup Range(items)
<1> DEFINE f == Offers(s, a, items)
           N == Len(items)
           Good(c) == /\ c \in AnyAdditions /\ AdditionsOK(s, c)
                      /\ Range(c.entries) \subseteq Range(a.entries) \cup Range(items)
           S == {n \in 0 .. N : Good(f[n])}
<1>1. b = f[N]
  BY DEF Taken, Offers
<1>2. f = [n \in 0 .. N |-> IF n = 0 THEN a ELSE Offered(s, items[n])[f[n - 1]]] /\ N \in Nat
  BY OffersIs
<1> HIDE DEF f
<1>3. /\ 0 \in 0 .. N /\ \A n \in 0 .. N - 1 : n \in 0 .. N /\ n + 1 \in 0 .. N
      /\ \A n : n \in S <=> n \in 0 .. N /\ Good(f[n])
  BY <1>2
<1> HIDE DEF S
<1>4. 0 \in S
  BY <1>2, <1>3
<1>5. \A n \in 0 .. N - 1 : n \in S => n + 1 \in S
  <2>1. SUFFICES ASSUME NEW n \in 0 .. N - 1, Good(f[n])
                 PROVE  Good(f[n + 1])
    <3> HIDE DEF Good, N
    <3>1. QED
      BY <1>3
  <2>2. f[n + 1] = Offered(s, items[n + 1])[f[n]] /\ n + 1 \in 1 .. N
    BY <1>2
  <2>3. PICK c : c = f[n]
    OBVIOUS
  <2>4. PICK item \in Item : item = items[n + 1] /\ item \in Range(items)
    BY <2>2, RangeIs
  <2>5. f[n + 1] = IF admits(s, c, item) THEN take(c, item) ELSE c
    BY <2>1, <2>2, <2>3, <2>4 DEF Offered
  <2>6. CASE admits(s, c, item)
    <3>1. PICK d : d = take(c, item)
      OBVIOUS
    <3>2. /\ d \in AnyAdditions /\ AdditionsOK(s, d)
          /\ Range(d.entries) \subseteq Range(c.entries) \cup {item}
      BY <2>1, <2>3, <2>6, <3>1, TakeOK
    <3>3. QED
      BY <2>1, <2>3, <2>4, <2>5, <2>6, <3>1, <3>2
  <2>7. CASE ~admits(s, c, item)
    BY <2>1, <2>3, <2>5, <2>7
  <2>8. QED
    BY <2>6, <2>7
<1>6. N \in S
  <2> HIDE DEF N
  <2>1. \A n \in 0 .. N : n \in S
    BY <1>2, <1>4, <1>5, Upto
  <2>2. QED
    BY <1>2, <2>1
<1>7. QED
  BY <1>1, <1>6, <1>3

----------------------------------------------------------------------------
(* Committing, and showing a page.                                          *)

\* Keeping, one after another, the results no page has shown.
Keeps(s, a) ==
  CHOOSE unshown : unshown = [n \in 0 .. Len(s.entries) |->
    IF n <= s.shown THEN <<>>
    ELSE unshown[n - 1] \o (IF leaves(a, s.entries[n]) THEN <<s.entries[n]>> ELSE <<>>)]

\* The recursion over a session's results is what it says (commit's retain).
LEMMA KeepsIs ==
  ASSUME NEW s \in SessionRecord, NEW a
  PROVE  LET f == Keeps(s, a)
         IN  f = [n \in 0 .. Len(s.entries) |->
                    IF n <= s.shown THEN <<>>
                    ELSE f[n - 1] \o (IF leaves(a, s.entries[n]) THEN <<s.entries[n]>> ELSE <<>>)]
<1> DEFINE At1(f, n) == IF n <= s.shown THEN <<>>
                        ELSE f[n - 1] \o (IF leaves(a, s.entries[n]) THEN <<s.entries[n]>> ELSE <<>>)
           To(f, m) == f = [n \in 0 .. m |-> At1(f, n)]
           N == Len(s.entries)
           S == {m \in 0 .. N : \E f : To(f, m)}
<1>1. /\ N \in Nat /\ 0 \in 0 .. N /\ s.shown \in Nat
      /\ \A m \in 0 .. N - 1 : m \in 0 .. N /\ m + 1 \in 0 .. N
  BY DEF SessionRecord
<1>2. \A m : m \in S <=> m \in 0 .. N /\ \E f : To(f, m)
  BY Zenon
<1> HIDE DEF S, N
<1>3. 0 \in S
  <2>1. To([n \in 0 .. 0 |-> <<>>], 0)
    BY <1>1
  <2> HIDE DEF To
  <2>2. \E f : To(f, 0)
    BY <2>1, Zenon
  <2>3. QED
    BY <1>1, <1>2, <2>2, Zenon
<1>4. \A m \in 0 .. N - 1 : m \in S => m + 1 \in S
  <2>1. SUFFICES ASSUME NEW m \in 0 .. N - 1, m \in S
                 PROVE  \E g : To(g, m + 1)
    <3> HIDE DEF To
    <3>1. QED
      BY <1>1, <1>2
  <2>2. PICK f : To(f, m)
    <3> HIDE DEF To
    <3>1. QED
      BY <1>2, <2>1
  <2> DEFINE g == [n \in 0 .. m + 1 |-> IF n = m + 1 THEN At1(f, m + 1) ELSE f[n]]
  <2>3. \A n \in 0 .. m + 1 : g[n] = At1(g, n)
    <3>1. SUFFICES ASSUME NEW n \in 0 .. m + 1
                   PROVE  g[n] = At1(g, n)
      OBVIOUS
    <3>2. \A k \in 0 .. m : k \in 0 .. m + 1 /\ k # m + 1 /\ g[k] = f[k]
      BY <1>1
    <3>3. g[m + 1] = At1(f, m + 1)
      BY <1>1
    <3>4. n \in 0 .. m \/ n = m + 1
      BY <1>1
    <3>5. ~(n <= s.shown) => n - 1 \in 0 .. m
      BY <1>1, <3>1
    <3>6. n \in 0 .. m => f[n] = At1(f, n)
      BY <2>2
    <3> HIDE DEF g
    <3>7. QED
      BY <3>2, <3>3, <3>4, <3>5, <3>6
  <2>4. g = [n \in 0 .. m + 1 |-> g[n]]
    OBVIOUS
  <2> HIDE DEF g, At1
  <2>5. To(g, m + 1)
    BY <2>3, <2>4
  <2> HIDE DEF To
  <2>6. QED
    BY <2>5
<1>5. PICK f : To(f, N)
  <2> HIDE DEF To
  <2>1. \A n \in 0 .. N : n \in S
    BY <1>1, <1>3, <1>4, Upto
  <2>2. QED
    BY <1>1, <1>2, <2>1
<1>6. QED
  BY <1>5, Zenon DEF Keeps, N

\* The results no page has shown that no addition is in the way of, in their order.
LEMMA UnshownIs ==
  ASSUME NEW s \in SessionRecord, SessionOK(s), NEW a, NEW u, u = Unshown(s, a)
  PROVE  /\ u \in Seq(Item) /\ OneOfEach(u)
         /\ \A e \in Range(u) : /\ leaves(a, e)
                                /\ \E k \in s.shown + 1 .. Len(s.entries) : e = s.entries[k]
         /\ \A k \in s.shown + 1 .. Len(s.entries) :
              leaves(a, s.entries[k]) => s.entries[k] \in Range(u)
<1> DEFINE f == Keeps(s, a)
           N == Len(s.entries)
           Good(v, n) ==
             /\ v \in Seq(Item) /\ OneOfEach(v)
             /\ \A e \in Range(v) : leaves(a, e) /\ \E k \in s.shown + 1 .. n : e = s.entries[k]
             /\ \A k \in s.shown + 1 .. n : leaves(a, s.entries[k]) => s.entries[k] \in Range(v)
           S == {n \in 0 .. N : Good(f[n], n)}
<1>1. u = f[N]
  BY DEF Unshown, Keeps
<1>2. f = [n \in 0 .. N |->
             IF n <= s.shown THEN <<>>
             ELSE f[n - 1] \o (IF leaves(a, s.entries[n]) THEN <<s.entries[n]>> ELSE <<>>)]
  BY KeepsIs
<1>3. /\ N \in Nat /\ s.shown \in Nat /\ s.entries \in Seq(Item) /\ OneOfEach(s.entries)
      /\ 0 \in 0 .. N /\ \A n \in 0 .. N - 1 : n \in 0 .. N /\ n + 1 \in 1 .. N /\ n + 1 \in 0 .. N
  BY DEF SessionRecord, SessionOK
<1>4. \A n : n \in S <=> n \in 0 .. N /\ Good(f[n], n)
  BY Zenon
<1> HIDE DEF f, S
<1>5. \A n \in 0 .. N : n <= s.shown => Good(f[n], n)
  <2>1. SUFFICES ASSUME NEW n \in 0 .. N, n <= s.shown
                 PROVE  Good(f[n], n)
    OBVIOUS
  <2>2. f[n] = <<>> /\ s.shown + 1 .. n = {}
    BY <1>2, <1>3, <2>1
  <2>3. QED
    BY <2>2, Single
<1>6. 0 \in S
  <2> HIDE DEF Good
  <2>1. QED
    BY <1>3, <1>4, <1>5
<1>7. \A n \in 0 .. N - 1 : n \in S => n + 1 \in S
  <2>1. SUFFICES ASSUME NEW n \in 0 .. N - 1, Good(f[n], n), ~(n + 1 <= s.shown)
                 PROVE  Good(f[n + 1], n + 1)
    <3> HIDE DEF Good
    <3>1. QED
      BY <1>3, <1>4, <1>5
  <2>2. PICK e \in Item : e = s.entries[n + 1]
    BY <1>3
  <2>3. PICK v : v = f[n]
    OBVIOUS
  <2>4. f[n + 1] = v \o (IF leaves(a, e) THEN <<e>> ELSE <<>>)
    <3>1. (n + 1) - 1 = n
      OBVIOUS
    <3>2. f[n + 1] = f[(n + 1) - 1] \o (IF leaves(a, e) THEN <<e>> ELSE <<>>)
      BY <1>2, <1>3, <2>1, <2>2
    <3>3. QED
      BY <2>3, <3>1, <3>2
  <2>5. \A k : k \in s.shown + 1 .. n + 1 <=> k \in s.shown + 1 .. n \/ k = n + 1
    BY <1>3, <2>1
  <2>6. CASE leaves(a, e)
    <3>1. f[n + 1] = v \o <<e>>
      BY <2>4, <2>6
    <3>2. /\ v \in Seq(Item) /\ OneOfEach(v) /\ <<e>> \in Seq(Item) /\ OneOfEach(<<e>>)
          /\ Range(<<e>>) = {e}
      BY <2>1, <2>3, Single
    <3>3. Apart(v, <<e>>)
      <4>1. SUFFICES ASSUME NEW d \in Range(v)
                     PROVE  Differ(d, e)
        BY <3>2 DEF Apart
      <4>2. PICK k \in s.shown + 1 .. n : d = s.entries[k]
        BY <2>1, <2>3
      <4>3. k \in 1 .. N /\ n + 1 \in 1 .. N /\ k < n + 1
        BY <1>3
      <4>4. QED
        BY <1>3, <2>2, <4>2, <4>3 DEF OneOfEach, Differ
    <3>4. /\ f[n + 1] \in Seq(Item) /\ OneOfEach(f[n + 1])
          /\ Range(f[n + 1]) = Range(v) \cup {e}
      BY <3>1, <3>2, <3>3, Both, OnceTogether
    <3>5. QED
      BY <2>1, <2>2, <2>3, <2>5, <2>6, <3>4
  <2>7. CASE ~leaves(a, e)
    <3>1. f[n + 1] = v
      BY <2>1, <2>3, <2>4, <2>7
    <3>2. QED
      BY <2>1, <2>2, <2>3, <2>5, <2>7, <3>1
  <2>8. QED
    BY <2>6, <2>7
<1>8. N \in S
  <2> HIDE DEF N
  <2>1. \A n \in 0 .. N : n \in S
    BY <1>3, <1>6, <1>7, Upto
  <2>2. QED
    BY <1>3, <2>1
<1>9. Good(f[N], N)
  <2> HIDE DEF Good, N
  <2>1. QED
    BY <1>4, <1>8
<1>10. QED
  BY <1>1, <1>9

\* Results shown keep their places.
Extends(s, t) ==
  /\ s.shown <= t.shown
  /\ \A k \in 1 .. s.shown : t.entries[k] = s.entries[k]

\* A result goes only where one of its lines, or its group, is held.
GaveWay(s, t) ==
  \A e \in Range(s.entries) :
    \/ Holds(e) \cap (Held(t.entries) \cup t.dropped) # {}
    \/ e.group # NoGroup /\ e.group \in Groups(t.entries)

\* Additions committed leave a session that repeats nothing, with what pages
\* have shown in its place (commit).
LEMMA CommitOK ==
  ASSUME NEW s \in SessionRecord, SessionOK(s), NEW a \in AnyAdditions, AdditionsOK(s, a),
         NEW r, r = commit(s, a)
  PROVE  /\ r \in SessionRecord /\ SessionOK(r) /\ r.shown = s.shown
         /\ \A k \in 1 .. s.shown : r.entries[k] = s.entries[k]
         /\ Range(r.entries) \subseteq Range(s.entries) \cup Range(a.entries)
         /\ GaveWay(s, r)
<1>1. PICK p : p = Stays(s, a)
  OBVIOUS
<1>2. PICK u : u = IF a.reopened THEN Unshown(s, a) ELSE <<>>
  OBVIOUS
<1>3. PICK q : q = p \o a.entries
  OBVIOUS
<1>4. PICK entries : entries = q \o u
  OBVIOUS
<1>5. /\ s.entries \in Seq(Item) /\ OneOfEach(s.entries) /\ NoneStale(s.entries)
      /\ SeenIn(s.entries, s.seen, s.seen_groups)
      /\ s.shown \in Nat /\ s.shown <= Len(s.entries) /\ a.entries \in Seq(Item)
      /\ s.seen \in SUBSET Lines /\ s.seen_groups \in GroupSets /\ s.dropped \in SUBSET Lines
      /\ a.seen \in SUBSET Lines /\ a.groups \in GroupSets /\ a.dropped \in SUBSET Lines
      /\ a.held_seen \in SUBSET Lines /\ a.held_groups \in GroupSets
  BY DEF SessionRecord, SessionOK, AnyAdditions, GroupSets
<1>6. /\ NoneStale(a.entries) /\ OneOfEach(a.entries)
      /\ SeenIn(a.entries, a.seen, a.groups) /\ SeenOnly(a) /\ Apart(p, a.entries)
      /\ a.reopened => SeenIn(p, a.held_seen, a.held_groups)
  BY <1>1 DEF AdditionsOK
<1>7. /\ p \in Seq(Item) /\ Range(p) \subseteq Range(s.entries) /\ OneOfEach(p)
      /\ s.shown <= Len(p) /\ Len(p) <= Len(s.entries)
      /\ \A i \in 1 .. Len(p) : p[i] = s.entries[i]
  BY <1>1, StaysIs
<1>8. a.reopened => Len(p) = s.shown
  <2>1. SUFFICES ASSUME a.reopened
                 PROVE  Len(p) = s.shown
    OBVIOUS
  <2>2. p = SubSeq(s.entries, 1, s.shown) /\ s.shown \in 0 .. Len(s.entries)
    BY <1>1, <1>5, <2>1 DEF Stays
  <2>3. QED
    BY <1>5, <2>2
<1>9. /\ u \in Seq(Item) /\ OneOfEach(u)
      /\ \A e \in Range(u) : /\ leaves(a, e) /\ a.reopened
                             /\ \E k \in s.shown + 1 .. Len(s.entries) : e = s.entries[k]
      /\ a.reopened => \A k \in s.shown + 1 .. Len(s.entries) :
                         leaves(a, s.entries[k]) => s.entries[k] \in Range(u)
  <2>1. CASE a.reopened
    <3>1. u = Unshown(s, a)
      BY <1>2, <2>1
    <3>2. QED
      BY <2>1, <3>1, UnshownIs
  <2>2. CASE ~a.reopened
    <3>1. u = <<>>
      BY <1>2, <2>2
    <3>2. QED
      BY <2>2, <3>1, Single
  <2>3. QED
    BY <2>1, <2>2
<1>10. Range(u) \subseteq Range(s.entries)
  <2>1. SUFFICES ASSUME NEW e \in Range(u)
                 PROVE  e \in Range(s.entries)
    OBVIOUS
  <2>2. PICK k \in s.shown + 1 .. Len(s.entries) : e = s.entries[k]
    BY <1>9
  <2>3. k \in 1 .. Len(s.entries)
    BY <1>5
  <2>4. QED
    BY <1>5, <2>2, <2>3, RangeIs
<1>11. Apart(a.entries, u)
  BY <1>6, <1>9 DEF Apart, Differ, SeenIn, leaves
<1>12. Apart(p, u)
  <2>1. SUFFICES ASSUME NEW d \in Range(p), NEW e \in Range(u)
                 PROVE  Differ(d, e)
    BY DEF Apart
  <2>2. PICK i \in 1 .. Len(p) : d = p[i]
    BY <1>7, RangeIs
  <2>3. PICK k \in s.shown + 1 .. Len(s.entries) : e = s.entries[k]
    BY <1>9
  <2>4. /\ i \in 1 .. Len(s.entries) /\ k \in 1 .. Len(s.entries) /\ i < k
        /\ d = s.entries[i]
    BY <1>5, <1>7, <1>8, <1>9, <2>2
  <2>5. QED
    BY <1>5, <2>3, <2>4 DEF OneOfEach, Differ
<1>13. /\ q \in Seq(Item) /\ Range(q) = Range(p) \cup Range(a.entries) /\ OneOfEach(q)
       /\ Len(q) = Len(p) + Len(a.entries) /\ \A i \in 1 .. Len(p) : q[i] = p[i]
  BY <1>3, <1>5, <1>6, <1>7, Both, OnceTogether
<1>14. Apart(q, u)
  BY <1>11, <1>12, <1>13 DEF Apart
<1>15. /\ entries \in Seq(Item) /\ Range(entries) = Range(q) \cup Range(u) /\ OneOfEach(entries)
       /\ Len(entries) = Len(q) + Len(u) /\ \A i \in 1 .. Len(q) : entries[i] = q[i]
  BY <1>4, <1>9, <1>13, <1>14, Both, OnceTogether
<1>16. /\ Held(u) \in SUBSET Lines /\ Groups(u) \in GroupSets /\ SeenIn(u, Held(u), Groups(u))
  BY <1>9, HeldIs
<1>17. PICK seen \in SUBSET Lines, groups \in GroupSets, dropped \in SUBSET Lines :
         /\ seen = (IF a.reopened THEN a.held_seen ELSE s.seen) \cup a.seen \cup Held(u)
         /\ groups = (IF a.reopened THEN a.held_groups ELSE s.seen_groups)
                       \cup a.groups \cup Groups(u)
         /\ dropped = s.dropped \cup a.dropped
  <2>1. (IF a.reopened THEN a.held_seen ELSE s.seen) \cup a.seen \cup Held(u) \in SUBSET Lines
    BY <1>5, <1>16
  <2>2. (IF a.reopened THEN a.held_groups ELSE s.seen_groups)
          \cup a.groups \cup Groups(u) \in GroupSets
    BY <1>5, <1>16 DEF GroupSets
  <2>3. s.dropped \cup a.dropped \in SUBSET Lines
    BY <1>5
  <2>4. QED
    BY <2>1, <2>2, <2>3, Zenon
<1>18. r = [s EXCEPT !.entries = entries, !.seen = seen, !.seen_groups = groups,
                     !.dropped = dropped]
  <2>1. (IF a.reopened THEN SubSeq(s.entries, 1, s.shown) ELSE s.entries) = p
    BY <1>1 DEF Stays
  <2>2. entries = p \o a.entries \o u
    BY <1>3, <1>4
  <2>3. QED
    BY <1>2, <1>17, <2>1, <2>2, Zenon DEF commit
<1>19. r \in SessionRecord
  BY <1>15, <1>18, Zenon DEF SessionRecord
<1>20. /\ r.entries = entries /\ r.seen = seen /\ r.seen_groups = groups /\ r.dropped = dropped
       /\ r.shown = s.shown
  BY <1>18 DEF SessionRecord
<1>21. SessionOK(r)
  <2>1. s.shown <= Len(entries)
    BY <1>5, <1>7, <1>9, <1>13, <1>15
  <2>2. NoneStale(entries)
    BY <1>5, <1>6, <1>7, <1>10, <1>13, <1>15 DEF NoneStale
  <2>3. SeenIn(p, seen, groups)
    <3>1. CASE a.reopened
      BY <1>6, <1>17, <3>1 DEF SeenIn
    <3>2. CASE ~a.reopened
      BY <1>5, <1>7, <1>17, <3>2 DEF SeenIn
    <3>3. QED
      BY <3>1, <3>2
  <2>4. SeenIn(a.entries, seen, groups)
    BY <1>6, <1>17 DEF SeenIn
  <2>5. SeenIn(u, seen, groups)
    BY <1>16, <1>17 DEF SeenIn
  <2>6. SeenIn(entries, seen, groups)
    BY <1>13, <1>15, <2>3, <2>4, <2>5 DEF SeenIn
  <2>7. QED
    BY <1>15, <1>20, <2>1, <2>2, <2>6 DEF SessionOK
<1>22. \A k \in 1 .. s.shown : r.entries[k] = s.entries[k]
  <2>1. SUFFICES ASSUME NEW k \in 1 .. s.shown
                 PROVE  r.entries[k] = s.entries[k]
    OBVIOUS
  <2>2. k \in 1 .. Len(p) /\ k \in 1 .. Len(q)
    BY <1>5, <1>7, <1>13
  <2>3. QED
    BY <1>7, <1>13, <1>15, <1>20, <2>2
<1>23. GaveWay(s, r)
  <2>1. /\ Held(entries) = Held(p) \cup Held(a.entries) \cup Held(u)
        /\ Groups(entries) = Groups(p) \cup Groups(a.entries) \cup Groups(u)
    BY <1>13, <1>15 DEF Held, Groups
  <2>2. SUFFICES ASSUME NEW e \in Range(s.entries)
                 PROVE  \/ Holds(e) \cap (Held(entries) \cup dropped) # {}
                        \/ e.group # NoGroup /\ e.group \in Groups(entries)
    BY <1>20 DEF GaveWay
  <2>3. CASE e \in Range(entries)
    BY <2>3 DEF Held, Holds
  <2>4. CASE ~leaves(a, e)
    <3>1. e.line \in a.seen \/ e.siblings \cap a.seen # {} \/ e.group \in a.groups
      BY <2>4 DEF leaves
    <3>2. a.seen \subseteq Held(entries) \cup dropped /\ a.groups \subseteq Groups(entries)
      BY <1>6, <1>17, <2>1 DEF SeenOnly
    <3>3. NoGroup \notin Groups(entries)
      BY DEF Groups
    <3>4. QED
      BY <3>1, <3>2, <3>3 DEF Holds
  <2>5. CASE leaves(a, e) /\ e \notin Range(entries)
    <3>1. e \notin Range(p) /\ e \notin Range(u)
      BY <1>13, <1>15, <2>5
    <3>2. PICK k \in 1 .. Len(s.entries) : e = s.entries[k]
      BY <1>5, RangeIs
    <3>3. ~(k <= Len(p))
      BY <1>7, <3>1, <3>2, RangeIs
    <3>4. a.reopened
      BY <1>1, <1>5, <3>3 DEF Stays
    <3>5. k \in s.shown + 1 .. Len(s.entries)
      BY <1>5, <1>8, <3>3, <3>4
    <3>6. QED
      BY <1>9, <2>5, <3>1, <3>2, <3>4, <3>5
  <2>6. QED
    BY <2>3, <2>4, <2>5
<1>24. QED
  BY <1>7, <1>10, <1>13, <1>15, <1>19, <1>20, <1>21, <1>22, <1>23

\* The least and the greatest of two numbers.
LEMMA MinMax ==
  ASSUME NEW m \in Nat, NEW n \in Nat
  PROVE  /\ Min({m, n}) = IF m <= n THEN m ELSE n
         /\ Max({m, n}) = IF m <= n THEN n ELSE m
<1>1. \A x : (x \in {m, n} /\ \A y \in {m, n} : x <= y) => x = IF m <= n THEN m ELSE n
  OBVIOUS
<1>2. \A x : (x \in {m, n} /\ \A y \in {m, n} : x >= y) => x = IF m <= n THEN n ELSE m
  OBVIOUS
<1>3. /\ \E x \in {m, n} : \A y \in {m, n} : x <= y
      /\ \E x \in {m, n} : \A y \in {m, n} : x >= y
  OBVIOUS
<1>4. QED
  BY <1>1, <1>2, <1>3 DEF Min, Max

\* The results of `es` after the first `o`, as far as there are any.
PartOf(q, es, o) == \A k \in 1 .. Len(q) : q[k] = es[o + k]

\* What a client shows with a page put in its place (Shows).
Patched(old, q, o) == SubSeq(old, 1, o) \o q \o SubSeq(old, o + Len(q) + 1, Len(old))

\* A page put into the results a client shows, all of them a session's, leaves
\* them that session's (Shows).
LEMMA Painted ==
  ASSUME NEW old \in Seq(Item), NEW q \in Seq(Item), NEW es \in Seq(Item),
         NEW o \in 0 .. Len(old), NEW m \in 0 .. Len(es), Len(old) <= m,
         PartOf(old, es, 0), Len(q) = 0 \/ o + Len(q) <= m, PartOf(q, es, o),
         NEW p, p = Patched(old, q, o)
  PROVE  /\ p \in Seq(Item) /\ Len(p) <= m
         /\ PartOf(p, es, 0)
<1>1. /\ \A i \in 1 .. Len(old) : old[i] = es[i]
      /\ \A i \in 1 .. Len(q) : q[i] = es[o + i]
  BY DEF PartOf
<1>2. PICK n \in Nat : n = o + Len(q)
  OBVIOUS
<1>3. PICK a \in Seq(Item) : a = SubSeq(old, 1, o)
  BY FirstIs
<1>4. PICK z : z = SubSeq(old, n + 1, Len(old))
  OBVIOUS
<1>5. PICK b : b = a \o q
  OBVIOUS
<1>6. Len(a) = o /\ \A i \in 1 .. o : a[i] = old[i]
  BY <1>3, FirstIs
<1>7. z \in Seq(Item)
  BY <1>4, PartIs
<1>8. Len(z) = (IF n <= Len(old) THEN Len(old) - n ELSE 0)
  BY <1>4, PartIs
<1>9. \A i \in 1 .. Len(z) : z[i] = old[n + i]
  BY <1>4, PartIs
<1>10. b \in Seq(Item)
  BY <1>3, <1>5, Both
<1>11. Len(b) = n
  BY <1>2, <1>3, <1>5, <1>6, Both
<1>12. /\ \A i \in 1 .. o : b[i] = a[i]
       /\ \A i \in 1 .. Len(q) : b[o + i] = q[i]
       /\ \A i \in 1 .. n : i <= o \/ \E j \in 1 .. Len(q) : i = o + j
  <2>1. /\ \A i \in 1 .. Len(a) : b[i] = a[i]
        /\ \A i \in 1 .. Len(q) : b[Len(a) + i] = q[i]
        /\ \A i \in 1 .. Len(a) + Len(q) : i <= Len(a) \/ \E j \in 1 .. Len(q) : i = Len(a) + j
    BY <1>5, Both
  <2>2. Len(a) = o
    BY <1>6
  <2>3. QED
    BY <1>2, <2>1, <2>2
<1>13. p = b \o z
  BY <1>2, <1>3, <1>4, <1>5 DEF Patched
<1>14. /\ p \in Seq(Item) /\ Len(p) = n + Len(z) /\ \A i \in 1 .. n : p[i] = b[i]
       /\ \A i \in 1 .. Len(z) : p[n + i] = z[i]
       /\ \A i \in 1 .. n + Len(z) : i <= n \/ \E j \in 1 .. Len(z) : i = n + j
  <2>1. /\ p \in Seq(Item) /\ Len(p) = Len(b) + Len(z) /\ \A i \in 1 .. Len(b) : p[i] = b[i]
        /\ \A i \in 1 .. Len(z) : p[Len(b) + i] = z[i]
        /\ \A i \in 1 .. Len(b) + Len(z) : i <= Len(b) \/ \E j \in 1 .. Len(z) : i = Len(b) + j
    BY <1>7, <1>13, <1>10, Both
  <2>2. QED
    BY <1>11, <2>1
<1>15. Len(p) <= m
  <2>1. PICK l \in Nat : l = Len(z)
    BY <1>7
  <2>2. Len(p) = n + l
    BY <1>14, <2>1
  <2>3. l = (IF n <= Len(old) THEN Len(old) - n ELSE 0) /\ Len(old) \in Nat
    BY <1>8, <2>1
  <2>4. n <= m \/ n = o
    BY <1>2
  <2>5. QED
    BY <2>2, <2>3, <2>4
<1>16. \A i \in 1 .. n : b[i] = es[i]
  <2>1. SUFFICES ASSUME NEW i \in 1 .. n
                 PROVE  b[i] = es[i]
    OBVIOUS
  <2>2. CASE i <= o
    <3>1. i \in 1 .. o /\ i \in 1 .. Len(old)
      BY <2>2
    <3>2. QED
      BY <1>1, <1>6, <1>12, <3>1
  <2>3. CASE ~(i <= o)
    <3>1. PICK j \in 1 .. Len(q) : i = o + j
      BY <1>12, <2>3
    <3>2. QED
      BY <1>1, <1>12, <3>1
  <2>4. QED
    BY <2>2, <2>3
<1>17. \A i \in 1 .. Len(z) : z[i] = es[n + i]
  <2>1. SUFFICES ASSUME NEW i \in 1 .. Len(z)
                 PROVE  z[i] = es[n + i]
    OBVIOUS
  <2>2. n + i \in 1 .. Len(old)
    BY <1>7, <1>8
  <2>3. QED
    BY <1>1, <1>9, <2>2
<1>18. \A i \in 1 .. Len(p) : p[i] = es[i]
  <2>1. SUFFICES ASSUME NEW i \in 1 .. n + Len(z)
                 PROVE  p[i] = es[i]
    BY <1>14
  <2>2. CASE i <= n
    <3>1. i \in 1 .. n
      BY <2>2
    <3>2. QED
      BY <1>14, <1>16, <3>1
  <2>3. CASE ~(i <= n)
    <3>1. PICK j \in 1 .. Len(z) : i = n + j
      BY <1>14, <2>3
    <3>2. QED
      BY <1>14, <1>17, <3>1
  <2>4. QED
    BY <2>2, <2>3
<1>19. PartOf(p, es, 0)
  BY <1>14, <1>18 DEF PartOf
<1>20. QED
  BY <1>14, <1>15, <1>19

\* What a client shows with a page in it is results, whatever was there.
LEMMA PaintedTyped ==
  ASSUME NEW old \in Seq(Item), NEW q \in Seq(Item), NEW o \in 0 .. Len(old),
         NEW p, p = Patched(old, q, o)
  PROVE  p \in Seq(Item) /\ o <= Len(p)
<1>1. PICK n \in Nat : n = o + Len(q)
  OBVIOUS
<1>2. PICK a \in Seq(Item) : a = SubSeq(old, 1, o) /\ Len(a) = o
  BY FirstIs
<1>3. PICK z : z = SubSeq(old, n + 1, Len(old))
  OBVIOUS
<1>4. z \in Seq(Item)
  BY <1>3, PartIs
<1>5. PICK b : b = a \o q
  OBVIOUS
<1>6. b \in Seq(Item) /\ Len(b) = Len(a) + Len(q)
  BY <1>5, Both
<1>7. p = b \o z
  BY <1>1, <1>2, <1>3, <1>5 DEF Patched
<1>8. p \in Seq(Item) /\ Len(p) = Len(b) + Len(z)
  <2>1. b \in Seq(Item)
    BY <1>6
  <2>2. QED
    BY <1>4, <1>7, <2>1, Both
<1>9. Len(a) \in Nat /\ Len(q) \in Nat /\ Len(z) \in Nat
  BY <1>4
<1>10. QED
  BY <1>2, <1>6, <1>8, <1>9

----------------------------------------------------------------------------
(* The inductive invariant, in parts. A part about a call, a view or the    *)
(* kept sessions is of them, so that it can be said of what a step leads to.*)

\* A call and a view, as they are recorded.
CallRecord ==
  [pc : {"idle", "keyed", "filtering", "locking", "expanding"}, offset : Nat, generation : Nat,
   epoch : Nat, session : Nat, restarted : BOOLEAN, additions : AnyAdditions, window : Widths,
   exhausted : BOOLEAN, fallback : BOOLEAN, began : Nat]

ViewRecord == [entries : Seq(Item), page : SUBSET Item, sessions : SUBSET Nat, began : Nat]

\* The epoch counts the changes of the vectors that returned.
Typed ==
  /\ epoch \in Nat /\ change \in {"none", "changed", "counted"} /\ settled = epoch + 1
  /\ vectors = (IF change = "changed" THEN epoch + 2 ELSE epoch + 1)
  /\ vectors <= MaxChanges + 1 /\ generation \in 1 .. vectors
  /\ kept \in SUBSET ((Nat \X Nat) \X Nat) /\ sessions \in Seq(SessionRecord)
  /\ calls \in [Clients -> CallRecord] /\ views \in [Clients -> ViewRecord]

\* A call that expands a session holds its mutex, and what it adds is of its epoch.
Expands(c, call, ss) ==
  /\ call.session # NoSession /\ ss[call.session].lock = c
  /\ AdditionsOK(ss[call.session], call.additions)
  /\ \A e \in Range(call.additions.entries) : e.version > call.epoch

\* A call asks for a page of what its client shows, and read the epoch after it began.
CallOK(c, call, ss, v, ep) ==
  /\ call.offset <= Len(v.entries) /\ call.began <= ep + 1
  /\ call.session # NoSession => call.session \in DOMAIN ss
  /\ call.pc \in {"idle", "keyed"} => call.session = NoSession
  /\ call.pc = "filtering" => call.session # NoSession
  /\ call.pc \notin {"idle", "keyed"} => call.epoch <= ep /\ call.began <= call.epoch + 1
  /\ call.pc = "expanding" => Expands(c, call, ss)

\* Sessions are kept once, by one key.
KeptOK(ks, ss) ==
  \A k, l \in ks : k[2] \in DOMAIN ss /\ (k[1] = l[1] => k = l)

\* A session is of one epoch: every call of it has it, it is kept by it, and
\* its results are newer.
AgeOK(i, e, ss, cs, ks) ==
  /\ \A x \in Range(ss[i].entries) : x.version > e
  /\ \A c \in Clients : cs[c].session = i => cs[c].epoch = e
  /\ \A k \in ks : k[2] = i => k[1][2] = e

\* What a client shows of one session, that session has shown, in its order.
ViewOK(v, ss) ==
  /\ v.sessions \subseteq DOMAIN ss /\ (v.sessions = {} => v.entries = <<>>)
  /\ \A i \in v.sessions : v.sessions = {i} =>
       /\ Len(v.entries) <= ss[i].shown
       /\ \A k \in 1 .. Len(v.entries) : v.entries[k] = ss[i].entries[k]
  /\ \A e \in v.page : e.version >= v.began

\* The parts, of every session, call and view.
SessionsOK == \A i \in DOMAIN sessions : SessionOK(sessions[i])
CallsOK == \A c \in Clients : CallOK(c, calls[c], sessions, views[c], epoch)
AgesOK == \A i \in DOMAIN sessions : \E e \in Nat : AgeOK(i, e, sessions, calls, kept)
ViewsOK == \A c \in Clients : ViewOK(views[c], sessions)

\* What holds after any steps, and is kept by each.
IInv == Typed /\ SessionsOK /\ CallsOK /\ KeptOK(kept, sessions) /\ AgesOK /\ ViewsOK

----------------------------------------------------------------------------
(* Steps of one client leave what the others have.                          *)

\* A call of another client goes on as it was.
LEMMA OtherCall ==
  ASSUME NEW c, NEW d \in Clients, d # c, NEW ss \in Seq(SessionRecord),
         NEW tt \in Seq(SessionRecord), Len(ss) <= Len(tt), NEW call, NEW v, NEW ep,
         CallOK(d, call, ss, v, ep),
         \A i \in 1 .. Len(ss) : tt[i] = ss[i] \/ ss[i].lock \in {c, Free}
  PROVE  CallOK(d, call, tt, v, ep)
<1>1. DOMAIN ss = 1 .. Len(ss) /\ DOMAIN tt = 1 .. Len(tt) /\ Len(ss) \in Nat /\ Len(tt) \in Nat
  OBVIOUS
<1>2. DOMAIN ss \subseteq DOMAIN tt
  BY <1>1
<1>3. ASSUME call.pc = "expanding"
      PROVE  Expands(d, call, tt)
  <2>1. call.session \in 1 .. Len(ss) /\ Expands(d, call, ss)
    BY <1>1, <1>3 DEF CallOK, Expands
  <2>2. tt[call.session] = ss[call.session]
    BY <2>1, SessionAssumption DEF Expands
  <2>3. QED
    BY <2>1, <2>2 DEF Expands
<1>4. QED
  BY <1>2, <1>3 DEF CallOK

\* What a client shows stays what its session shows.
LEMMA OtherView ==
  ASSUME NEW v \in ViewRecord, NEW ss \in Seq(SessionRecord), NEW tt \in Seq(SessionRecord),
         Len(ss) <= Len(tt), ViewOK(v, ss), \A i \in 1 .. Len(ss) : Extends(ss[i], tt[i])
  PROVE  ViewOK(v, tt)
<1>1. /\ DOMAIN ss = 1 .. Len(ss) /\ DOMAIN tt = 1 .. Len(tt) /\ Len(ss) \in Nat /\ Len(tt) \in Nat
      /\ v.entries \in Seq(Item)
  BY DEF ViewRecord
<1>2. DOMAIN ss \subseteq DOMAIN tt
  BY <1>1
<1>3. ASSUME NEW i \in v.sessions, v.sessions = {i}
      PROVE  /\ Len(v.entries) <= tt[i].shown
             /\ \A k \in 1 .. Len(v.entries) : v.entries[k] = tt[i].entries[k]
  <2>1. /\ Len(v.entries) <= ss[i].shown /\ i \in 1 .. Len(ss)
        /\ \A k \in 1 .. Len(v.entries) : v.entries[k] = ss[i].entries[k]
    BY <1>1, <1>3 DEF ViewOK
  <2>2. PICK s \in SessionRecord, t \in SessionRecord : s = ss[i] /\ t = tt[i]
    BY <1>1, <1>2, <2>1
  <2>3. Extends(s, t) /\ s.shown \in Nat /\ t.shown \in Nat
    BY <2>1, <2>2 DEF SessionRecord
  <2>4. \A k \in 1 .. Len(v.entries) : k \in 1 .. s.shown
    BY <1>1, <2>1, <2>2, <2>3
  <2>5. QED
    BY <1>1, <2>1, <2>2, <2>3, <2>4 DEF Extends
<1>4. QED
  BY <1>2, <1>3 DEF ViewOK

\* A session that only changes hands stays as it was.
LEMMA LockOnly ==
  ASSUME NEW s \in SessionRecord, SessionOK(s), NEW l \in Clients \cup {Free},
         NEW t, t = [s EXCEPT !.lock = l]
  PROVE  /\ t \in SessionRecord /\ SessionOK(t) /\ t.lock = l /\ t.entries = s.entries
         /\ Extends(s, t) /\ GaveWay(s, t)
         /\ \A a : AdditionsOK(s, a) => AdditionsOK(t, a)
<1>1. t \in SessionRecord
  BY Zenon DEF SessionRecord
<1>2. /\ t.lock = l /\ t.entries = s.entries /\ t.shown = s.shown /\ t.seen = s.seen
      /\ t.seen_groups = s.seen_groups /\ s.shown \in Nat
  BY DEF SessionRecord
<1>3. SessionOK(t)
  BY <1>2 DEF SessionOK
<1>4. Extends(s, t)
  BY <1>2 DEF Extends
<1>5. GaveWay(s, t)
  BY <1>2 DEF GaveWay, Held, Holds
<1>6. \A a : Stays(t, a) = Stays(s, a)
  BY <1>2 DEF Stays
<1>7. \A a : AdditionsOK(s, a) => AdditionsOK(t, a)
  BY <1>6 DEF AdditionsOK
<1>8. QED
  BY <1>1, <1>2, <1>3, <1>4, <1>5, <1>7

\* A call that goes on without a change to sessions or views.
LEMMA MoveOK ==
  ASSUME IInv, NEW c \in Clients, NEW call \in CallRecord, Move(c, call),
         UNCHANGED <<environment, kept, sessions, views>>,
         CallOK(c, call, sessions, views[c], epoch),
         \/ call.session = NoSession
         \/ call.session = calls[c].session /\ call.epoch = calls[c].epoch
         \/ \E k \in kept : k[2] = call.session /\ k[1][2] = call.epoch
  PROVE  IInv'
<1>1. /\ Typed /\ SessionsOK /\ CallsOK /\ KeptOK(kept, sessions) /\ AgesOK /\ ViewsOK
  BY DEF IInv
<1>2. /\ vectors' = vectors /\ generation' = generation /\ epoch' = epoch /\ change' = change
      /\ settled' = settled /\ kept' = kept /\ sessions' = sessions /\ views' = views
  BY DEF environment
<1>3. calls' \in [Clients -> CallRecord] /\ calls'[c] = call
      /\ \A d \in Clients : d # c => calls'[d] = calls[d]
  BY <1>1 DEF Move, Typed
<1>4. Typed'
  BY <1>1, <1>2, <1>3 DEF Typed
<1>5. SessionsOK' /\ ViewsOK' /\ KeptOK(kept, sessions)'
  BY <1>1, <1>2 DEF SessionsOK, ViewsOK, KeptOK
<1>6. CallsOK'
  BY <1>1, <1>2, <1>3 DEF CallsOK
<1>7. AgesOK'
  <2>1. SUFFICES ASSUME NEW i \in DOMAIN sessions
                 PROVE  \E e \in Nat : AgeOK(i, e, sessions, calls', kept)
    BY <1>2 DEF AgesOK
  <2>2. PICK e \in Nat : AgeOK(i, e, sessions, calls, kept)
    BY <1>1 DEF AgesOK
  <2>3. i # NoSession
    BY <1>1 DEF Typed, NoSession
  <2>4. ASSUME NEW d \in Clients, calls'[d].session = i
        PROVE  calls'[d].epoch = e
    BY <1>3, <2>2, <2>3, <2>4 DEF AgeOK
  <2>5. AgeOK(i, e, sessions, calls', kept)
    BY <2>2, <2>4 DEF AgeOK
  <2>6. QED
    BY <2>5
<1>8. QED
  BY <1>4, <1>5, <1>6, <1>7 DEF IInv

\* A step of a client that makes a session, or changes one nobody else holds.
LEMMA SessionStep ==
  ASSUME IInv, NEW c \in Clients, NEW call \in CallRecord, Move(c, call),
         UNCHANGED environment,
         NEW tt \in Seq(SessionRecord), sessions' = tt, Len(sessions) <= Len(tt),
         NEW i \in 1 .. Len(tt), SessionOK(tt[i]),
         \A j \in 1 .. Len(tt) : j # i => j \in 1 .. Len(sessions) /\ tt[j] = sessions[j],
         i <= Len(sessions) => sessions[i].lock \in {c, Free} /\ Extends(sessions[i], tt[i]),
         NEW v \in ViewRecord, views' = [views EXCEPT ![c] = v], ViewOK(v, tt),
         CallOK(c, call, tt, v, epoch), call.session \in {NoSession, i},
         kept' \in SUBSET ((Nat \X Nat) \X Nat), KeptOK(kept', tt),
         \A k \in kept' : k[2] # i => k \in kept,
         \E e \in Nat : AgeOK(i, e, tt, calls', kept')
  PROVE  IInv'
<1>1. /\ Typed /\ SessionsOK /\ CallsOK /\ KeptOK(kept, sessions) /\ AgesOK /\ ViewsOK
  BY DEF IInv
<1>2. /\ vectors' = vectors /\ generation' = generation /\ epoch' = epoch /\ change' = change
      /\ settled' = settled
  BY DEF environment
<1>3. /\ calls' \in [Clients -> CallRecord] /\ calls'[c] = call
      /\ \A d \in Clients : d # c => calls'[d] = calls[d]
      /\ views' \in [Clients -> ViewRecord] /\ views'[c] = v
      /\ \A d \in Clients : d # c => views'[d] = views[d]
  BY <1>1 DEF Move, Typed
<1>4. PICK ss \in Seq(SessionRecord) : ss = sessions
  BY <1>1 DEF Typed
<1>5. Typed'
  BY <1>1, <1>2, <1>3 DEF Typed
<1>6. SessionsOK'
  <2>1. SUFFICES ASSUME NEW j \in 1 .. Len(tt)
                 PROVE  SessionOK(tt[j])
    BY DEF SessionsOK
  <2>2. CASE j = i
    BY <2>2
  <2>3. CASE j # i
    BY <1>1, <1>4, <2>3 DEF SessionsOK
  <2>4. QED
    BY <2>2, <2>3
<1>7. \A j \in 1 .. Len(ss) : tt[j] = ss[j] \/ ss[j].lock \in {c, Free}
  <2>1. SUFFICES ASSUME NEW j \in 1 .. Len(ss), j # i
                 PROVE  tt[j] = ss[j]
    BY <1>4
  <2>2. j \in 1 .. Len(tt)
    BY <1>4
  <2>3. QED
    BY <1>4, <2>1, <2>2
<1>8. \A j \in 1 .. Len(ss) : Extends(ss[j], tt[j])
  <2>1. SUFFICES ASSUME NEW j \in 1 .. Len(ss)
                 PROVE  Extends(ss[j], tt[j])
    OBVIOUS
  <2>2. CASE j = i
    BY <1>4, <2>2
  <2>3. CASE j # i
    <3>1. j \in 1 .. Len(tt)
      BY <1>4
    <3>2. tt[j] = ss[j] /\ ss[j] \in SessionRecord
      BY <1>4, <2>3, <3>1
    <3>3. ss[j].shown \in Nat
      BY <3>2 DEF SessionRecord
    <3>4. QED
      BY <3>2, <3>3 DEF Extends
  <2>4. QED
    BY <2>2, <2>3
<1>9. CallsOK'
  <2>1. SUFFICES ASSUME NEW d \in Clients
                 PROVE  CallOK(d, calls'[d], tt, views'[d], epoch)
    BY <1>2 DEF CallsOK
  <2>2. CASE d = c
    BY <1>3, <2>2
  <2>3. CASE d # c
    <3>1. CallOK(d, calls[d], ss, views[d], epoch)
      BY <1>1, <1>4 DEF CallsOK
    <3>2. CallOK(d, calls[d], tt, views[d], epoch)
      BY <1>4, <1>7, <2>3, <3>1, OtherCall
    <3>3. QED
      BY <1>3, <2>3, <3>2
  <2>4. QED
    BY <2>2, <2>3
<1>10. ViewsOK'
  <2>1. SUFFICES ASSUME NEW d \in Clients, d # c
                 PROVE  ViewOK(views[d], tt)
    BY <1>3 DEF ViewsOK
  <2>2. views[d] \in ViewRecord /\ ViewOK(views[d], ss)
    BY <1>1, <1>4 DEF Typed, ViewsOK
  <2>3. QED
    BY <1>4, <1>8, <2>2, OtherView
<1>11. AgesOK'
  <2>1. DOMAIN sessions' = 1 .. Len(tt)
    OBVIOUS
  <2>2. SUFFICES ASSUME NEW j \in 1 .. Len(tt)
                 PROVE  \E e \in Nat : AgeOK(j, e, tt, calls', kept')
    BY <2>1, Zenon DEF AgesOK
  <2>3. SUFFICES ASSUME j # i
                 PROVE  \E e \in Nat : AgeOK(j, e, tt, calls', kept')
    OBVIOUS
  <2>4. j \in DOMAIN sessions /\ tt[j] = sessions[j] /\ j # NoSession
    BY <1>4, <2>3 DEF NoSession
  <2>5. PICK e \in Nat : AgeOK(j, e, sessions, calls, kept)
    BY <1>1, <2>4 DEF AgesOK
  <2>6. ASSUME NEW d \in Clients, calls'[d].session = j
        PROVE  calls'[d].epoch = e
    BY <1>3, <2>3, <2>4, <2>5, <2>6 DEF AgeOK
  <2>7. AgeOK(j, e, tt, calls', kept')
    BY <2>3, <2>4, <2>5, <2>6 DEF AgeOK
  <2>8. QED
    BY <2>7
<1>12. QED
  BY <1>5, <1>6, <1>9, <1>10, <1>11 DEF IInv

\* What a call and its session are in a state of the invariant.
LEMMA CallIs ==
  ASSUME IInv, NEW c \in Clients
  PROVE  /\ calls \in [Clients -> CallRecord] /\ calls[c] \in CallRecord
         /\ views \in [Clients -> ViewRecord] /\ views[c] \in ViewRecord
         /\ CallOK(c, calls[c], sessions, views[c], epoch)
         /\ sessions \in Seq(SessionRecord) /\ DOMAIN sessions = 1 .. Len(sessions)
         /\ \A i \in 1 .. Len(sessions) : sessions[i] \in SessionRecord /\ SessionOK(sessions[i])
BY DEF IInv, Typed, CallsOK, SessionsOK

----------------------------------------------------------------------------
(* The steps of a search.                                                   *)

\* A call that has not begun.
LEMMA IdleIs ==
  /\ IdleCall \in CallRecord /\ IdleCall.pc = "idle" /\ IdleCall.offset = 0
  /\ IdleCall.session = NoSession /\ IdleCall.began = 0 /\ IdleCall.epoch = 0
<1>1. Additions \in AnyAdditions /\ 0 \in Widths
  BY NoneTyped, SessionAssumption DEF Widths
<1>2. QED
  BY <1>1 DEF IdleCall, CallRecord, NoSession

\* A search begins with a page of what its client shows.
LEMMA BeginOK ==
  ASSUME IInv, NEW c \in Clients, NEW offset \in 0 .. Len(views[c].entries),
         search_semantic(c, offset)
  PROVE  IInv'
<1>1. PICK call : call = [IdleCall EXCEPT !.pc = "keyed", !.offset = offset,
                                          !.generation = generation, !.began = settled]
  OBVIOUS
<1>2. offset \in Nat /\ generation \in Nat /\ settled \in Nat /\ settled = epoch + 1
      /\ views[c].entries \in Seq(Item)
  BY DEF IInv, Typed, ViewRecord
<1>3. call \in CallRecord
  BY <1>1, <1>2, IdleIs, Zenon DEF CallRecord
<1>4. /\ call.pc = "keyed" /\ call.offset = offset /\ call.began = settled
      /\ call.session = NoSession
  BY <1>1, IdleIs DEF CallRecord
<1>5. CallOK(c, call, sessions, views[c], epoch)
  BY <1>2, <1>4 DEF CallOK
<1>6. Move(c, call) /\ UNCHANGED <<environment, kept, sessions, views>>
  BY <1>1 DEF search_semantic
<1>7. QED
  BY <1>3, <1>4, <1>5, <1>6, MoveOK

\* A search finds the kept session of its key, or begins one (SemanticSessions::get).
LEMMA GetOK ==
  ASSUME IInv, NEW c \in Clients, get(c)
  PROVE  IInv'
<1>1. PICK old : old = calls[c]
  OBVIOUS
<1>2. PICK found : found = {k[2] : k \in {k \in kept : k[1] = <<old.generation, epoch>>}}
  OBVIOUS
<1>3. PICK session : session = IF found = {} THEN NoSession ELSE CHOOSE i \in found : TRUE
  OBVIOUS
<1>4. PICK pc : pc = IF ~(found = {}) /\ old.offset = 0 THEN "filtering" ELSE "locking"
  OBVIOUS
<1>5. PICK restarted : restarted = (found = {} /\ old.offset > 0)
  OBVIOUS
<1>6. PICK offset : offset = IF found = {} THEN 0 ELSE old.offset
  OBVIOUS
<1>7. PICK call : call = [old EXCEPT !.epoch = epoch, !.session = session, !.pc = pc,
                                     !.restarted = restarted, !.offset = offset]
  OBVIOUS
<1>8. Move(c, call) /\ UNCHANGED <<environment, kept, sessions, views>> /\ old.pc = "keyed"
  BY <1>1, <1>2, <1>3, <1>4, <1>5, <1>6, <1>7 DEF get, At
<1>9. /\ old \in CallRecord /\ CallOK(c, old, sessions, views[c], epoch) /\ epoch \in Nat
      /\ KeptOK(kept, sessions) /\ kept \in SUBSET ((Nat \X Nat) \X Nat)
      /\ sessions \in Seq(SessionRecord) /\ views[c].entries \in Seq(Item)
  BY <1>1, CallIs DEF IInv, Typed, ViewRecord
<1>10. found # {} => \E k \in kept : k[2] = session /\ k[1][2] = epoch
  <2>1. SUFFICES ASSUME found # {}
                 PROVE  \E k \in kept : k[2] = session /\ k[1][2] = epoch
    OBVIOUS
  <2>2. session \in found
    BY <1>3, <2>1
  <2>3. PICK k \in kept : k[1] = <<old.generation, epoch>> /\ k[2] = session
    BY <1>2, <2>2
  <2>4. QED
    BY <2>3
<1>11. session # NoSession <=> found # {}
  BY <1>3, <1>9, <1>10 DEF KeptOK, NoSession
<1>12. session \in Nat /\ (session # NoSession => session \in DOMAIN sessions)
  BY <1>3, <1>9, <1>10, <1>11 DEF KeptOK, NoSession
<1>13. call \in CallRecord
  <2>1. /\ pc \in {"idle", "keyed", "filtering", "locking", "expanding"} /\ offset \in Nat
        /\ restarted \in BOOLEAN
    BY <1>4, <1>5, <1>6, <1>9 DEF CallRecord
  <2>2. QED
    BY <1>7, <1>9, <1>12, <2>1, Zenon DEF CallRecord
<1>14. /\ call.pc = pc /\ call.offset = offset /\ call.session = session /\ call.epoch = epoch
       /\ call.began = old.began /\ offset <= Len(views[c].entries) /\ old.began \in Nat
  BY <1>6, <1>7, <1>9 DEF CallRecord, CallOK
<1>15. CallOK(c, call, sessions, views[c], epoch)
  BY <1>4, <1>9, <1>11, <1>12, <1>14 DEF CallOK
<1>16. QED
  BY <1>8, <1>10, <1>11, <1>13, <1>14, <1>15, MoveOK

\* A session whose semantic half failed is not taken up for a first page.
LEMMA FilterOK ==
  ASSUME IInv, NEW c \in Clients, filter(c)
  PROVE  IInv'
<1>1. PICK old : old = calls[c]
  OBVIOUS
<1>2. PICK session : session = IF sessions[old.session].fallback THEN NoSession ELSE old.session
  OBVIOUS
<1>3. PICK call : call = [old EXCEPT !.pc = "locking", !.session = session]
  OBVIOUS
<1>4. Move(c, call) /\ UNCHANGED <<environment, kept, sessions, views>> /\ old.pc = "filtering"
  BY <1>1, <1>2, <1>3 DEF filter, At, SessionOf
<1>5. old \in CallRecord /\ CallOK(c, old, sessions, views[c], epoch)
  BY <1>1, CallIs
<1>6. session \in Nat /\ session \in {NoSession, old.session}
  BY <1>2, <1>5 DEF CallRecord, NoSession
<1>7. call \in CallRecord
  BY <1>3, <1>5, <1>6, Zenon DEF CallRecord
<1>8. /\ call.pc = "locking" /\ call.offset = old.offset /\ call.session = session
      /\ call.epoch = old.epoch /\ call.began = old.began
  BY <1>3, <1>5 DEF CallRecord
<1>9. CallOK(c, call, sessions, views[c], epoch)
  BY <1>4, <1>5, <1>6, <1>8 DEF CallOK
<1>10. QED
  BY <1>1, <1>4, <1>6, <1>7, <1>8, <1>9, MoveOK

\* A step that makes a session or passes one on, and leaves what is kept and shown.
LEMMA HandStep ==
  ASSUME IInv, NEW c \in Clients, NEW call \in CallRecord, Move(c, call),
         UNCHANGED <<environment, kept, views>>,
         NEW tt \in Seq(SessionRecord), sessions' = tt, Len(sessions) <= Len(tt),
         NEW i \in 1 .. Len(tt), SessionOK(tt[i]),
         \A j \in 1 .. Len(tt) : j # i => j \in 1 .. Len(sessions) /\ tt[j] = sessions[j],
         i <= Len(sessions) => sessions[i].lock \in {c, Free} /\ Extends(sessions[i], tt[i]),
         CallOK(c, call, tt, views[c], epoch), call.session \in {NoSession, i},
         \E e \in Nat : AgeOK(i, e, tt, calls', kept)
  PROVE  IInv'
<1>1. /\ Typed /\ KeptOK(kept, sessions) /\ ViewsOK
      /\ kept' = kept /\ views' = views /\ UNCHANGED environment
  BY DEF IInv
<1>2. PICK ss \in Seq(SessionRecord) : ss = sessions
  BY <1>1 DEF Typed
<1>3. PICK v \in ViewRecord : v = views[c]
  BY <1>1 DEF Typed
<1>4. views' = [views EXCEPT ![c] = v]
  BY <1>1, <1>3 DEF Typed
<1>5. \A j \in 1 .. Len(ss) : Extends(ss[j], tt[j])
  <2>1. SUFFICES ASSUME NEW j \in 1 .. Len(ss)
                 PROVE  Extends(ss[j], tt[j])
    OBVIOUS
  <2>2. CASE j = i
    BY <1>2, <2>2
  <2>3. CASE j # i
    <3>1. j \in 1 .. Len(tt)
      BY <1>2
    <3>2. tt[j] = ss[j] /\ ss[j] \in SessionRecord
      BY <1>2, <2>3, <3>1
    <3>3. ss[j].shown \in Nat
      BY <3>2 DEF SessionRecord
    <3>4. QED
      BY <3>2, <3>3 DEF Extends
  <2>4. QED
    BY <2>2, <2>3
<1>6. ViewOK(v, tt)
  <2>1. ViewOK(v, ss)
    BY <1>1, <1>2, <1>3 DEF ViewsOK
  <2>2. QED
    BY <1>2, <1>5, <2>1, OtherView
<1>7. KeptOK(kept', tt)
  <2>1. DOMAIN ss \subseteq DOMAIN tt
    BY <1>2
  <2>2. QED
    BY <1>1, <1>2, <2>1 DEF KeptOK
<1>8. kept' \in SUBSET ((Nat \X Nat) \X Nat)
  BY <1>1 DEF Typed
<1>9. CallOK(c, call, tt, v, epoch)
  BY <1>3
<1>10. \E e \in Nat : AgeOK(i, e, tt, calls', kept')
  BY <1>1
<1>11. QED
  BY <1>1, <1>4, <1>6, <1>7, <1>8, <1>9, <1>10, SessionStep

\* A session of one epoch stays so when calls let it go or keep their epoch.
LEMMA AgeStays ==
  ASSUME IInv, NEW c \in Clients, NEW call \in CallRecord, Move(c, call),
         NEW i \in DOMAIN sessions, NEW tt, tt[i].entries = sessions[i].entries,
         call.session = i => calls[c].session = i /\ call.epoch = calls[c].epoch
  PROVE  \E e \in Nat : AgeOK(i, e, tt, calls', kept)
<1>1. PICK e \in Nat : AgeOK(i, e, sessions, calls, kept)
  BY DEF IInv, AgesOK
<1>2. calls'[c] = call /\ \A d \in Clients : d # c => calls'[d] = calls[d]
  BY DEF Move, IInv, Typed
<1>3. \A d \in Clients : calls'[d].session = i => calls'[d].epoch = e
  BY <1>1, <1>2 DEF AgeOK
<1>4. AgeOK(i, e, tt, calls', kept)
  BY <1>1, <1>3 DEF AgeOK
<1>5. QED
  BY <1>4

\* The additions an expansion begins with (search_semantic).
LEMMA StartOK ==
  ASSUME NEW s \in SessionRecord, SessionOK(s), NEW more,
         NEW b, b = IF more THEN reopen(s) ELSE Additions
  PROVE  b \in AnyAdditions /\ AdditionsOK(s, b) /\ b.entries = <<>>
<1>1. Additions.entries = <<>>
  BY DEF Additions
<1>2. QED
  BY <1>1, ReopenOK, NothingYet

\* A search locks its session, or a new one.
LEMMA LockOK ==
  ASSUME IInv, NEW c \in Clients, lock(c)
  PROVE  IInv'
<1> USE DEF NoSession
<1>1. PICK old \in CallRecord : old = calls[c]
  BY CallIs
<1>2. PICK s : s = IF old.session = NoSession THEN Session ELSE sessions[old.session]
  OBVIOUS
<1>3. PICK i : i = IF old.session = NoSession THEN Len(sessions) + 1 ELSE old.session
  OBVIOUS
<1>4. PICK more : more = (Len(s.entries) < wanted(c) /\ ~s.exhausted)
  OBVIOUS
<1>5. PICK b : b = IF more THEN reopen(s) ELSE Additions
  OBVIOUS
<1>6. PICK call : call = [old EXCEPT !.pc = "expanding", !.session = i, !.additions = b,
                            !.window = s.window, !.exhausted = s.exhausted,
                            !.fallback = s.fallback]
  OBVIOUS
<1>7. PICK t : t = [s EXCEPT !.lock = c]
  OBVIOUS
<1>8. PICK tt : tt = IF old.session = NoSession THEN Append(sessions, t)
                     ELSE [sessions EXCEPT ![old.session] = t]
  OBVIOUS
<1>9. /\ old.pc = "locking" /\ s.lock = Free /\ sessions' = tt /\ Move(c, call)
      /\ UNCHANGED <<environment, kept, views>>
  <2>1. UNCHANGED <<environment, kept, views>> /\ old.pc = "locking"
    BY <1>1 DEF lock, At
  <2>2. s.lock = Free
    BY <1>1, <1>2 DEF lock, SessionOf
  <2>3. Move(c, call)
    BY <1>1, <1>2, <1>3, <1>4, <1>5, <1>6 DEF lock, SessionOf
  <2>4. sessions' = tt
    BY <1>1, <1>2, <1>7, <1>8 DEF lock, SessionOf
  <2>5. QED
    BY <2>1, <2>2, <2>3, <2>4
<1>10. /\ CallOK(c, old, sessions, views[c], epoch) /\ sessions \in Seq(SessionRecord)
       /\ DOMAIN sessions = 1 .. Len(sessions)
       /\ \A j \in 1 .. Len(sessions) : sessions[j] \in SessionRecord /\ SessionOK(sessions[j])
  BY <1>1, CallIs
<1>11. s \in SessionRecord /\ SessionOK(s)
  <2>1. CASE old.session = NoSession
    <3>1. Session \in SessionRecord /\ Session.entries = <<>> /\ Session.shown = 0
      BY SessionAssumption DEF Session, SessionRecord, Widths, GroupSets, Item
    <3>2. SessionOK(Session)
      BY <3>1, Single DEF SessionOK, NoneStale, SeenIn
    <3>3. QED
      BY <1>2, <2>1, <3>1, <3>2
  <2>2. CASE old.session # NoSession
    BY <1>2, <1>10, <2>2 DEF CallOK
  <2>3. QED
    BY <2>1, <2>2
<1>12. b \in AnyAdditions /\ AdditionsOK(s, b) /\ b.entries = <<>>
  BY <1>5, <1>11, StartOK
<1>13. /\ t \in SessionRecord /\ SessionOK(t) /\ t.lock = c /\ t.entries = s.entries
       /\ Extends(s, t) /\ AdditionsOK(t, b)
  BY <1>7, <1>11, <1>12, LockOnly
<1>14. i \in Nat \ {0}
  <2>1. old.session \in Nat /\ Len(sessions) \in Nat
    BY <1>10 DEF CallRecord
  <2>2. QED
    BY <1>3, <2>1
<1>15. call \in CallRecord
  <2>1. s.window \in Widths /\ s.exhausted \in BOOLEAN /\ s.fallback \in BOOLEAN /\ i \in Nat
    BY <1>11, <1>14 DEF SessionRecord
  <2>2. QED
    BY <1>6, <1>12, <2>1, Zenon DEF CallRecord
<1>16. /\ call.pc = "expanding" /\ call.session = i /\ call.additions = b
       /\ call.offset = old.offset /\ call.epoch = old.epoch /\ call.began = old.began
  BY <1>6 DEF CallRecord
<1>17. /\ tt \in Seq(SessionRecord) /\ Len(sessions) <= Len(tt) /\ i \in 1 .. Len(tt) /\ tt[i] = t
       /\ \A j \in 1 .. Len(tt) : j # i => j \in 1 .. Len(sessions) /\ tt[j] = sessions[j]
  <2>1. CASE old.session = NoSession
    <3>1. tt = Append(sessions, t) /\ i = Len(sessions) + 1
      BY <1>3, <1>8, <2>1
    <3>2. QED
      BY <1>10, <1>13, <3>1
  <2>2. CASE old.session # NoSession
    <3>1. tt = [sessions EXCEPT ![i] = t] /\ i \in 1 .. Len(sessions)
      BY <1>3, <1>8, <1>10, <2>2 DEF CallOK
    <3>2. QED
      BY <1>10, <1>13, <3>1
  <2>3. QED
    BY <2>1, <2>2
<1>18. CallOK(c, call, tt, views[c], epoch)
  <2>1. i \in DOMAIN tt
    BY <1>17
  <2>2. Expands(c, call, tt)
    BY <1>12, <1>13, <1>14, <1>16, <1>17, Single DEF Expands
  <2>3. QED
    BY <1>9, <1>10, <1>16, <2>1, <2>2 DEF CallOK
<1>19. i <= Len(sessions) => sessions[i].lock \in {c, Free} /\ Extends(sessions[i], tt[i])
  BY <1>2, <1>3, <1>9, <1>10, <1>13, <1>17
<1>20. \E e \in Nat : AgeOK(i, e, tt, calls', kept)
  <2>1. CASE old.session = NoSession
    <3>1. t.entries = <<>> /\ i \notin DOMAIN sessions
      BY <1>2, <1>3, <1>10, <1>13, <2>1 DEF Session
    <3>2. \A d \in Clients : d # c => calls'[d] = calls[d] /\ calls[d].session # i
      BY <1>9, <1>14, <3>1 DEF IInv, Typed, CallsOK, CallOK, Move
    <3>3. calls'[c] = call
      BY <1>9 DEF IInv, Typed, Move
    <3>4. \A k \in kept : k[2] # i
      BY <3>1 DEF IInv, KeptOK
    <3>5. old.epoch \in Nat
      BY DEF CallRecord
    <3>6. AgeOK(i, old.epoch, tt, calls', kept)
      BY <1>16, <1>17, <3>1, <3>2, <3>3, <3>4, Single DEF AgeOK
    <3>7. QED
      BY <3>5, <3>6
  <2>2. CASE old.session # NoSession
    <3>1. i \in DOMAIN sessions /\ tt[i].entries = sessions[i].entries /\ i = old.session
      BY <1>2, <1>3, <1>10, <1>13, <1>17, <2>2 DEF CallOK
    <3>2. QED
      BY <1>1, <1>9, <1>15, <1>16, <3>1, AgeStays
  <2>3. QED
    BY <2>1, <2>2
<1>21. QED
  BY <1>9, <1>13, <1>15, <1>16, <1>17, <1>18, <1>19, <1>20, HandStep

\* A search given up leaves its session as it was, to whoever comes next.
LEMMA GiveUpOK ==
  ASSUME IInv, NEW c \in Clients, GiveUp(c)
  PROVE  IInv'
<1> USE DEF NoSession
<1>1. PICK old \in CallRecord : old = calls[c]
  BY CallIs
<1>2. PICK call \in CallRecord : call = IdleCall
  BY IdleIs
<1>3. /\ Move(c, call) /\ UNCHANGED <<environment, kept, views>>
      /\ sessions' = IF old.pc = "expanding" THEN [sessions EXCEPT ![old.session].lock = Free]
                     ELSE sessions
  BY <1>1, <1>2 DEF GiveUp, At
<1>4. /\ CallOK(c, old, sessions, views[c], epoch) /\ sessions \in Seq(SessionRecord)
      /\ DOMAIN sessions = 1 .. Len(sessions) /\ views[c].entries \in Seq(Item) /\ epoch \in Nat
      /\ \A j \in 1 .. Len(sessions) : sessions[j] \in SessionRecord /\ SessionOK(sessions[j])
  BY <1>1, CallIs DEF IInv, Typed, ViewRecord
<1>5. \A ss : CallOK(c, call, ss, views[c], epoch)
  BY <1>2, <1>4, IdleIs DEF CallOK
<1>6. CASE old.pc = "expanding"
  <2>1. PICK i \in 1 .. Len(sessions) : i = old.session /\ sessions[i].lock = c
    BY <1>4, <1>6 DEF CallOK, Expands
  <2>2. PICK s \in SessionRecord : s = sessions[i] /\ SessionOK(s)
    BY <1>4
  <2>3. PICK t : t = [s EXCEPT !.lock = Free]
    OBVIOUS
  <2>4. PICK tt : tt = [sessions EXCEPT ![i] = t]
    OBVIOUS
  <2>5. sessions' = tt
    BY <1>3, <1>6, <2>1, <2>2, <2>3, <2>4
  <2>6. t \in SessionRecord /\ SessionOK(t) /\ t.entries = s.entries /\ Extends(s, t)
    BY <2>2, <2>3, LockOnly
  <2>7. /\ tt \in Seq(SessionRecord) /\ Len(tt) = Len(sessions) /\ i \in 1 .. Len(tt) /\ tt[i] = t
        /\ \A j \in 1 .. Len(tt) : j # i => j \in 1 .. Len(sessions) /\ tt[j] = sessions[j]
    BY <1>4, <2>4, <2>6
  <2>8. \E e \in Nat : AgeOK(i, e, tt, calls', kept)
    <3>1. call.session # i /\ tt[i].entries = sessions[i].entries /\ i \in DOMAIN sessions
      BY <1>2, <1>4, <2>2, <2>6, <2>7, IdleIs
    <3>2. QED
      BY <1>3, <3>1, AgeStays
  <2>9. call.session = NoSession
    BY <1>2, IdleIs
  <2>10. Len(sessions) <= Len(tt)
    BY <1>4, <2>7
  <2>11. QED
    BY <1>3, <1>5, <2>1, <2>2, <2>5, <2>6, <2>7, <2>8, <2>9, <2>10, HandStep
<1>7. CASE old.pc # "expanding"
  <2>1. sessions' = sessions /\ call.session = NoSession
    BY <1>2, <1>3, <1>7, IdleIs
  <2>2. QED
    BY <1>3, <1>5, <2>1, MoveOK
<1>8. QED
  BY <1>6, <1>7
\* A session as a served page leaves it (Serve).
Paged(r, call) ==
  [show(r, call.offset) EXCEPT !.window = call.window, !.lock = Free,
     !.exhausted = call.exhausted, !.fallback = call.fallback]

\* A session served: what a page showed keeps its place from then on (show, page).
LEMMA ServedOK ==
  ASSUME NEW s \in SessionRecord, SessionOK(s), NEW a \in AnyAdditions, AdditionsOK(s, a),
         NEW call \in CallRecord, NEW r, r = commit(s, a),
         NEW t, t = Paged(r, call), NEW q, q = page(r, call.offset)
  PROVE  /\ t \in SessionRecord /\ SessionOK(t) /\ Extends(s, t) /\ GaveWay(s, t)
         /\ Range(t.entries) \subseteq Range(s.entries) \cup Range(a.entries)
         /\ q \in Seq(Item) /\ Range(q) \subseteq Range(t.entries)
         /\ Len(q) = 0 \/ call.offset + Len(q) <= t.shown
         /\ PartOf(q, t.entries, call.offset)
<1>1. PICK offset \in Nat, window \in Widths, exhausted \in BOOLEAN, fallback \in BOOLEAN :
        /\ offset = call.offset /\ window = call.window
        /\ exhausted = call.exhausted /\ fallback = call.fallback
  BY DEF CallRecord
<1>2. /\ r \in SessionRecord /\ SessionOK(r) /\ r.shown = s.shown
      /\ \A k \in 1 .. s.shown : r.entries[k] = s.entries[k]
      /\ Range(r.entries) \subseteq Range(s.entries) \cup Range(a.entries)
      /\ GaveWay(s, r)
  BY CommitOK
<1>3. /\ r.entries \in Seq(Item) /\ Len(r.entries) \in Nat /\ r.shown \in Nat
      /\ r.shown <= Len(r.entries) /\ PageSize \in Nat
  BY <1>2, SessionAssumption DEF SessionRecord, SessionOK
<1>4. PICK n \in Nat : n = IF offset + PageSize <= Len(r.entries) THEN offset + PageSize
                           ELSE Len(r.entries)
  BY <1>3
<1>5. n = Min({offset + PageSize, Len(r.entries)}) /\ n <= Len(r.entries)
  BY <1>3, <1>4, MinMax
<1>6. PICK m \in Nat : m = IF offset < Len(r.entries) /\ r.shown <= n THEN n ELSE r.shown
  BY <1>3
<1>7. show(r, offset) = [r EXCEPT !.shown = m]
  <2>1. CASE offset < Len(r.entries)
    <3>1. m = Max({r.shown, n})
      BY <1>3, <1>6, <2>1, MinMax
    <3>2. QED
      BY <1>5, <2>1, <3>1 DEF show
  <2>2. CASE ~(offset < Len(r.entries))
    <3>1. m = r.shown /\ r = [r EXCEPT !.shown = r.shown]
      BY <1>2, <1>6, <2>2 DEF SessionRecord
    <3>2. QED
      BY <2>2, <3>1 DEF show
  <2>3. QED
    BY <2>1, <2>2
<1>8. PICK x \in SessionRecord : x = [r EXCEPT !.shown = m]
  BY <1>2, Zenon DEF SessionRecord
<1>9. x.entries = r.entries /\ x.shown = m /\ x.seen = r.seen /\ x.seen_groups = r.seen_groups
      /\ x.dropped = r.dropped
  BY <1>2, <1>8 DEF SessionRecord
<1>10. t = [x EXCEPT !.window = window, !.lock = Free, !.exhausted = exhausted,
                     !.fallback = fallback]
  BY <1>1, <1>7, <1>8 DEF Paged
<1>11. t \in SessionRecord
  BY <1>10, Zenon DEF SessionRecord
<1>12. t.entries = r.entries /\ t.shown = m /\ t.seen = r.seen /\ t.seen_groups = r.seen_groups
       /\ t.dropped = r.dropped
  BY <1>9, <1>10 DEF SessionRecord
<1>13. m <= Len(r.entries) /\ r.shown <= m
  BY <1>3, <1>5, <1>6
<1>14. SessionOK(t)
  BY <1>2, <1>12, <1>13 DEF SessionOK
<1>15. Extends(s, t) /\ GaveWay(s, t)
  BY <1>2, <1>12, <1>13 DEF Extends, GaveWay
<1>16. /\ q \in Seq(Item) /\ Len(q) = (IF offset <= n THEN n - offset ELSE 0)
       /\ \A i \in 1 .. Len(q) : q[i] = r.entries[offset + i]
       /\ Range(q) \subseteq Range(r.entries)
  <2>1. PICK es \in Seq(Item) : es = r.entries
    BY <1>3
  <2>2. q = SubSeq(es, offset + 1, n)
    BY <1>1, <1>5, <2>1, Zenon DEF page
  <2>3. n \in 0 .. Len(es)
    BY <1>3, <1>5, <2>1
  <2>4. /\ q \in Seq(Item) /\ Len(q) = (IF offset <= n THEN n - offset ELSE 0)
        /\ \A i \in 1 .. Len(q) : q[i] = es[offset + i]
        /\ Range(q) \subseteq Range(es)
    BY <2>2, <2>3, PartIs
  <2>5. QED
    BY <2>1, <2>4
<1>17. Len(q) = 0 \/ offset + Len(q) <= m
  <2>1. n <= m \/ ~(offset < Len(r.entries))
    BY <1>3, <1>6
  <2>2. CASE offset <= n
    <3>1. Len(q) = n - offset
      BY <1>16, <2>2
    <3>2. offset + (n - offset) = n /\ (~(offset < Len(r.entries)) => n - offset = 0)
      BY <1>3, <1>5, <2>2
    <3>3. QED
      BY <2>1, <3>1, <3>2
  <2>3. CASE ~(offset <= n)
    BY <1>16, <2>3
  <2>4. QED
    BY <2>2, <2>3
<1>18. PartOf(q, t.entries, offset)
  BY <1>1, <1>12, <1>16 DEF PartOf
<1>19. QED
  BY <1>1, <1>2, <1>11, <1>12, <1>14, <1>15, <1>16, <1>17, <1>18

\* A window is one the sidecar is asked for (Wider).
LEMMA WiderIs ==
  ASSUME NEW offset \in Nat, NEW window \in Widths
  PROVE  /\ Wider(offset, window) \in 1 .. MAX_SEMANTIC_CANDIDATE_WINDOW
         /\ Wider(offset, window) \in Widths
<1>1. PICK most \in Nat \ {0} : most = MAX_SEMANTIC_CANDIDATE_WINDOW
  BY SessionAssumption
<1>2. PICK m \in Nat : m = 2 * (offset + PageSize) + 1 /\ m >= 1
  BY SessionAssumption
<1>3. PICK n \in Nat : n = 2 * window
  BY SessionAssumption DEF Widths
<1>4. PICK x \in Nat : x = Max({m, n}) /\ x >= 1
  <2>1. Max({m, n}) \in Nat /\ Max({m, n}) >= 1
    BY <1>2, MinMax
  <2>2. QED
    BY <2>1
<1>5. Wider(offset, window) = Min({x, most})
  BY <1>1, <1>2, <1>3, <1>4 DEF Wider
<1>6. Min({x, most}) \in 1 .. most
  BY <1>4, MinMax
<1>7. QED
  BY <1>1, <1>5, <1>6 DEF Widths

\* An expansion adds results of the vectors as they are (expand_semantic_session).
LEMMA ExpandOK ==
  ASSUME IInv, NEW c \in Clients, NEW failed \in BOOLEAN, expand_semantic_session(c, failed)
  PROVE  IInv'
<1>1. PICK old \in CallRecord : old = calls[c]
  BY CallIs
<1>2. PICK window : window = Wider(old.offset, old.window)
  OBVIOUS
<1>3. PICK exhausted : exhausted = Exhausted(window, failed)
  OBVIOUS
<1>4. PICK items : items = Ranked(vectors, window, failed)
  OBVIOUS
<1>5. PICK s : s = sessions[old.session]
  OBVIOUS
<1>6. PICK b : b = Taken(s, old.additions, items)
  OBVIOUS
<1>7. PICK call : call = [old EXCEPT !.window = window, !.exhausted = exhausted,
                            !.fallback = failed, !.additions = b]
  OBVIOUS
<1>8. /\ Move(c, call) /\ UNCHANGED <<environment, kept, sessions, views>>
      /\ old.pc = "expanding"
  BY <1>1, <1>2, <1>3, <1>4, <1>5, <1>6, <1>7
  DEF expand_semantic_session, At, SessionOf
<1>9. /\ CallOK(c, old, sessions, views[c], epoch) /\ DOMAIN sessions = 1 .. Len(sessions)
      /\ \A j \in 1 .. Len(sessions) : sessions[j] \in SessionRecord /\ SessionOK(sessions[j])
  BY <1>1, CallIs
<1>10. /\ s \in SessionRecord /\ SessionOK(s) /\ old.additions \in AnyAdditions
       /\ AdditionsOK(s, old.additions) /\ old.epoch <= epoch
       /\ old.session # NoSession /\ s.lock = c
       /\ \A e \in Range(old.additions.entries) : e.version > old.epoch
  BY <1>5, <1>8, <1>9 DEF CallOK, Expands, CallRecord
<1>11. window \in 1 .. MAX_SEMANTIC_CANDIDATE_WINDOW /\ window \in Widths
  BY <1>2, WiderIs DEF CallRecord
<1>12. vectors \in 1 .. MaxChanges + 1 /\ vectors > epoch /\ epoch \in Nat /\ old.epoch \in Nat
  <2>1. vectors <= MaxChanges + 1 /\ MaxChanges \in Nat
    BY SessionAssumption DEF IInv, Typed
  <2>2. epoch \in Nat /\ vectors = (IF change = "changed" THEN epoch + 2 ELSE epoch + 1)
    BY DEF IInv, Typed
  <2>3. old.epoch \in Nat
    BY DEF CallRecord
  <2>4. vectors \in Nat /\ vectors > epoch
    BY <2>2
  <2>5. QED
    BY <2>1, <2>2, <2>3, <2>4
<1>13. /\ items \in Seq(Item) /\ \A item \in Range(items) : item.version = vectors
       /\ Complete(vectors, window, failed) \in BOOLEAN
  BY <1>4, <1>11, <1>12, SidecarAssumption
<1>14. exhausted \in BOOLEAN
  BY <1>3, <1>13 DEF Exhausted
<1>15. /\ b \in AnyAdditions /\ AdditionsOK(s, b)
       /\ Range(b.entries) \subseteq Range(old.additions.entries) \cup Range(items)
  BY <1>6, <1>10, <1>13, TakenOK
<1>16. \A e \in Range(b.entries) : e.version > old.epoch
  BY <1>10, <1>12, <1>13, <1>15
<1>17. call \in CallRecord
  BY <1>7, <1>11, <1>14, <1>15, Zenon DEF CallRecord
<1>18. /\ call.pc = "expanding" /\ call.session = old.session /\ call.additions = b
       /\ call.offset = old.offset /\ call.epoch = old.epoch /\ call.began = old.began
  BY <1>7, <1>8 DEF CallRecord
<1>19. CallOK(c, call, sessions, views[c], epoch)
  <2>1. Expands(c, call, sessions)
    BY <1>5, <1>10, <1>15, <1>16, <1>18 DEF Expands
  <2>2. QED
    BY <1>8, <1>9, <1>18, <2>1 DEF CallOK
<1>20. QED
  BY <1>1, <1>8, <1>17, <1>18, <1>19, MoveOK

\* A client shows a page it is served in its place (Shows): what it shows of one
\* session, that session has shown, and no page is older than its search.
LEMMA ShowsOK ==
  ASSUME NEW w \in ViewRecord, NEW call \in CallRecord, NEW q \in Seq(Item),
         NEW ss \in Seq(SessionRecord), NEW tt \in Seq(SessionRecord), Len(ss) <= Len(tt),
         ViewOK(w, ss), NEW i \in 1 .. Len(ss), call.session = i, SessionOK(tt[i]),
         Extends(ss[i], tt[i]), call.offset <= Len(w.entries),
         Range(q) \subseteq Range(tt[i].entries),
         Len(q) = 0 \/ call.offset + Len(q) <= tt[i].shown,
         PartOf(q, tt[i].entries, call.offset),
         \A x \in Range(tt[i].entries) : x.version > call.epoch,
         call.began <= call.epoch + 1, NEW v, v = Shows(w, call, q)
  PROVE  v \in ViewRecord /\ ViewOK(v, tt)
<1>1. PICK s \in SessionRecord, t \in SessionRecord : s = ss[i] /\ t = tt[i]
  OBVIOUS
<1>2. PICK o \in Nat, es \in Seq(Item), m \in Nat :
        o = call.offset /\ es = t.entries /\ m = t.shown
  BY DEF SessionRecord, CallRecord
<1>3. m \in 0 .. Len(es) /\ SessionOK(t) /\ Extends(s, t)
  BY <1>1, <1>2 DEF SessionOK
<1>4. PICK first \in BOOLEAN : first <=> o = 0
  OBVIOUS
<1>5. PICK base \in Seq(Item) : base = IF first THEN <<>> ELSE w.entries
  <2>1. PICK we \in Seq(Item) : we = w.entries
    BY DEF ViewRecord
  <2>2. <<>> \in Seq(Item)
    BY Single
  <2>3. (IF first THEN <<>> ELSE we) \in Seq(Item)
    BY <2>2
  <2>4. QED
    BY <2>1, <2>3
<1>6. PICK met \in SUBSET Nat : met = IF first THEN {} ELSE w.sessions
  BY DEF ViewRecord
<1>7. PICK p : p = Patched(base, q, o)
  OBVIOUS
<1>8. v = [entries |-> p, page |-> Range(q), sessions |-> {i} \cup met, began |-> call.began]
  BY <1>2, <1>4, <1>5, <1>6, <1>7 DEF Shows, Patched
<1>9. w.entries \in Seq(Item) /\ o \in 0 .. Len(base)
  BY <1>2, <1>4, <1>5 DEF ViewRecord
<1>10. p \in Seq(Item)
  BY <1>7, <1>9, PaintedTyped
<1>11. Range(q) \subseteq Item
  BY RangeIs
<1>12. /\ v \in ViewRecord /\ v.entries = p /\ v.page = Range(q) /\ v.sessions = {i} \cup met
       /\ v.began = call.began
  <2>1. v.entries = p /\ v.page = Range(q) /\ v.sessions = {i} \cup met /\ v.began = call.began
    BY <1>8
  <2>2. call.began \in Nat
    BY DEF CallRecord
  <2>3. Range(q) \in SUBSET Item /\ {i} \cup met \in SUBSET Nat
    <3>1. i \in Nat
      OBVIOUS
    <3>2. QED
      BY <1>11, <3>1, Zenon
  <2>4. v \in ViewRecord
    <3>1. PICK results \in SUBSET Item, from \in SUBSET Nat, began \in Nat :
            results = Range(q) /\ from = {i} \cup met /\ began = call.began
      BY <2>2, <2>3
    <3>2. v = [entries |-> p, page |-> results, sessions |-> from, began |-> began]
      BY <1>8, <3>1
    <3>3. QED
      BY <1>10, <3>2 DEF ViewRecord
  <2>5. QED
    BY <2>1, <2>4
<1>13. v.sessions \subseteq DOMAIN tt
  BY <1>6, <1>12 DEF ViewOK
<1>14. ASSUME {i} \cup met = {i}
       PROVE  Len(p) <= m /\ \A k \in 1 .. Len(p) : p[k] = es[k]
  <2>1. Len(base) <= m /\ \A k \in 1 .. Len(base) : base[k] = es[k]
    <3>1. CASE first
      BY <1>5, <3>1
    <3>2. CASE ~first
      <4>1. w.entries # <<>>
        BY <1>4, <1>5, <1>9, <3>2
      <4>2. w.sessions = {i}
        BY <1>6, <1>14, <3>2, <4>1 DEF ViewOK
      <4>3. /\ Len(w.entries) <= s.shown /\ base = w.entries
            /\ \A k \in 1 .. Len(w.entries) : w.entries[k] = s.entries[k]
        BY <1>1, <1>5, <3>2, <4>2 DEF ViewOK
      <4>4. /\ s.shown <= m /\ s.shown \in Nat
            /\ \A k \in 1 .. s.shown : es[k] = s.entries[k]
        BY <1>2, <1>3 DEF Extends, SessionRecord
      <4>5. \A k \in 1 .. Len(base) : k \in 1 .. s.shown
        BY <1>9, <4>3, <4>4
      <4>6. QED
        BY <1>9, <4>3, <4>4, <4>5
    <3>3. QED
      BY <3>1, <3>2
  <2>2. Len(q) = 0 \/ o + Len(q) <= m
    BY <1>1, <1>2
  <2>3. PartOf(q, es, o)
    BY <1>1, <1>2
  <2>4. o \in 0 .. Len(base) /\ m \in 0 .. Len(es) /\ Len(base) <= m
    BY <1>3, <1>9, <2>1
  <2>5. \A k \in 1 .. Len(base) : base[k] = es[k]
    BY <2>1
  <2>6. PartOf(base, es, 0) /\ PartOf(q, es, o)
    BY <2>3, <2>5 DEF PartOf
  <2>7. Len(p) <= m /\ PartOf(p, es, 0)
    BY <1>7, <2>2, <2>4, <2>6, Painted
  <2>8. QED
    BY <1>10, <2>7 DEF PartOf
<1>15. \A e \in Range(q) : e.version >= call.began
  <2>1. SUFFICES ASSUME NEW e \in Range(q)
                 PROVE  e.version >= call.began
    OBVIOUS
  <2>2. e.version > call.epoch /\ e.version \in Nat
    BY <1>11, SessionAssumption DEF Item
  <2>3. call.began \in Nat /\ call.epoch \in Nat
    BY DEF CallRecord
  <2>4. QED
    BY <2>2, <2>3
<1>16. \A j \in v.sessions : v.sessions = {j} =>
         /\ Len(v.entries) <= tt[j].shown
         /\ \A k \in 1 .. Len(v.entries) : v.entries[k] = tt[j].entries[k]
  <2>1. SUFFICES ASSUME NEW j \in v.sessions, v.sessions = {j}
                 PROVE  /\ Len(v.entries) <= tt[j].shown
                        /\ \A k \in 1 .. Len(v.entries) : v.entries[k] = tt[j].entries[k]
    OBVIOUS
  <2>2. j = i /\ {i} \cup met = {i}
    BY <1>12, <2>1
  <2>3. Len(p) <= m /\ \A k \in 1 .. Len(p) : p[k] = es[k]
    BY <1>14, <2>2
  <2>4. tt[j].shown = m /\ tt[j].entries = es /\ v.entries = p
    BY <1>1, <1>2, <1>12, <2>2
  <2>5. QED
    BY <2>3, <2>4
<1>17. v.sessions # {}
  BY <1>12
<1>18. QED
  BY <1>12, <1>13, <1>15, <1>16, <1>17 DEF ViewOK

\* A page is served of a session nobody else changes, and it stays that
\* session's (Serve).
LEMMA ServeKeeps ==
  ASSUME IInv, NEW c \in Clients, Serve(c)
  PROVE  IInv'
<1> USE DEF NoSession
<1>1. PICK old \in CallRecord : old = calls[c]
  BY CallIs
<1>2. PICK i : i = old.session
  OBVIOUS
<1>3. PICK s : s = sessions[i]
  OBVIOUS
<1>4. PICK r : r = commit(s, old.additions)
  OBVIOUS
<1>5. PICK t : t = Paged(r, old)
  OBVIOUS
<1>6. PICK q : q = page(r, old.offset)
  OBVIOUS
<1>7. PICK tt : tt = [sessions EXCEPT ![i] = t]
  OBVIOUS
<1>8. PICK w \in ViewRecord : w = views[c]
  BY CallIs
<1>9. PICK call \in CallRecord : call = IdleCall
  BY IdleIs
<1>10. /\ old.pc = "expanding" /\ sessions' = tt /\ Move(c, call) /\ UNCHANGED environment
       /\ \/ views' = [views EXCEPT ![c] = Shows(w, old, q)]
          \/ UNCHANGED views
       /\ kept' = {k \in kept : k[1] # <<old.generation, old.epoch>>}
                    \cup {<<<<old.generation, old.epoch>>, i>>}
  <2>1. old.pc = "expanding" /\ Move(c, call) /\ UNCHANGED environment
    BY <1>1, <1>9 DEF Serve, At
  <2>2. sessions' = tt
    BY <1>1, <1>2, <1>3, <1>4, <1>5, <1>7 DEF Serve, SessionOf, Paged
  <2>3. \/ views' = [views EXCEPT ![c] = Shows(w, old, q)]
        \/ UNCHANGED views
    <3>1. \/ views' = [views EXCEPT ![c] = Shows(views[c], old, q)]
          \/ UNCHANGED views
      BY <1>1, <1>2, <1>3, <1>4, <1>6 DEF Serve, SessionOf
    <3>2. QED
      BY <1>8, <3>1
  <2>4. kept' = {k \in kept : k[1] # <<old.generation, old.epoch>>}
                  \cup {<<<<old.generation, old.epoch>>, i>>}
    BY <1>1, <1>2 DEF Serve, put, Key
  <2>5. QED
    BY <2>1, <2>2, <2>3, <2>4
<1>11. /\ CallOK(c, old, sessions, w, epoch) /\ sessions \in Seq(SessionRecord)
       /\ DOMAIN sessions = 1 .. Len(sessions)
       /\ \A j \in 1 .. Len(sessions) : sessions[j] \in SessionRecord /\ SessionOK(sessions[j])
       /\ ViewOK(w, sessions) /\ views \in [Clients -> ViewRecord] /\ epoch \in Nat
       /\ KeptOK(kept, sessions) /\ kept \in SUBSET ((Nat \X Nat) \X Nat)
  BY <1>1, <1>8, CallIs DEF IInv, Typed, ViewsOK
<1>12. /\ i \in 1 .. Len(sessions) /\ s \in SessionRecord /\ SessionOK(s)
       /\ old.additions \in AnyAdditions /\ AdditionsOK(s, old.additions) /\ s.lock = c
       /\ old.epoch \in Nat /\ old.generation \in Nat /\ old.offset \in Nat /\ i \in Nat
       /\ old.began \in Nat /\ old.began <= old.epoch + 1 /\ old.offset <= Len(w.entries)
       /\ \A e \in Range(old.additions.entries) : e.version > old.epoch
  BY <1>2, <1>3, <1>10, <1>11 DEF CallOK, Expands, CallRecord
<1>13. /\ old.window \in Widths /\ old.exhausted \in BOOLEAN /\ old.fallback \in BOOLEAN
  BY DEF CallRecord
<1>14. /\ t \in SessionRecord /\ SessionOK(t) /\ Extends(s, t)
       /\ Range(t.entries) \subseteq Range(s.entries) \cup Range(old.additions.entries)
       /\ q \in Seq(Item) /\ Range(q) \subseteq Range(t.entries)
       /\ Len(q) = 0 \/ old.offset + Len(q) <= t.shown
       /\ PartOf(q, t.entries, old.offset)
  <2>1. PICK a \in AnyAdditions : a = old.additions
    BY <1>12
  <2>2. r = commit(s, a) /\ AdditionsOK(s, a)
    BY <1>4, <1>12, <2>1
  <2>3. s \in SessionRecord /\ SessionOK(s)
    BY <1>12
  <2>4. t \in SessionRecord /\ SessionOK(t) /\ Extends(s, t)
    BY <1>5, <1>6, <2>2, <2>3, ServedOK
  <2>5. Range(t.entries) \subseteq Range(s.entries) \cup Range(a.entries)
    BY <1>5, <1>6, <2>2, <2>3, ServedOK
  <2>6. q \in Seq(Item) /\ Range(q) \subseteq Range(t.entries)
    BY <1>5, <1>6, <2>2, <2>3, ServedOK
  <2>7. Len(q) = 0 \/ old.offset + Len(q) <= t.shown
    BY <1>5, <1>6, <2>2, <2>3, ServedOK
  <2>8. PartOf(q, t.entries, old.offset)
    BY <1>5, <1>6, <2>2, <2>3, ServedOK
  <2>9. QED
    BY <2>1, <2>4, <2>5, <2>6, <2>7, <2>8
<1>15. /\ tt \in Seq(SessionRecord) /\ Len(tt) = Len(sessions) /\ i \in 1 .. Len(tt) /\ tt[i] = t
       /\ Len(sessions) <= Len(tt)
       /\ \A j \in 1 .. Len(tt) : j # i => j \in 1 .. Len(sessions) /\ tt[j] = sessions[j]
  BY <1>7, <1>11, <1>12, <1>14
<1>16. PICK e \in Nat : AgeOK(i, e, sessions, calls, kept)
  BY <1>11, <1>12 DEF IInv, AgesOK
<1>17. e = old.epoch
  BY <1>1, <1>2, <1>16 DEF AgeOK
<1>18. \A x \in Range(t.entries) : x.version > old.epoch
  BY <1>3, <1>12, <1>14, <1>16, <1>17 DEF AgeOK
<1>19. AgeOK(i, old.epoch, tt, calls', kept')
  <2>1. calls'[c] = call /\ \A d \in Clients : d # c => calls'[d] = calls[d]
    BY <1>10 DEF Move, IInv, Typed
  <2>2. call.session # i
    BY <1>9, <1>12, IdleIs
  <2>3. \A d \in Clients : calls'[d].session = i => calls'[d].epoch = old.epoch
    BY <1>16, <1>17, <2>1, <2>2 DEF AgeOK
  <2>4. \A k \in kept' : k[2] = i => k[1][2] = old.epoch
    BY <1>10, <1>16, <1>17 DEF AgeOK
  <2>5. QED
    BY <1>15, <1>18, <2>3, <2>4 DEF AgeOK
<1>20. /\ kept' \in SUBSET ((Nat \X Nat) \X Nat) /\ KeptOK(kept', tt)
       /\ \A k \in kept' : k[2] # i => k \in kept
  <2>1. DOMAIN tt = DOMAIN sessions /\ i \in DOMAIN tt
    BY <1>11, <1>15
  <2>2. kept' \in SUBSET ((Nat \X Nat) \X Nat)
    BY <1>10, <1>11, <1>12
  <2>3. KeptOK(kept', tt)
    BY <1>10, <1>11, <2>1 DEF KeptOK
  <2>4. \A k \in kept' : k[2] # i => k \in kept
    BY <1>10
  <2>5. QED
    BY <2>2, <2>3, <2>4
<1>21. PICK v \in ViewRecord : views' = [views EXCEPT ![c] = v] /\ ViewOK(v, tt)
  <2>1. CASE views' = [views EXCEPT ![c] = Shows(w, old, q)]
    <3>1. PICK v : v = Shows(w, old, q)
      OBVIOUS
    <3>2. v \in ViewRecord /\ ViewOK(v, tt)
      BY <1>2, <1>3, <1>11, <1>12, <1>14, <1>15, <1>18, <3>1, ShowsOK
    <3>3. QED
      BY <2>1, <3>1, <3>2
  <2>2. CASE UNCHANGED views
    <3>1. \A j \in 1 .. Len(sessions) : Extends(sessions[j], tt[j])
      <4>1. SUFFICES ASSUME NEW j \in 1 .. Len(sessions), j # i
                     PROVE  Extends(sessions[j], tt[j])
        BY <1>3, <1>14, <1>15
      <4>2. tt[j] = sessions[j] /\ sessions[j] \in SessionRecord
        BY <1>11, <1>15, <4>1
      <4>3. sessions[j].shown \in Nat
        BY <4>2 DEF SessionRecord
      <4>4. QED
        BY <4>2, <4>3 DEF Extends
    <3>2. ViewOK(w, tt)
      BY <1>11, <1>15, <3>1, OtherView
    <3>3. views' = [views EXCEPT ![c] = w]
      BY <1>8, <1>11, <2>2
    <3>4. QED
      BY <3>2, <3>3
  <2>3. QED
    BY <1>10, <2>1, <2>2
<1>22. CallOK(c, call, tt, v, epoch)
  <2>1. Len(v.entries) \in Nat
    BY DEF ViewRecord
  <2>2. QED
    BY <1>9, <1>11, <2>1, IdleIs DEF CallOK
<1>23. call.session = NoSession
  BY <1>9, IdleIs
<1>24. i <= Len(sessions) => sessions[i].lock \in {c, Free} /\ Extends(sessions[i], tt[i])
  BY <1>3, <1>12, <1>14, <1>15
<1>25. \E n \in Nat : AgeOK(i, n, tt, calls', kept')
  BY <1>12, <1>19
<1>26. SessionOK(tt[i])
  BY <1>14, <1>15
<1>27. QED
  BY <1>10, <1>15, <1>20, <1>21, <1>22, <1>23, <1>24, <1>25, <1>26, SessionStep

----------------------------------------------------------------------------
(* Calls that change the vectors, and sessions forgotten.                   *)

\* The vectors change, their epoch counts on and kept sessions are forgotten:
\* no session, call or view is touched, and none has to be younger for it.
LEMMA ForgetOK ==
  ASSUME IInv, UNCHANGED <<sessions, calls, views>>, kept' \subseteq kept, Typed',
         epoch <= epoch'
  PROVE  IInv'
<1>1. /\ Typed /\ SessionsOK /\ CallsOK /\ KeptOK(kept, sessions) /\ AgesOK /\ ViewsOK
      /\ epoch \in Nat /\ epoch' \in Nat /\ calls \in [Clients -> CallRecord]
  BY DEF IInv, Typed
<1>2. SessionsOK' /\ ViewsOK'
  BY <1>1 DEF SessionsOK, ViewsOK
<1>3. CallsOK'
  <2>1. SUFFICES ASSUME NEW c \in Clients
                 PROVE  CallOK(c, calls[c], sessions, views[c], epoch')
    BY DEF CallsOK
  <2>2. PICK call \in CallRecord : call = calls[c]
    BY <1>1
  <2>3. CallOK(c, call, sessions, views[c], epoch)
    BY <1>1, <2>2 DEF CallsOK
  <2>4. call.began \in Nat /\ call.epoch \in Nat
    BY DEF CallRecord
  <2>5. CallOK(c, call, sessions, views[c], epoch')
    BY <1>1, <2>3, <2>4 DEF CallOK
  <2>6. QED
    BY <2>2, <2>5
<1>4. KeptOK(kept', sessions)
  BY <1>1 DEF KeptOK
<1>5. AgesOK'
  <2>1. SUFFICES ASSUME NEW i \in DOMAIN sessions
                 PROVE  \E e \in Nat : AgeOK(i, e, sessions, calls, kept')
    BY DEF AgesOK
  <2>2. PICK e \in Nat : AgeOK(i, e, sessions, calls, kept)
    BY <1>1 DEF AgesOK
  <2>3. AgeOK(i, e, sessions, calls, kept')
    BY <2>2 DEF AgeOK
  <2>4. QED
    BY <2>3
<1>6. QED
  BY <1>2, <1>3, <1>4, <1>5 DEF IInv

\* A set is installed, or books are embedded.
LEMMA ChangeOK ==
  ASSUME IInv, NEW installed \in BOOLEAN, ChangeVectors(installed)
  PROVE  IInv'
<1>1. /\ UNCHANGED <<epoch, settled, kept, sessions, calls, views>>
      /\ change = "none" /\ change' = "changed" /\ vectors <= MaxChanges
      /\ vectors' = vectors + 1
      /\ generation' = IF installed THEN generation + 1 ELSE generation
  BY DEF ChangeVectors
<1>2. /\ Typed /\ epoch \in Nat /\ vectors = epoch + 1 /\ generation \in 1 .. vectors
      /\ MaxChanges \in Nat
  BY <1>1, SessionAssumption DEF IInv, Typed
<1>3. /\ vectors' = epoch + 2 /\ vectors' <= MaxChanges + 1
      /\ generation' \in 1 .. vectors'
  BY <1>1, <1>2
<1>4. Typed'
  BY <1>1, <1>2, <1>3 DEF Typed
<1>5. QED
  BY <1>1, <1>2, <1>4, ForgetOK

\* The epoch counts the change, and the sessions go after it (InvalidateOnDrop).
LEMMA InvalidateOK ==
  ASSUME IInv, invalidate
  PROVE  IInv'
<1>1. Typed /\ epoch \in Nat
  BY DEF IInv, Typed
<1>2. CASE change = "changed"
  <2>1. /\ epoch' = epoch + 1 /\ change' = "counted" /\ settled' = vectors
        /\ UNCHANGED <<vectors, generation, kept, sessions, calls, views>>
    BY <1>2 DEF invalidate
  <2>2. vectors = epoch + 2
    BY <1>1, <1>2 DEF Typed
  <2>3. /\ epoch' \in Nat /\ settled' = epoch' + 1 /\ vectors' = epoch' + 1
        /\ epoch <= epoch'
    BY <1>1, <2>1, <2>2
  <2>4. Typed'
    BY <1>1, <2>1, <2>3 DEF Typed
  <2>5. QED
    BY <2>1, <2>3, <2>4, ForgetOK
<1>3. CASE change # "changed"
  <2>1. /\ kept' = {} /\ change' = "none" /\ change = "counted"
        /\ UNCHANGED <<vectors, generation, epoch, settled, sessions, calls, views>>
    BY <1>3 DEF invalidate
  <2>2. Typed'
    BY <1>1, <2>1 DEF Typed
  <2>3. QED
    BY <1>1, <2>1, <2>2, ForgetOK
<1>4. QED
  BY <1>2, <1>3

\* A session kept too long is forgotten, or makes room.
LEMMA EvictOK ==
  ASSUME IInv, Evict
  PROVE  IInv'
<1>1. /\ kept' \subseteq kept
      /\ UNCHANGED <<vectors, generation, epoch, change, settled, sessions, calls, views>>
  BY DEF Evict, environment
<1>2. Typed /\ epoch \in Nat /\ kept \in SUBSET ((Nat \X Nat) \X Nat)
  BY DEF IInv, Typed
<1>3. Typed'
  <2>1. kept' \in SUBSET ((Nat \X Nat) \X Nat)
    BY <1>1, <1>2
  <2>2. QED
    BY <1>1, <1>2, <2>1 DEF Typed
<1>4. QED
  BY <1>1, <1>2, <1>3, ForgetOK

----------------------------------------------------------------------------
(* The invariant, and what follows from it.                                 *)

\* Nothing is searched yet (Init).
LEMMA InitOK == Init => IInv
<1> SUFFICES ASSUME Init
             PROVE  IInv
  OBVIOUS
<1>1. /\ vectors = 1 /\ generation = 1 /\ epoch = 0 /\ settled = 1 /\ change = "none"
      /\ kept = {} /\ sessions = <<>> /\ calls = [c \in Clients |-> IdleCall]
      /\ views = [c \in Clients |-> NoView] /\ MaxChanges \in Nat
  BY SessionAssumption DEF Init
<1>2. NoView \in ViewRecord /\ NoView.entries = <<>> /\ NoView.sessions = {} /\ NoView.page = {}
  BY DEF NoView, ViewRecord
<1>3. sessions \in Seq(SessionRecord) /\ DOMAIN sessions = {}
  BY <1>1
<1>4. Typed
  BY <1>1, <1>2, <1>3, IdleIs DEF Typed
<1>5. SessionsOK /\ AgesOK /\ KeptOK(kept, sessions)
  BY <1>1, <1>3 DEF SessionsOK, AgesOK, KeptOK
<1>6. CallsOK
  <2>1. SUFFICES ASSUME NEW c \in Clients
                 PROVE  CallOK(c, calls[c], sessions, views[c], epoch)
    BY DEF CallsOK
  <2>2. calls[c] = IdleCall /\ Len(views[c].entries) = 0
    BY <1>1, <1>2
  <2>3. QED
    BY <1>1, <2>2, IdleIs DEF CallOK, NoSession
<1>7. ViewsOK
  BY <1>1, <1>2 DEF ViewsOK, ViewOK
<1>8. QED
  BY <1>4, <1>5, <1>6, <1>7 DEF IInv

\* Every step keeps the invariant (Next).
LEMMA NextOK == IInv /\ [Next]_vars => IInv'
<1> SUFFICES ASSUME IInv, [Next]_vars
             PROVE  IInv'
  OBVIOUS
<1>1. CASE UNCHANGED vars
  BY <1>1
  DEF vars, environment, IInv, Typed, SessionsOK, CallsOK, AgesOK, ViewsOK
<1>2. ASSUME NEW c \in Clients, NEW offset \in 0 .. Len(views[c].entries),
             search_semantic(c, offset)
      PROVE  IInv'
  BY <1>2, BeginOK
<1>3. ASSUME NEW c \in Clients, get(c)
      PROVE  IInv'
  BY <1>3, GetOK
<1>4. ASSUME NEW c \in Clients, filter(c)
      PROVE  IInv'
  BY <1>4, FilterOK
<1>5. ASSUME NEW c \in Clients, lock(c)
      PROVE  IInv'
  BY <1>5, LockOK
<1>6. ASSUME NEW c \in Clients, NEW failed \in BOOLEAN, expand_semantic_session(c, failed)
      PROVE  IInv'
  BY <1>6, ExpandOK
<1>7. ASSUME NEW c \in Clients, Serve(c)
      PROVE  IInv'
  BY <1>7, ServeKeeps
<1>8. ASSUME NEW c \in Clients, GiveUp(c)
      PROVE  IInv'
  BY <1>8, GiveUpOK
<1>9. ASSUME NEW installed \in BOOLEAN, ChangeVectors(installed)
      PROVE  IInv'
  BY <1>9, ChangeOK
<1>10. CASE invalidate
  BY <1>10, InvalidateOK
<1>11. CASE Evict
  BY <1>11, EvictOK
<1>12. QED
  BY <1>1, <1>2, <1>3, <1>4, <1>5, <1>6, <1>7, <1>8, <1>9, <1>10, <1>11 DEF Next, Step

\* The invariant holds in every state the sessions can come to.
THEOREM Inductive == Spec => []IInv
<1>1. Init => IInv
  BY InitOK
<1>2. IInv /\ [Next]_vars => IInv'
  BY NextOK
<1>3. QED
  BY <1>1, <1>2, PTL DEF Spec

\* The state has its types: sessions hold results of the sidecar that are not
\* stale, in order, and no session is kept twice (SemanticSession).
THEOREM Types == Spec => []TypeOK
<1>1. IInv => TypeOK
  <2>1. SUFFICES ASSUME IInv
                 PROVE  TypeOK
    OBVIOUS
  <2>2. Typed /\ SessionsOK /\ KeptOK(kept, sessions) /\ MaxChanges \in Nat
    <3>1. Typed /\ SessionsOK /\ KeptOK(kept, sessions)
      BY <2>1 DEF IInv
    <3>2. QED
      BY <3>1, SessionAssumption
  <2>3. /\ vectors \in 1 .. MaxChanges + 1 /\ settled \in 1 .. vectors
        /\ generation \in 1 .. vectors /\ epoch \in 0 .. MaxChanges
        /\ change \in {"none", "changed", "counted"}
    <3>1. /\ epoch \in Nat /\ settled = epoch + 1 /\ vectors <= MaxChanges + 1
          /\ vectors = epoch + 1 \/ vectors = epoch + 2
      BY <2>2 DEF Typed
    <3>2. generation \in 1 .. vectors /\ change \in {"none", "changed", "counted"}
      BY <2>2 DEF Typed
    <3>3. QED
      BY <2>2, <3>1, <3>2
  <2>4. ASSUME NEW i \in DOMAIN sessions
        PROVE  /\ \A e \in Range(sessions[i].entries) : e \in Item /\ ~e.stale
               /\ sessions[i].shown \in 0 .. Len(sessions[i].entries)
               /\ sessions[i].window \in 0 .. MAX_SEMANTIC_CANDIDATE_WINDOW
               /\ sessions[i].lock \in Clients \cup {Free}
    <3>1. PICK s \in SessionRecord : s = sessions[i] /\ SessionOK(s)
      BY <2>2 DEF Typed, SessionsOK
    <3>2. /\ s.entries \in Seq(Item) /\ s.shown \in 0 .. Len(s.entries)
          /\ s.window \in 0 .. MAX_SEMANTIC_CANDIDATE_WINDOW /\ s.lock \in Clients \cup {Free}
      BY <3>1 DEF SessionRecord, SessionOK, Widths
    <3>3. \A e \in Range(s.entries) : e \in Item /\ ~e.stale
      BY <3>1, <3>2, RangeIs DEF SessionOK, NoneStale
    <3>4. QED
      BY <3>1, <3>2, <3>3
  <2>5. \A k, l \in kept : (k[1] = l[1] => k = l) /\ k[2] \in DOMAIN sessions
    BY <2>2 DEF KeptOK
  <2>6. QED
    BY <2>3, <2>4, <2>5 DEF TypeOK
<1>2. QED
  BY <1>1, Inductive, PTL

\* No line is a result of a session twice and no group is shown twice, over any
\* number of pages and windows (admits, take, commit).
THEOREM Once == Spec => []EachOnce
<1>1. IInv => EachOnce
  BY DEF IInv, SessionsOK, SessionOK, EachOnce
<1>2. QED
  BY <1>1, Inductive, PTL

\* The pages a client got of one session are its results in order, also those
\* asked again, however often it was ranked again (show, reopen).
THEOREM Continues == Spec => []ViewContinues
<1>1. IInv => ViewContinues
  <2>1. SUFFICES ASSUME IInv, NEW c \in Clients, NEW i \in views[c].sessions,
                        views[c].sessions = {i}
                 PROVE  IsPrefix(views[c].entries, sessions[i].entries)
    BY DEF ViewContinues
  <2>2. PICK v \in ViewRecord : v = views[c] /\ ViewOK(v, sessions)
    <3>1. Typed /\ ViewsOK
      BY <2>1 DEF IInv
    <3>2. QED
      BY <3>1 DEF Typed, ViewsOK
  <2>3. i \in DOMAIN sessions
    BY <2>1, <2>2 DEF ViewOK
  <2>4. PICK s \in SessionRecord : s = sessions[i] /\ SessionOK(s)
    <3>1. Typed /\ SessionsOK
      BY <2>1 DEF IInv
    <3>2. QED
      BY <2>3, <3>1 DEF Typed, SessionsOK
  <2>5. PICK p \in Seq(Item), q \in Seq(Item), n \in Nat :
          p = v.entries /\ q = s.entries /\ n = Len(p)
    BY DEF ViewRecord, SessionRecord
  <2>6. n <= Len(q) /\ \A k \in 1 .. n : p[k] = q[k]
    <3>1. Len(p) <= s.shown /\ \A k \in 1 .. Len(p) : p[k] = q[k]
      BY <2>1, <2>2, <2>4, <2>5 DEF ViewOK
    <3>2. s.shown <= Len(q) /\ s.shown \in Nat
      BY <2>4, <2>5 DEF SessionOK, SessionRecord
    <3>3. QED
      BY <2>5, <3>1, <3>2
  <2>7. SubSeq(p, 1, n) = SubSeq(q, 1, n)
    <3>1. /\ SubSeq(p, 1, n) \in Seq(Item) /\ Len(SubSeq(p, 1, n)) = n
          /\ \A k \in 1 .. n : SubSeq(p, 1, n)[k] = p[k]
      BY <2>5, FirstIs
    <3>2. /\ SubSeq(q, 1, n) \in Seq(Item) /\ Len(SubSeq(q, 1, n)) = n
          /\ \A k \in 1 .. n : SubSeq(q, 1, n)[k] = q[k]
      BY <2>6, FirstIs
    <3>3. QED
      BY <2>6, <3>1, <3>2, SeqEqual
  <2>8. IsPrefix(p, q)
    BY <2>5, <2>6, <2>7 DEF IsPrefix
  <2>9. QED
    BY <2>2, <2>4, <2>5, <2>8
<1>2. QED
  BY <1>1, Inductive, PTL

\* A search that begins after a call that changed the vectors returned is served
\* nothing computed before it (InvalidateOnDrop).
THEOREM Fresh == Spec => []ServedFresh
<1>1. IInv => ServedFresh
  BY DEF IInv, ViewsOK, ViewOK, ServedFresh
<1>2. QED
  BY <1>1, Inductive, PTL

\* A session goes on from one step to the next: what a page has shown keeps its
\* place, and a result no page has shown gives way only to one of its lines,
\* shown or found stale, or to its group (show, commit).
GoesOn ==
  \A i \in DOMAIN sessions :
    /\ i \in DOMAIN sessions'
    /\ Extends(sessions[i], sessions'[i]) /\ GaveWay(sessions[i], sessions'[i])

\* A session nobody touches goes on.
LEMMA SameGoesOn ==
  ASSUME NEW s \in SessionRecord
  PROVE  Extends(s, s) /\ GaveWay(s, s)
<1>1. s.shown \in Nat
  BY DEF SessionRecord
<1>2. Extends(s, s)
  BY <1>1 DEF Extends
<1>3. \A e \in Range(s.entries) : e.line \in Holds(e) \cap Held(s.entries)
  BY DEF Holds, Held
<1>4. QED
  BY <1>2, <1>3 DEF GaveWay

\* One session changes: it goes on, the others are the same.
LEMMA OneGoesOn ==
  ASSUME IInv, NEW i \in DOMAIN sessions, NEW t, sessions' = [sessions EXCEPT ![i] = t],
         Extends(sessions[i], t), GaveWay(sessions[i], t)
  PROVE  GoesOn
<1>1. /\ DOMAIN sessions' = DOMAIN sessions
      /\ \A j \in DOMAIN sessions : sessions'[j] = IF j = i THEN t ELSE sessions[j]
  OBVIOUS
<1>2. \A j \in DOMAIN sessions : sessions[j] \in SessionRecord
  BY DEF IInv, Typed
<1>3. ASSUME NEW j \in DOMAIN sessions
      PROVE  Extends(sessions[j], sessions'[j]) /\ GaveWay(sessions[j], sessions'[j])
  <2>1. CASE j = i
    BY <1>1, <2>1
  <2>2. CASE j # i
    BY <1>1, <1>2, <2>2, SameGoesOn
  <2>3. QED
    BY <2>1, <2>2
<1>4. QED
  BY <1>1, <1>3 DEF GoesOn

\* A step that leaves the sessions alone.
LEMMA IdleGoesOn ==
  ASSUME IInv, sessions' = sessions
  PROVE  GoesOn
<1>1. \A j \in DOMAIN sessions : sessions[j] \in SessionRecord
  BY DEF IInv, Typed
<1>2. QED
  BY <1>1, SameGoesOn DEF GoesOn

\* A session locked is the one it was, and a new one comes after all others (lock).
LEMMA LockGoesOn ==
  ASSUME IInv, NEW c \in Clients, lock(c)
  PROVE  GoesOn
<1>1. PICK i : i = calls[c].session
  OBVIOUS
<1>2. /\ CallOK(c, calls[c], sessions, views[c], epoch) /\ sessions \in Seq(SessionRecord)
      /\ DOMAIN sessions = 1 .. Len(sessions)
      /\ \A j \in DOMAIN sessions : sessions[j] \in SessionRecord /\ SessionOK(sessions[j])
  BY CallIs
<1>3. CASE i = NoSession
  <2>1. PICK t : t = [Session EXCEPT !.lock = c]
    OBVIOUS
  <2>2. sessions' = Append(sessions, t)
    BY <1>1, <1>3, <2>1 DEF lock
  <2>3. \A j \in DOMAIN sessions : j \in DOMAIN sessions' /\ sessions'[j] = sessions[j]
    BY <1>2, <2>2
  <2>4. QED
    BY <1>2, <2>3, SameGoesOn DEF GoesOn
<1>4. CASE i # NoSession
  <2>1. i \in DOMAIN sessions
    BY <1>1, <1>2, <1>4 DEF CallOK
  <2>2. PICK s \in SessionRecord : s = sessions[i] /\ SessionOK(s)
    BY <1>2, <2>1
  <2>3. PICK t : t = [s EXCEPT !.lock = c]
    OBVIOUS
  <2>4. sessions' = [sessions EXCEPT ![i] = t]
    BY <1>1, <1>4, <2>2, <2>3 DEF lock, SessionOf
  <2>5. Extends(s, t) /\ GaveWay(s, t)
    BY <2>2, <2>3, LockOnly
  <2>6. QED
    BY <2>1, <2>2, <2>4, <2>5, OneGoesOn
<1>5. QED
  BY <1>3, <1>4

\* A session given up is the one it was (GiveUp).
LEMMA GiveUpGoesOn ==
  ASSUME IInv, NEW c \in Clients, GiveUp(c)
  PROVE  GoesOn
<1>1. PICK i : i = calls[c].session
  OBVIOUS
<1>2. CASE At(c, "expanding")
  <2>1. CallOK(c, calls[c], sessions, views[c], epoch) /\ calls[c].pc = "expanding"
    BY <1>2, CallIs DEF At
  <2>2. i \in DOMAIN sessions
    BY <1>1, <2>1 DEF CallOK, Expands
  <2>3. PICK s \in SessionRecord : s = sessions[i] /\ SessionOK(s)
    BY <2>2, CallIs
  <2>4. PICK t : t = [s EXCEPT !.lock = Free]
    OBVIOUS
  <2>5. sessions' = [sessions EXCEPT ![i] = t]
    BY <1>1, <1>2, <2>3, <2>4 DEF GiveUp
  <2>6. Extends(s, t) /\ GaveWay(s, t)
    BY <2>3, <2>4, LockOnly
  <2>7. QED
    BY <2>2, <2>3, <2>5, <2>6, OneGoesOn
<1>3. CASE ~At(c, "expanding")
  <2>1. sessions' = sessions
    BY <1>3 DEF GiveUp
  <2>2. QED
    BY <2>1, IdleGoesOn
<1>4. QED
  BY <1>2, <1>3

\* A session served has what it had shown, then its additions, then the rest (Serve).
LEMMA ServeGoesOn ==
  ASSUME IInv, NEW c \in Clients, Serve(c)
  PROVE  GoesOn
<1>1. PICK call \in CallRecord : call = calls[c] /\ CallOK(c, call, sessions, views[c], epoch)
  BY CallIs
<1>2. PICK i : i = call.session
  OBVIOUS
<1>3. call.pc = "expanding"
  BY <1>1 DEF Serve, At
<1>4. i \in DOMAIN sessions /\ AdditionsOK(sessions[i], call.additions)
  BY <1>1, <1>2, <1>3 DEF CallOK, Expands
<1>5. PICK s \in SessionRecord : s = sessions[i] /\ SessionOK(s)
  BY <1>4, CallIs
<1>6. PICK a \in AnyAdditions : a = call.additions
  BY DEF CallRecord
<1>7. PICK r : r = commit(s, a)
  OBVIOUS
<1>8. PICK t : t = Paged(r, call)
  OBVIOUS
<1>9. PICK q : q = page(r, call.offset)
  OBVIOUS
<1>10. sessions' = [sessions EXCEPT ![i] = t]
  BY <1>1, <1>2, <1>5, <1>6, <1>7, <1>8 DEF Serve, SessionOf, Paged
<1>11. AdditionsOK(s, a)
  BY <1>4, <1>5, <1>6
<1>12. Extends(s, t)
  BY <1>5, <1>7, <1>8, <1>9, <1>11, ServedOK
<1>13. GaveWay(s, t)
  BY <1>5, <1>7, <1>8, <1>9, <1>11, ServedOK
<1>14. QED
  BY <1>4, <1>5, <1>10, <1>12, <1>13, OneGoesOn

\* Sessions go on at every step: no page that was shown is ever another one, and
\* what gives way, gives way to its own (show, commit, reopen).
THEOREM SessionsGoOn == Spec => [][GoesOn]_vars
<1>1. IInv /\ [Next]_vars => [GoesOn]_vars
  <2>1. SUFFICES ASSUME IInv, [Next]_vars
                 PROVE  GoesOn \/ UNCHANGED vars
    OBVIOUS
  <2>2. ASSUME NEW c \in Clients, NEW offset \in 0 .. Len(views[c].entries),
               search_semantic(c, offset)
        PROVE  GoesOn
    BY <2>1, <2>2, IdleGoesOn DEF search_semantic
  <2>3. ASSUME NEW c \in Clients, get(c) \/ filter(c)
        PROVE  GoesOn
    BY <2>1, <2>3, IdleGoesOn DEF get, filter
  <2>4. ASSUME NEW c \in Clients, lock(c)
        PROVE  GoesOn
    BY <2>1, <2>4, LockGoesOn
  <2>5. ASSUME NEW c \in Clients, NEW failed \in BOOLEAN, expand_semantic_session(c, failed)
        PROVE  GoesOn
    BY <2>1, <2>5, IdleGoesOn DEF expand_semantic_session
  <2>6. ASSUME NEW c \in Clients, Serve(c)
        PROVE  GoesOn
    BY <2>1, <2>6, ServeGoesOn
  <2>7. ASSUME NEW c \in Clients, GiveUp(c)
        PROVE  GoesOn
    BY <2>1, <2>7, GiveUpGoesOn
  <2>8. ASSUME NEW installed \in BOOLEAN, ChangeVectors(installed)
        PROVE  GoesOn
    BY <2>1, <2>8, IdleGoesOn DEF ChangeVectors
  <2>9. CASE invalidate \/ Evict
    BY <2>1, <2>9, IdleGoesOn DEF invalidate, Evict
  <2>10. QED
    BY <2>1, <2>2, <2>3, <2>4, <2>5, <2>6, <2>7, <2>8, <2>9 DEF Next, Step
<1>2. QED
  BY <1>1, Inductive, PTL DEF Spec

\* Ranked again, a result no page has shown gives way only to one of its lines,
\* held or found stale, or to its group, whatever a wider window ranks or groups
\* otherwise (commit).
THEOREM GivesWay == Spec => NothingLost
<1> DEFINE Kept ==
      \A i \in DOMAIN sessions : \A e \in Range(sessions[i].entries) :
        \/ Holds(e) \cap (Held(sessions'[i].entries) \cup sessions'[i].dropped) # {}
        \/ e.group # NoGroup /\ e.group \in Groups(sessions'[i].entries)
<1>1. [GoesOn]_vars => [Kept]_vars
  BY DEF GoesOn, GaveWay
<1>2. QED
  BY <1>1, SessionsGoOn, PTL DEF NothingLost

----------------------------------------------------------------------------
(* A search goes on: one call has a step whenever one has not ended, and    *)
(* each step of a call leaves it fewer.                                     *)

\* A call has a step: only for a session's mutex does it wait.
CanStep(c) ==
  \/ At(c, "keyed") \/ At(c, "expanding")
  \/ /\ At(c, "filtering") /\ SessionOf(c).lock = Free
  \/ /\ At(c, "locking") /\ (calls[c].session = NoSession \/ SessionOf(c).lock = Free)

\* A call that cannot go on waits for one that can, and that waits for nobody.
WaitsForOne ==
  \A c \in Clients : At(c, "idle") \/ CanStep(c) \/
    \E d \in Clients : At(d, "expanding") /\ calls[d].session = calls[c].session

\* The steps a call has left at most: a window each, until the widest there is.
StepsYet(call) ==
  CASE call.pc = "idle" -> 0
    [] call.pc = "keyed" -> MAX_SEMANTIC_CANDIDATE_WINDOW + 4
    [] call.pc = "filtering" -> MAX_SEMANTIC_CANDIDATE_WINDOW + 3
    [] call.pc = "locking" -> MAX_SEMANTIC_CANDIDATE_WINDOW + 2
    [] OTHER -> MAX_SEMANTIC_CANDIDATE_WINDOW + 1 - call.window

\* Whoever holds a session's mutex expands that session.
HoldersOK(ss, cs) ==
  \A i \in DOMAIN ss : ss[i].lock # Free =>
    cs[ss[i].lock].pc = "expanding" /\ cs[ss[i].lock].session = i

\* After the widest window there is no wider one.
Widest(x) == x.window = MAX_SEMANTIC_CANDIDATE_WINDOW => x.exhausted = TRUE
WidthsOK(ss, cs) == (\A i \in DOMAIN ss : Widest(ss[i])) /\ \A c \in Clients : Widest(cs[c])

GInv == HoldersOK(sessions, calls) /\ WidthsOK(sessions, calls)

\* The mutex of a session is a client's, or nobody's.
LEMMA LocksAre ==
  ASSUME IInv
  PROVE  \A i \in DOMAIN sessions : sessions[i].lock \in Clients \cup {Free}
<1>1. SUFFICES ASSUME NEW i \in DOMAIN sessions
               PROVE  sessions[i].lock \in Clients \cup {Free}
  OBVIOUS
<1>2. sessions \in Seq(SessionRecord)
  BY DEF IInv, Typed
<1>3. PICK s \in SessionRecord : s = sessions[i]
  BY <1>2
<1>4. s.lock \in Clients \cup {Free}
  BY DEF SessionRecord
<1>5. QED
  BY <1>3, <1>4

\* A call that expands nothing goes on, and its session does not change.
LEMMA MoveGoing ==
  ASSUME IInv, GInv, NEW c \in Clients, NEW call, Widest(call),
         calls[c].pc = "expanding" => call.pc = "expanding" /\ call.session = calls[c].session,
         calls' = [calls EXCEPT ![c] = call], sessions' = sessions
  PROVE  GInv'
<1>1. calls \in [Clients -> CallRecord]
  BY DEF IInv, Typed
<1>2. \A d \in Clients : calls'[d] = IF d = c THEN call ELSE calls[d]
  BY <1>1
<1>3. \A i \in DOMAIN sessions : sessions[i].lock \in Clients \cup {Free}
  BY LocksAre
<1>4. ASSUME NEW i \in DOMAIN sessions, sessions[i].lock # Free
      PROVE  calls'[sessions[i].lock].pc = "expanding" /\ calls'[sessions[i].lock].session = i
  <2>1. PICK d \in Clients : d = sessions[i].lock
    BY <1>3, <1>4
  <2>2. calls[d].pc = "expanding" /\ calls[d].session = i
    BY <1>4, <2>1 DEF GInv, HoldersOK
  <2>3. QED
    BY <1>2, <2>1, <2>2
<1>5. HoldersOK(sessions', calls')
  BY <1>4 DEF HoldersOK
<1>6. WidthsOK(sessions', calls')
  BY <1>2 DEF GInv, WidthsOK
<1>7. QED
  BY <1>5, <1>6 DEF GInv

\* The mutex of a session is taken by who expands it then, or left.
LEMMA HandGoing ==
  ASSUME IInv, GInv, NEW c \in Clients, NEW i \in DOMAIN sessions,
         sessions[i].lock \in {c, Free}, calls[c].pc = "expanding" => calls[c].session = i,
         NEW call, Widest(call), NEW t, Widest(t),
         \/ t.lock = Free
         \/ t.lock = c /\ call.pc = "expanding" /\ call.session = i,
         calls' = [calls EXCEPT ![c] = call], sessions' = [sessions EXCEPT ![i] = t]
  PROVE  GInv'
<1>1. calls \in [Clients -> CallRecord]
  BY DEF IInv, Typed
<1>2. \A d \in Clients : calls'[d] = IF d = c THEN call ELSE calls[d]
  BY <1>1
<1>3. \A j \in DOMAIN sessions : sessions[j].lock \in Clients \cup {Free}
  BY LocksAre
<1>4. /\ DOMAIN sessions' = DOMAIN sessions
      /\ \A j \in DOMAIN sessions : sessions'[j] = IF j = i THEN t ELSE sessions[j]
  OBVIOUS
<1>5. ASSUME NEW j \in DOMAIN sessions, sessions'[j].lock # Free
      PROVE  calls'[sessions'[j].lock].pc = "expanding" /\ calls'[sessions'[j].lock].session = j
  <2>1. CASE j = i
    BY <1>2, <1>4, <1>5, <2>1
  <2>2. CASE j # i
    <3>1. PICK d \in Clients : d = sessions[j].lock /\ d # Free /\ sessions'[j].lock = d
      BY <1>3, <1>4, <1>5, <2>2
    <3>2. calls[d].pc = "expanding" /\ calls[d].session = j
      BY <3>1 DEF GInv, HoldersOK
    <3>3. d # c
      BY <2>2, <3>2
    <3>4. QED
      BY <1>2, <3>1, <3>2, <3>3
  <2>3. QED
    BY <2>1, <2>2
<1>6. HoldersOK(sessions', calls')
  BY <1>4, <1>5 DEF HoldersOK
<1>7. \A j \in DOMAIN sessions' : Widest(sessions'[j])
  BY <1>4 DEF GInv, WidthsOK
<1>8. \A d \in Clients : Widest(calls'[d])
  BY <1>2 DEF GInv, WidthsOK
<1>9. QED
  BY <1>6, <1>7, <1>8 DEF GInv, WidthsOK

\* A new session is of who made it.
LEMMA NewGoing ==
  ASSUME IInv, GInv, NEW c \in Clients, calls[c].pc # "expanding",
         NEW call, Widest(call), call.pc = "expanding", call.session = Len(sessions) + 1,
         NEW t, Widest(t), t.lock = c,
         calls' = [calls EXCEPT ![c] = call], sessions' = Append(sessions, t)
  PROVE  GInv'
<1>1. calls \in [Clients -> CallRecord] /\ sessions \in Seq(SessionRecord)
  BY DEF IInv, Typed
<1>2. \A d \in Clients : calls'[d] = IF d = c THEN call ELSE calls[d]
  BY <1>1
<1>3. \A j \in DOMAIN sessions : sessions[j].lock \in Clients \cup {Free}
  BY LocksAre
<1>4. /\ DOMAIN sessions = 1 .. Len(sessions) /\ DOMAIN sessions' = 1 .. Len(sessions) + 1
      /\ Len(sessions) \in Nat /\ sessions'[Len(sessions) + 1] = t
      /\ \A j \in 1 .. Len(sessions) : sessions'[j] = sessions[j]
  BY <1>1
<1>5. \A j \in DOMAIN sessions' : j = Len(sessions) + 1 \/ j \in DOMAIN sessions
  BY <1>4
<1>6. ASSUME NEW j \in DOMAIN sessions', sessions'[j].lock # Free
      PROVE  calls'[sessions'[j].lock].pc = "expanding" /\ calls'[sessions'[j].lock].session = j
  <2>1. CASE j = Len(sessions) + 1
    BY <1>2, <1>4, <2>1
  <2>2. CASE j \in DOMAIN sessions
    <3>1. PICK d \in Clients : d = sessions[j].lock /\ d # Free /\ sessions'[j].lock = d
      BY <1>3, <1>4, <1>6, <2>2
    <3>2. calls[d].pc = "expanding" /\ calls[d].session = j
      BY <2>2, <3>1 DEF GInv, HoldersOK
    <3>3. QED
      BY <1>2, <3>1, <3>2
  <2>3. QED
    BY <1>5, <2>1, <2>2
<1>7. HoldersOK(sessions', calls')
  BY <1>6 DEF HoldersOK
<1>8. \A j \in DOMAIN sessions' : Widest(sessions'[j])
  BY <1>4, <1>5 DEF GInv, WidthsOK
<1>9. \A d \in Clients : Widest(calls'[d])
  BY <1>2 DEF GInv, WidthsOK
<1>10. QED
  BY <1>7, <1>8, <1>9 DEF GInv, WidthsOK

\* The next window is wider, until the widest (Wider).
LEMMA WiderGrows ==
  ASSUME NEW offset \in Nat, NEW window \in Widths, window # MAX_SEMANTIC_CANDIDATE_WINDOW
  PROVE  Wider(offset, window) > window
<1>1. PICK most \in Nat \ {0} : most = MAX_SEMANTIC_CANDIDATE_WINDOW
  BY SessionAssumption
<1>2. PICK w \in Nat : w = window /\ w < most
  BY <1>1 DEF Widths
<1>3. PICK m \in Nat : m = 2 * (offset + PageSize) + 1 /\ m >= 1
  BY SessionAssumption
<1>4. PICK n \in Nat : n = 2 * window /\ n = 2 * w
  BY <1>2
<1>5. PICK x \in Nat : x = Max({m, n}) /\ x > w
  <2>1. Max({m, n}) = IF m <= n THEN n ELSE m
    BY MinMax
  <2>2. Max({m, n}) \in Nat /\ Max({m, n}) > w
    BY <2>1, <1>2, <1>3, <1>4
  <2>3. QED
    BY <2>2
<1>6. Wider(offset, window) = Min({x, most})
  BY <1>1, <1>3, <1>4, <1>5 DEF Wider
<1>7. Min({x, most}) = IF x <= most THEN x ELSE most
  BY MinMax
<1>8. QED
  BY <1>2, <1>5, <1>6, <1>7

\* What is left is a number, and none is left of a call that is over.
LEMMA StepsAre ==
  ASSUME NEW call \in CallRecord
  PROVE  /\ StepsYet(call) \in Nat
         /\ StepsYet(call) >= IF call.pc = "idle" THEN 0 ELSE 1
<1>1. PICK most \in Nat : most = MAX_SEMANTIC_CANDIDATE_WINDOW
  BY SessionAssumption
<1>2. call.window \in 0 .. most /\ call.pc \in {"idle", "keyed", "filtering", "locking", "expanding"}
  BY <1>1 DEF CallRecord, Widths
<1>3. QED
  BY <1>1, <1>2 DEF StepsYet

\* What a client's own step leaves of its call.
Fewer(c) == StepsYet(calls'[c]) < StepsYet(calls[c])

\* A call that expands a session with the window it had.
Begun(call, s, i, a) ==
  [call EXCEPT !.pc = "expanding", !.session = i, !.additions = a,
     !.window = s.window, !.exhausted = s.exhausted, !.fallback = s.fallback]

\* A call begins to expand a session (lock).
LEMMA LockFewer ==
  ASSUME IInv, GInv, NEW c \in Clients, lock(c)
  PROVE  GInv' /\ Fewer(c)
<1>1. PICK call \in CallRecord : call = calls[c] /\ CallOK(c, call, sessions, views[c], epoch)
  BY CallIs
<1>2. call.pc = "locking" /\ calls \in [Clients -> CallRecord] /\ sessions \in Seq(SessionRecord)
  BY <1>1, CallIs DEF lock, At
<1>3. PICK most \in Nat \ {0} : most = MAX_SEMANTIC_CANDIDATE_WINDOW
  BY SessionAssumption
<1>4. ASSUME NEW s, s.window \in Widths, Widest(s), NEW i, NEW a, NEW new,
             new = Begun(call, s, i, a)
      PROVE  /\ new.pc = "expanding" /\ new.session = i /\ Widest(new)
             /\ StepsYet(new) < StepsYet(call)
  <2>1. new.pc = "expanding" /\ new.session = i /\ new.window = s.window /\ new.exhausted = s.exhausted
    BY <1>4 DEF CallRecord, Begun
  <2>2. Widest(new)
    BY <1>4, <2>1 DEF Widest
  <2>4. new.window \in 0 .. most
    BY <1>3, <1>4, <2>1 DEF Widths
  <2>5. StepsYet(new) = most + 1 - new.window /\ StepsYet(call) = most + 2
    BY <1>2, <1>3, <2>1 DEF StepsYet
  <2>6. StepsYet(new) < StepsYet(call)
    BY <2>4, <2>5
  <2>7. QED
    BY <2>1, <2>2, <2>6
<1>5. CASE call.session = NoSession
  <2>1. PICK t : t = [Session EXCEPT !.lock = c]
    OBVIOUS
  <2>2. Session.window = 0 /\ t.window = 0 /\ t.lock = c
    BY <2>1 DEF Session
  <2>3. Widest(Session) /\ Widest(t) /\ Session.window \in Widths
    BY <1>3, <2>2 DEF Widest, Widths
  <2>4. sessions' = Append(sessions, t)
    BY <1>1, <1>5, <2>1 DEF lock
  <2>5. PICK a, new :
          /\ new = Begun(call, Session, Len(sessions) + 1, a)
          /\ calls' = [calls EXCEPT ![c] = new]
    BY <1>1, <1>5 DEF lock, Move, Begun
  <2>6. /\ new.pc = "expanding" /\ new.session = Len(sessions) + 1 /\ Widest(new)
        /\ StepsYet(new) < StepsYet(call)
    BY <1>4, <2>3, <2>5
  <2>7. GInv'
    BY <1>1, <1>2, <2>2, <2>3, <2>4, <2>5, <2>6, NewGoing
  <2>8. Fewer(c)
    BY <1>1, <1>2, <2>5, <2>6 DEF Fewer
  <2>9. QED
    BY <2>7, <2>8
<1>6. CASE call.session # NoSession
  <2>1. PICK i \in DOMAIN sessions : i = call.session
    BY <1>1, <1>6 DEF CallOK
  <2>2. PICK s \in SessionRecord : s = sessions[i]
    BY <1>2
  <2>3. PICK t : t = [s EXCEPT !.lock = c]
    OBVIOUS
  <2>4. t.lock = c /\ t.window = s.window /\ t.exhausted = s.exhausted /\ s.window \in Widths
    BY <2>3 DEF SessionRecord
  <2>5. Widest(s) /\ Widest(t)
    BY <2>2, <2>4 DEF GInv, WidthsOK, Widest
  <2>6. s.lock = Free /\ sessions' = [sessions EXCEPT ![i] = t]
    BY <1>1, <1>6, <2>1, <2>2, <2>3 DEF lock, SessionOf
  <2>7. PICK a, new :
          /\ new = Begun(call, s, i, a)
          /\ calls' = [calls EXCEPT ![c] = new]
    BY <1>1, <1>6, <2>1, <2>2 DEF lock, Move, SessionOf, Begun
  <2>8. new.pc = "expanding" /\ new.session = i /\ Widest(new) /\ StepsYet(new) < StepsYet(call)
    BY <1>4, <2>4, <2>5, <2>7
  <2>9. GInv'
    BY <1>1, <1>2, <2>2, <2>4, <2>5, <2>6, <2>7, <2>8, HandGoing
  <2>10. Fewer(c)
    BY <1>1, <1>2, <2>7, <2>8 DEF Fewer
  <2>11. QED
    BY <2>9, <2>10
<1>7. QED
  BY <1>5, <1>6

\* A wider window leaves fewer (expand_semantic_session).
LEMMA ExpandFewer ==
  ASSUME IInv, GInv, NEW c \in Clients, NEW failed \in BOOLEAN, expand_semantic_session(c, failed)
  PROVE  GInv' /\ Fewer(c)
<1>1. PICK call \in CallRecord : call = calls[c] /\ CallOK(c, call, sessions, views[c], epoch)
  BY CallIs
<1>2. calls \in [Clients -> CallRecord] /\ call.pc = "expanding" /\ ~call.exhausted
  BY <1>1, CallIs DEF expand_semantic_session, At, Lacks
<1>3. PICK most \in Nat \ {0} : most = MAX_SEMANTIC_CANDIDATE_WINDOW
  BY SessionAssumption
<1>4. call.window \in Widths /\ call.window # most /\ call.offset \in Nat
  <2>1. call.window = most => call.exhausted = TRUE
    BY <1>1, <1>3 DEF GInv, WidthsOK, Widest
  <2>2. QED
    BY <1>2, <2>1 DEF CallRecord
<1>5. PICK w \in Nat : w = Wider(call.offset, call.window) /\ w \in 1 .. most /\ w > call.window
  BY <1>3, <1>4, WiderIs, WiderGrows
<1>6. PICK ends : ends = Exhausted(w, failed)
  OBVIOUS
<1>7. PICK a, new :
        /\ new = [call EXCEPT !.window = w, !.exhausted = ends, !.fallback = failed, !.additions = a]
        /\ calls' = [calls EXCEPT ![c] = new]
  BY <1>1, <1>5, <1>6 DEF expand_semantic_session, Move
<1>8. /\ new.pc = "expanding" /\ new.session = call.session
      /\ new.window = w /\ new.exhausted = ends
  BY <1>2, <1>7 DEF CallRecord
<1>9. Widest(new)
  <2>1. ASSUME w = most
        PROVE  ends = TRUE
    <3>1. w >= MAX_SEMANTIC_CANDIDATE_WINDOW
      BY <1>3, <2>1
    <3>2. QED
      BY <1>6, <3>1 DEF Exhausted
  <2>2. QED
    BY <1>3, <1>8, <2>1 DEF Widest
<1>10. GInv'
  BY <1>1, <1>7, <1>8, <1>9, MoveGoing DEF expand_semantic_session
<1>11. calls'[c] = new
  BY <1>2, <1>7
<1>12. StepsYet(new) = most + 1 - w /\ StepsYet(call) = most + 1 - call.window
  BY <1>2, <1>3, <1>8 DEF StepsYet
<1>13. call.window \in 0 .. most
  BY <1>3, <1>4 DEF Widths
<1>14. StepsYet(new) < StepsYet(call)
  BY <1>5, <1>12, <1>13
<1>15. QED
  BY <1>1, <1>10, <1>11, <1>14 DEF Fewer

\* A call that is over, and a session given back.
LEMMA IdleGoing == Widest(IdleCall) /\ StepsYet(IdleCall) = 0
<1>1. IdleCall.window = 0 /\ IdleCall.pc = "idle" /\ MAX_SEMANTIC_CANDIDATE_WINDOW # 0
  BY SessionAssumption DEF IdleCall
<1>2. QED
  BY <1>1 DEF Widest, StepsYet

\* A page served ends the call (Serve).
LEMMA ServeFewer ==
  ASSUME IInv, GInv, NEW c \in Clients, Serve(c)
  PROVE  GInv' /\ Fewer(c)
<1>1. PICK call \in CallRecord : call = calls[c] /\ CallOK(c, call, sessions, views[c], epoch)
  BY CallIs
<1>2. call.pc = "expanding" /\ calls \in [Clients -> CallRecord]
  BY <1>1, CallIs DEF Serve, At
<1>3. PICK i \in DOMAIN sessions : i = call.session /\ sessions[i].lock = c
  BY <1>1, <1>2 DEF CallOK, Expands
<1>4. PICK s : s = show(commit(SessionOf(c), call.additions), call.offset)
  OBVIOUS
<1>5. PICK t : /\ t = [s EXCEPT !.window = call.window, !.lock = Free,
                                !.exhausted = call.exhausted, !.fallback = call.fallback]
               /\ sessions' = [sessions EXCEPT ![i] = t]
  BY <1>1, <1>3, <1>4 DEF Serve
<1>6. {"window", "lock", "exhausted", "fallback"} \subseteq DOMAIN s
  <2>1. SessionOf(c) \in SessionRecord
    BY <1>1, <1>3, CallIs DEF SessionOf
  <2>2. DOMAIN SessionOf(c) = DOMAIN s
    BY <1>4 DEF show, commit
  <2>3. {"window", "lock", "exhausted", "fallback"} \subseteq DOMAIN SessionOf(c)
    BY <2>1 DEF SessionRecord
  <2>4. QED
    BY <2>2, <2>3
<1>7. t.window = call.window /\ t.lock = Free /\ t.exhausted = call.exhausted
  BY <1>5, <1>6
<1>8. Widest(t)
  BY <1>1, <1>7 DEF GInv, WidthsOK, Widest
<1>9. calls' = [calls EXCEPT ![c] = IdleCall]
  BY DEF Serve, Move
<1>10. GInv'
  BY <1>1, <1>3, <1>5, <1>7, <1>8, <1>9, HandGoing, IdleGoing
<1>11. calls'[c] = IdleCall
  BY <1>2, <1>9
<1>12. StepsYet(call) \in Nat /\ StepsYet(call) >= 1
  BY <1>2, StepsAre
<1>13. QED
  BY <1>1, <1>10, <1>11, <1>12, IdleGoing DEF Fewer

\* A call given up is over (GiveUp).
LEMMA GiveUpFewer ==
  ASSUME IInv, GInv, NEW c \in Clients, GiveUp(c)
  PROVE  GInv' /\ StepsYet(calls'[c]) = 0
<1>1. calls' = [calls EXCEPT ![c] = IdleCall] /\ calls \in [Clients -> CallRecord]
  BY CallIs DEF GiveUp, Move
<1>2. StepsYet(calls'[c]) = 0
  BY <1>1, IdleGoing
<1>3. CASE ~At(c, "expanding")
  BY <1>1, <1>2, <1>3, MoveGoing, IdleGoing DEF GiveUp, At
<1>4. CASE At(c, "expanding")
  <2>1. calls[c].pc = "expanding" /\ CallOK(c, calls[c], sessions, views[c], epoch)
    BY <1>4, CallIs DEF At
  <2>2. PICK i \in DOMAIN sessions : i = calls[c].session /\ sessions[i].lock = c
    BY <2>1 DEF CallOK, Expands
  <2>3. PICK s \in SessionRecord : s = sessions[i]
    BY CallIs
  <2>4. PICK t : t = [s EXCEPT !.lock = Free]
    OBVIOUS
  <2>5. t.lock = Free /\ t.window = s.window /\ t.exhausted = s.exhausted
    BY <2>4 DEF SessionRecord
  <2>6. Widest(t)
    BY <2>3, <2>5 DEF GInv, WidthsOK, Widest
  <2>7. sessions' = [sessions EXCEPT ![i] = t]
    BY <1>4, <2>2, <2>3, <2>4 DEF GiveUp
  <2>8. QED
    BY <1>1, <1>2, <2>2, <2>5, <2>6, <2>7, HandGoing, IdleGoing
<1>5. QED
  BY <1>3, <1>4

\* A call finds a session, or looks at one (get, filter).
LEMMA LookFewer ==
  ASSUME IInv, GInv, NEW c \in Clients, get(c) \/ filter(c)
  PROVE  GInv' /\ Fewer(c)
<1>1. PICK call \in CallRecord : call = calls[c]
  BY CallIs
<1>2. PICK most \in Nat : most = MAX_SEMANTIC_CANDIDATE_WINDOW
  BY SessionAssumption
<1>3. /\ calls \in [Clients -> CallRecord] /\ sessions' = sessions
      /\ call.pc \in {"keyed", "filtering"}
  BY <1>1, CallIs DEF get, filter, At
<1>4. PICK new : /\ calls' = [calls EXCEPT ![c] = new]
                 /\ new.window = call.window /\ new.exhausted = call.exhausted
                 /\ new.pc \in {"filtering", "locking"} /\ (call.pc = "filtering" => new.pc = "locking")
  <2>1. CASE get(c)
    <3>1. PICK e, i, restarted, offset, next, new :
            /\ next \in {"filtering", "locking"} /\ call.pc = "keyed"
            /\ new = [call EXCEPT !.epoch = e, !.session = i, !.pc = next,
                        !.restarted = restarted, !.offset = offset]
            /\ calls' = [calls EXCEPT ![c] = new]
      BY <1>1, <2>1 DEF get, Move, At
    <3>2. new.window = call.window /\ new.exhausted = call.exhausted /\ new.pc = next
      BY <3>1 DEF CallRecord
    <3>3. QED
      BY <3>1, <3>2
  <2>2. CASE filter(c)
    <3>1. PICK i, new : /\ new = [call EXCEPT !.pc = "locking", !.session = i]
                        /\ calls' = [calls EXCEPT ![c] = new]
      BY <1>1, <2>2 DEF filter, Move
    <3>2. new.window = call.window /\ new.exhausted = call.exhausted /\ new.pc = "locking"
      BY <3>1 DEF CallRecord
    <3>3. QED
      BY <3>1, <3>2
  <2>3. QED
    BY <2>1, <2>2
<1>5. Widest(new)
  BY <1>1, <1>4 DEF GInv, WidthsOK, Widest
<1>6. GInv'
  BY <1>1, <1>3, <1>4, <1>5, MoveGoing
<1>7. calls'[c] = new
  BY <1>3, <1>4
<1>8. StepsYet(new) < StepsYet(call)
  BY <1>2, <1>3, <1>4 DEF StepsYet
<1>9. QED
  BY <1>1, <1>6, <1>7, <1>8 DEF Fewer

\* Each step of a search leaves it fewer.
LEMMA StepFewer ==
  ASSUME IInv, GInv, NEW c \in Clients, Step(c)
  PROVE  GInv' /\ Fewer(c)
BY LookFewer, LockFewer, ExpandFewer, ServeFewer DEF Step

\* A search begins (search_semantic).
LEMMA BeginGoing ==
  ASSUME IInv, GInv, NEW c \in Clients, NEW offset, search_semantic(c, offset)
  PROVE  /\ GInv' /\ calls[c].pc = "idle"
         /\ StepsYet(calls'[c]) = MAX_SEMANTIC_CANDIDATE_WINDOW + 4
<1>1. PICK new : /\ calls' = [calls EXCEPT ![c] = new]
                 /\ new = [IdleCall EXCEPT !.pc = "keyed", !.offset = offset,
                             !.generation = generation, !.began = settled]
  BY DEF search_semantic, Move
<1>2. new.window = 0 /\ new.pc = "keyed"
  BY <1>1 DEF IdleCall
<1>3. Widest(new)
  BY <1>2, SessionAssumption DEF Widest
<1>4. calls[c].pc = "idle" /\ sessions' = sessions
  BY DEF search_semantic, At
<1>5. GInv'
  BY <1>1, <1>3, <1>4, MoveGoing
<1>6. calls'[c] = new
  BY <1>1, CallIs
<1>7. StepsYet(new) = MAX_SEMANTIC_CANDIDATE_WINDOW + 4
  BY <1>2 DEF StepsYet
<1>8. QED
  BY <1>4, <1>5, <1>6, <1>7

\* What is not of a call changes neither the calls nor the sessions.
LEMMA OthersGoing ==
  ASSUME GInv, UNCHANGED vars \/ (\E installed \in BOOLEAN : ChangeVectors(installed)) \/ invalidate \/ Evict
  PROVE  GInv' /\ calls' = calls
<1>1. calls' = calls /\ sessions' = sessions
  BY DEF vars, ChangeVectors, invalidate, Evict
<1>2. QED
  BY <1>1 DEF GInv

\* No session is held, and no window was asked for.
LEMMA InitGoing == Init => GInv
<1>1. SUFFICES ASSUME Init PROVE GInv
  OBVIOUS
<1>2. HoldersOK(sessions, calls)
  BY <1>1 DEF Init, HoldersOK
<1>3. \A c \in Clients : Widest(calls[c])
  BY <1>1, IdleGoing DEF Init
<1>4. QED
  BY <1>1, <1>2, <1>3 DEF GInv, WidthsOK, Init

\* What any step leaves.
LEMMA NextGoing == IInv /\ GInv /\ [Next]_vars => GInv'
<1>1. SUFFICES ASSUME IInv, GInv, [Next]_vars PROVE GInv'
  OBVIOUS
<1>2. ASSUME NEW c \in Clients, Step(c) PROVE GInv'
  BY <1>1, <1>2, StepFewer
<1>3. ASSUME NEW c \in Clients, GiveUp(c) PROVE GInv'
  BY <1>1, <1>3, GiveUpFewer
<1>4. ASSUME NEW c \in Clients, NEW offset \in 0 .. Len(views[c].entries), search_semantic(c, offset) PROVE GInv'
  BY <1>1, <1>4, BeginGoing
<1>5. ASSUME UNCHANGED vars \/ (\E installed \in BOOLEAN : ChangeVectors(installed)) \/ invalidate \/ Evict
      PROVE  GInv'
  BY <1>1, <1>5, OthersGoing
<1>6. QED
  BY <1>1, <1>2, <1>3, <1>4, <1>5 DEF Next

\* Whoever holds a session's mutex expands it, and the widest window is the last
\* (lock, expand_semantic_session).
THEOREM GoingInvariant == Spec => [](IInv /\ GInv)
<1>1. Init => IInv /\ GInv
  BY InitOK, InitGoing
<1>2. (IInv /\ GInv) /\ [Next]_vars => (IInv /\ GInv)'
  BY NextOK, NextGoing
<1>3. QED
  BY <1>1, <1>2, PTL DEF Spec

\* A call that has not ended has a step, or waits for the mutex of a session which
\* one call holds, and that one waits for nobody: no call holds one session's mutex
\* and waits for another's (search_semantic, SemanticSessions::get).
THEOREM WaitsEnd == Spec => []WaitsForOne
<1>1. ASSUME IInv, GInv
      PROVE  WaitsForOne
  <2>1. SUFFICES ASSUME NEW c \in Clients, ~At(c, "idle"), ~CanStep(c)
                 PROVE  \E d \in Clients : At(d, "expanding") /\ calls[d].session = calls[c].session
    BY DEF WaitsForOne
  <2>2. PICK call \in CallRecord : call = calls[c] /\ CallOK(c, call, sessions, views[c], epoch)
    BY <1>1, CallIs
  <2>3. call.pc \in {"filtering", "locking"} /\ (call.pc = "locking" => call.session # NoSession)
    BY <2>1, <2>2 DEF CanStep, At, CallRecord
  <2>4. PICK i \in DOMAIN sessions : i = call.session
    BY <2>2, <2>3 DEF CallOK
  <2>5. sessions[i].lock # Free
    BY <2>1, <2>2, <2>3, <2>4 DEF CanStep, At, SessionOf
  <2>6. PICK d \in Clients : d = sessions[i].lock
    BY <1>1, <2>5, LocksAre
  <2>7. calls[d].pc = "expanding" /\ calls[d].session = i
    BY <1>1, <2>5, <2>6 DEF GInv, HoldersOK
  <2>8. QED
    BY <2>2, <2>4, <2>7 DEF At
<1>2. QED
  BY <1>1, GoingInvariant, PTL

\* What a step leaves a call.
StepLess(c) ==
  /\ StepsYet(calls[c]) \in Nat
  /\ Step(c) => StepsYet(calls'[c]) < StepsYet(calls[c])
  /\ \/ StepsYet(calls'[c]) <= StepsYet(calls[c])
     \/ At(c, "idle") /\ StepsYet(calls'[c]) = MAX_SEMANTIC_CANDIDATE_WINDOW + 4

\* A step of a call leaves it fewer, and nothing makes more but its beginning: every
\* window is wider than the last, also when the session is another client's, was
\* taken up after a search that failed, or the vectors have changed since its last
\* window (expand_semantic_session, GiveUp).
THEOREM StepsFewer == Spec => [][\A c \in Clients : StepLess(c)]_vars
<1>1. ASSUME IInv, GInv, [Next]_vars, NEW c \in Clients
      PROVE  StepLess(c)
  <2>1. calls[c] \in CallRecord /\ calls \in [Clients -> CallRecord]
    BY <1>1, CallIs
  <2>2. StepsYet(calls[c]) \in Nat
    BY <2>1, StepsAre
  <2>3. ASSUME Step(c) PROVE StepsYet(calls'[c]) < StepsYet(calls[c])
    BY <1>1, <2>3, StepFewer DEF Fewer
  <2>4. \/ StepsYet(calls'[c]) <= StepsYet(calls[c])
        \/ At(c, "idle") /\ StepsYet(calls'[c]) = MAX_SEMANTIC_CANDIDATE_WINDOW + 4
    <3>1. ASSUME calls'[c] = calls[c] PROVE StepsYet(calls'[c]) <= StepsYet(calls[c])
      BY <2>2, <3>1
    <3>2. ASSUME NEW d \in Clients, Step(d)
          PROVE  StepsYet(calls'[c]) <= StepsYet(calls[c])
      <4>1. CASE d = c
        <5>1. StepsYet(calls'[c]) \in Nat
          BY <1>1, NextOK, StepsAre DEF IInv, Typed
        <5>2. QED
          BY <3>2, <4>1, <2>2, <2>3, <5>1
      <4>2. CASE d # c
        BY <3>1, <3>2, <4>2, <2>1 DEF Step, get, filter, lock, expand_semantic_session, Serve, Move
      <4>3. QED
        BY <4>1, <4>2
    <3>3. ASSUME NEW d \in Clients, GiveUp(d)
          PROVE  StepsYet(calls'[c]) <= StepsYet(calls[c])
      <4>1. CASE d = c
        BY <1>1, <2>2, <3>3, <4>1, GiveUpFewer
      <4>2. CASE d # c
        BY <3>1, <3>3, <4>2, <2>1 DEF GiveUp, Move
      <4>3. QED
        BY <4>1, <4>2
    <3>4. ASSUME NEW d \in Clients, NEW offset \in 0 .. Len(views[d].entries), search_semantic(d, offset)
          PROVE  \/ StepsYet(calls'[c]) <= StepsYet(calls[c])
                 \/ At(c, "idle") /\ StepsYet(calls'[c]) = MAX_SEMANTIC_CANDIDATE_WINDOW + 4
      <4>1. CASE d = c
        BY <1>1, <3>4, <4>1, BeginGoing DEF At
      <4>2. CASE d # c
        BY <3>1, <3>4, <4>2, <2>1 DEF search_semantic, Move
      <4>3. QED
        BY <4>1, <4>2
    <3>5. ASSUME UNCHANGED vars \/ (\E installed \in BOOLEAN : ChangeVectors(installed)) \/ invalidate \/ Evict
          PROVE  calls'[c] = calls[c]
      BY <1>1, <3>5, OthersGoing
    <3>6. QED
      BY <1>1, <3>1, <3>2, <3>3, <3>4, <3>5 DEF Next
  <2>5. QED
    BY <2>2, <2>3, <2>4 DEF StepLess
<1>2. IInv /\ GInv /\ [Next]_vars => [\A c \in Clients : StepLess(c)]_vars
  BY <1>1
<1>3. QED
  BY <1>2, GoingInvariant, PTL DEF Spec
=============================================================================
