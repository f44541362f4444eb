------------------------- MODULE BookNumbersProofs --------------------------
(***************************************************************************)
(* Proofs about BookNumbers, for every number of engines, books, numbers   *)
(* and every reservation, as long as at most one read of the reservation   *)
(* file fails.                                                             *)
(***************************************************************************)
EXTENDS BookNumbers, TLAPS, WellFoundedInduction

-----------------------------------------------------------------------------
(* The inductive invariant, in parts.                                      *)

\* Numbers as they are counted, and as a memory holds them.
Counted == 1 .. MaxNumber

Memory == {nb \in Numbering : nb.next \in Counted /\ nb.reserved \in Counted}

OneNumberEach(S) == \A b, c \in S : b[1] = c[1] => b[2] = c[2]

\* The numbers a memory would hand out without asking anybody, next up to
\* reserved, hold none of the numbers of S, or of another memory.
Clear(nb, S) == \A g \in S : g[2] < nb.next \/ g[2] >= nb.reserved

Apart(nb, other) == \/ nb.next >= nb.reserved \/ other.next >= other.reserved
                    \/ nb.next >= other.reserved \/ other.next >= nb.reserved

\* What the engine e may have in its memory: books that were handed out, one
\* number each, and a range of its own below the reservation on disk.
Sound(nb, e) ==
  /\ nb \in Memory
  /\ nb.by_path \subseteq given /\ nb.paths \subseteq given
  /\ OneNumberEach(nb.by_path)
  /\ nb.reserved <= Larger(disk, 1)
  /\ Clear(nb, given)
  /\ \A other \in Engines \ {e} : Apart(nb, numbers[other])

MemoriesSound == \A e \in Engines : Sound(numbers[e], e)

\* What the index and its snapshots hold was handed out, and a search found
\* each book of its snapshot under one number.
IndexIsGiven ==
  /\ committed \subseteq given /\ pending \subseteq given
  /\ \A e \in Engines : /\ reader[e] \subseteq given
                        /\ reading[e] \subseteq given
                        /\ OneNumberEach(reading[e])

\* Whatever was handed out is below the reservation on disk.
GivenIsReserved == \A g \in given : 1 <= g[2] /\ g[2] < disk

\* An engine between two of its writers holds the lock only while it merges.
LockOK ==
  /\ lock # NoEngine => step[lock] \in {"idle", "merging"}
  /\ \A e \in Engines : step[e] = "merging" => lock = e

\* The engine that writes knows what the disk reserves, or may hand out only
\* what it reserved itself, unless a read failed, and then no further one does.
Current(nb, failures) ==
  nb.next >= disk \/ nb.reserved >= disk \/ failures >= MaxReadFailures

Writing(e) == HasWriter(e) /\ ~stale[e]

WriterIsCurrent ==
  \A e \in Engines : Writing(e) => Current(numbers[e], failedReads)

\* The books of the index, and the pending ones, have the numbers the
\* writing engine knows; before it synchronised it only deleted.
WriterKnows ==
  /\ \A e \in Engines : stale[e] \/ numbers[e].loaded
  /\ \A e \in Engines :
       Writing(e) => committed \cup pending \subseteq numbers[e].by_path
  /\ (\A e \in Engines : ~Writing(e)) => pending \subseteq committed

IInv ==
  /\ TypeOK
  /\ IndexIsGiven
  /\ GivenIsReserved
  /\ NumberNeverReused
  /\ MemoriesSound
  /\ LockOK
  /\ WriterIsCurrent
  /\ WriterKnows
  /\ OneNumberPerBook

-----------------------------------------------------------------------------
(* Lemmas about the operators.                                             *)

\* A bounded set of naturals that is not empty has a largest element, which
\* is what Max (the `next` of BookNumbers::record) picks.
LEMMA LargestExists ==
  ASSUME NEW N \in Nat, NEW S \in SUBSET (0 .. N), S # {}
  PROVE  \E x \in S : \A y \in S : x >= y
<1> DEFINE T == {N - x : x \in S}
<1>1. T \subseteq Nat /\ T # {}
  <2>1. PICK x \in S : TRUE
    OBVIOUS
  <2>2. N - x \in T
    BY <2>1
  <2>3. \A x1 \in S : N - x1 \in Nat
    OBVIOUS
  <2>4. QED
    BY <2>2, <2>3
<1>2. PICK t \in T : \A u \in T : ~(<<u, t>> \in OpToRel(<, Nat))
  <2> HIDE DEF T
  <2>1. IsWellFoundedOn(OpToRel(<, Nat), Nat)
    BY NatLessThanWellFounded
  <2>2. QED
    BY <1>1, <2>1, WFMin
<1>3. \A u \in T : ~(u < t)
  <2> SUFFICES ASSUME NEW u \in T PROVE ~(u < t)
    OBVIOUS
  <2>1. u \in Nat /\ t \in Nat
    BY <1>1, <1>2
  <2>2. u < t => <<u, t>> \in OpToRel(<, Nat)
    BY <2>1 DEF OpToRel
  <2>3. QED
    BY <1>2, <2>2
<1>4. PICK x \in S : t = N - x
  BY <1>2
<1>5. \A y \in S : x >= y
  BY <1>3, <1>4
<1>6. QED
  BY <1>5

LEMMA MaxIsLargest ==
  ASSUME NEW N \in Nat, NEW S \in SUBSET (0 .. N), S # {}
  PROVE  Max(S) \in S /\ \A y \in S : Max(S) >= y
BY LargestExists DEF Max

LEMMA SaturatedOK ==
  ASSUME NEW n \in Nat
  PROVE  /\ Saturated(n) \in 0 .. MaxNumber
         /\ n <= MaxNumber => Saturated(n) = n
         /\ n > 0 => Saturated(n) \in Counted
         /\ n > MaxNumber => Saturated(n) = MaxNumber
BY ConstantsOK DEF Saturated, Counted

\* BookNumbers::absorb only adds to what is known, and counts past it.
LEMMA AbsorbOK ==
  ASSUME NEW nb \in Memory, NEW found \in SUBSET Books
  PROVE  /\ absorb(nb, found) \in Memory
         /\ absorb(nb, found).loaded = nb.loaded
         /\ absorb(nb, found).reserved = nb.reserved
         /\ absorb(nb, found).next >= nb.next
         /\ \A b \in found : absorb(nb, found).next >= Saturated(b[2] + 1)
         /\ absorb(nb, found).by_path =
              nb.by_path \cup {b \in found : ~KnowsPath(nb.by_path, b[1])}
         /\ absorb(nb, found).paths =
              nb.paths \cup {b \in found : ~KnowsNumber(nb.paths, b[2])}
<1> DEFINE S == {nb.next} \cup {Saturated(b[2] + 1) : b \in found}
           known == nb.by_path \cup {b \in found : ~KnowsPath(nb.by_path, b[1])}
           named == nb.paths \cup {b \in found : ~KnowsNumber(nb.paths, b[2])}
<1>1. nb.next \in Counted /\ nb.reserved \in Counted /\ nb \in Numbering
  BY DEF Memory
<1>2. \A b \in found : b[2] + 1 \in Nat /\ b[2] + 1 > 0
  BY DEF Books
<1>3. \A b \in found : Saturated(b[2] + 1) \in Counted
  BY <1>2, SaturatedOK
<1>4. S \in SUBSET Counted /\ S # {}
  BY <1>1, <1>3
<1>5. MaxNumber \in Nat /\ S \in SUBSET (0 .. MaxNumber)
  BY <1>4, ConstantsOK DEF Counted
<1>6. Max(S) \in S /\ \A y \in S : Max(S) >= y
  <2> HIDE DEF S
  <2> QED BY <1>4, <1>5, MaxIsLargest
<1>7. Max(S) \in Counted
  BY <1>4, <1>6
<1>8. absorb(nb, found) = [nb EXCEPT !.by_path = known, !.paths = named,
                                     !.next = Max(S)]
  BY DEF absorb
<1>9. known \in SUBSET Books /\ named \in SUBSET Books
  BY <1>1 DEF Numbering
<1>10. Max(S) \in Nat
  BY <1>7, ConstantsOK DEF Counted
<1>11. QED
  <2> HIDE DEF S, known, named
  <2>1. nb.next \in S /\ \A b \in found : Saturated(b[2] + 1) \in S
    BY DEF S
  <2>2. /\ absorb(nb, found) \in Memory
        /\ absorb(nb, found).loaded = nb.loaded
        /\ absorb(nb, found).reserved = nb.reserved
        /\ absorb(nb, found).next = Max(S)
        /\ absorb(nb, found).by_path = known
        /\ absorb(nb, found).paths = named
    BY <1>1, <1>7, <1>8, <1>9, <1>10 DEF Memory, Numbering
  <2>3. QED
    BY <1>6, <2>1, <2>2 DEF known, named

\* Books whose numbers can be read back from the index.
Readable(S) == \A b \in S : b[2] >= 1 /\ b[2] < MaxNumber

LEMMA SegmentsOK ==
  ASSUME NEW S \in SUBSET Books
  PROVE  /\ numbers_in_segments(S) \subseteq S
         /\ Readable(S) /\ OneNumberEach(S) => numbers_in_segments(S) = S
BY DEF numbers_in_segments, Readable, OneNumberEach, Books

\* BookNumbers::catch_up: the last commit wins, the reservation is taken in,
\* and nothing is known that was not known or committed.
LEMMA CatchUpOK ==
  ASSUME NEW nb \in Memory, NEW snapshot \in SUBSET Books,
         Readable(snapshot), OneNumberEach(snapshot),
         NEW read \in 0 .. MaxNumber
  PROVE  LET caught == catch_up(nb, snapshot, read)
         IN  /\ caught \in Memory
             /\ caught.loaded = nb.loaded
             /\ caught.reserved = Larger(nb.reserved, read)
             /\ caught.next >= nb.next /\ caught.next >= read
             /\ snapshot \subseteq caught.by_path
             /\ caught.by_path \subseteq nb.by_path \cup snapshot
             /\ caught.paths \subseteq nb.paths \cup snapshot
             /\ OneNumberEach(nb.by_path) => OneNumberEach(caught.by_path)
<1> DEFINE bp == {b \in nb.by_path : ~KnowsPath(snapshot, b[1])} \cup snapshot
           live == [nb EXCEPT !.by_path = bp]
           absorbed == absorb(live, snapshot)
           caught == catch_up(nb, snapshot, read)
<1>1. nb \in Numbering /\ nb.next \in Counted /\ nb.reserved \in Counted
  BY DEF Memory
<1>2. bp \in SUBSET Books
  BY <1>1 DEF Numbering
<1>3. /\ live \in Memory
      /\ live.loaded = nb.loaded /\ live.next = nb.next
      /\ live.reserved = nb.reserved /\ live.paths = nb.paths
      /\ live.by_path = bp
  <2> HIDE DEF bp
  <2> QED BY <1>1, <1>2 DEF Memory, Numbering
<1>4. caught = [absorbed EXCEPT !.next = Larger(absorbed.next, read),
                                !.reserved = Larger(absorbed.reserved, read)]
  <2>1. numbers_in_segments(snapshot) = snapshot
    BY SegmentsOK
  <2>2. QED
    BY <2>1 DEF catch_up
<1>5. /\ absorbed \in Memory
      /\ absorbed.loaded = nb.loaded
      /\ absorbed.reserved = nb.reserved
      /\ absorbed.next >= nb.next
      /\ absorbed.by_path = bp \cup {b \in snapshot : ~KnowsPath(bp, b[1])}
      /\ absorbed.paths = nb.paths \cup {b \in snapshot : ~KnowsNumber(nb.paths, b[2])}
  <2> HIDE DEF bp, live
  <2> QED BY <1>3, AbsorbOK
<1>6. absorbed.by_path = bp
  BY <1>5
<1>7. absorbed \in Numbering /\ absorbed.next \in Counted /\ absorbed.reserved \in Counted
  BY <1>5 DEF Memory
<1>8. /\ Larger(absorbed.next, read) \in Counted
      /\ Larger(absorbed.next, read) >= absorbed.next
      /\ Larger(absorbed.next, read) >= read
      /\ Larger(absorbed.reserved, read) \in Counted
  BY <1>7, ConstantsOK DEF Larger, Counted
<1>9. /\ caught \in Memory
      /\ caught.loaded = nb.loaded
      /\ caught.reserved = Larger(nb.reserved, read)
      /\ caught.next = Larger(absorbed.next, read)
      /\ caught.by_path = bp
      /\ caught.paths = absorbed.paths
  <2> DEFINE X == Larger(absorbed.next, read)
             Y == Larger(absorbed.reserved, read)
  <2>1. X \in Counted /\ Y \in Counted /\ X \in Nat /\ Y \in Nat
    BY <1>8, ConstantsOK DEF Counted
  <2>2. Y = Larger(nb.reserved, read)
    BY <1>5
  <2> HIDE DEF absorbed, bp, caught, live, X, Y
  <2>3. caught = [absorbed EXCEPT !.next = X, !.reserved = Y]
    BY <1>4 DEF X, Y
  <2>4. /\ caught \in Memory
        /\ caught.loaded = absorbed.loaded
        /\ caught.reserved = Y
        /\ caught.next = X
        /\ caught.by_path = absorbed.by_path
        /\ caught.paths = absorbed.paths
    BY <1>7, <2>1, <2>3 DEF Memory, Numbering
  <2>5. QED
    BY <1>5, <1>6, <2>2, <2>4 DEF X
<1>10. caught.next >= nb.next /\ caught.next >= read
  BY <1>1, <1>5, <1>7, <1>8, <1>9 DEF Counted
<1>11. OneNumberEach(nb.by_path) => OneNumberEach(bp)
  BY DEF OneNumberEach, KnowsPath
<1>12. QED
  BY <1>5, <1>9, <1>10, <1>11


-----------------------------------------------------------------------------
(* What an engine works with when it hands out a number.                   *)

\* At most one read fails.
OneFailure == MaxReadFailures \in 0 .. 1

LEMMA Types ==
  ASSUME IInv
  PROVE  /\ disk \in Nat /\ disk <= MaxNumber /\ MaxNumber \in Nat /\ MaxNumber > 1
         /\ Reservation \in Nat /\ Reservation > 0
         /\ MaxReadFailures \in Nat /\ failedReads \in Nat
         /\ failedReads <= MaxReadFailures
         /\ given \subseteq Books
         /\ \A g \in given : g[2] \in Nat
         /\ \A e \in Engines : /\ numbers[e] \in Memory
                               /\ numbers[e].next \in Nat /\ numbers[e].next >= 1
                               /\ numbers[e].reserved \in Nat
                               /\ numbers[e].reserved >= 1
                               /\ numbers[e].loaded \in BOOLEAN
BY ConstantsOK
   DEF IInv, TypeOK, MemoriesSound, Sound, Memory, Numbering, Counted, Books

LEMMA MemoryTypes ==
  ASSUME NEW nb \in Memory
  PROVE  /\ nb.next \in Nat /\ nb.next >= 1 /\ nb.next <= MaxNumber
         /\ nb.reserved \in Nat /\ nb.reserved >= 1 /\ nb.reserved <= MaxNumber
         /\ nb.loaded \in BOOLEAN
         /\ nb.by_path \subseteq Books /\ nb.paths \subseteq Books
BY ConstantsOK DEF Memory, Numbering, Counted

\* A memory created at its first use knows nothing and owns no range.
LEMMA LoadedOK ==
  ASSUME IInv, NEW e \in Engines, NEW failed \in BOOLEAN
  PROVE  /\ Sound(loaded(e, failed), e)
         /\ loaded(e, failed).loaded
         /\ numbers[e].loaded => loaded(e, failed) = numbers[e]
         /\ ~numbers[e].loaded =>
              loaded(e, failed).next >= loaded(e, failed).reserved
<1>1. CASE numbers[e].loaded
  BY <1>1 DEF loaded, IInv, MemoriesSound
<1>2. CASE ~numbers[e].loaded
  <2> DEFINE r == Larger(read_reservation(failed), 1)
             nb == loaded(e, failed)
  <2>1. r \in Counted /\ r \in Nat /\ r <= Larger(disk, 1)
    BY Types DEF read_reservation, Larger, Counted
  <2>2. nb = [loaded |-> TRUE, by_path |-> {}, paths |-> {},
              next |-> r, reserved |-> r]
    BY <1>2 DEF loaded, new
  <2> HIDE DEF r, nb
  <2>3. nb \in Memory /\ nb.loaded /\ nb.by_path = {} /\ nb.paths = {}
        /\ nb.next = r /\ nb.reserved = r
    BY <2>1, <2>2 DEF Memory, Numbering
  <2>4. Clear(nb, given) /\ \A other \in Engines \ {e} : Apart(nb, numbers[other])
    BY <2>1, <2>3, Types DEF Clear, Apart
  <2>5. Sound(nb, e)
    BY <2>1, <2>3, <2>4 DEF Sound, OneNumberEach
  <2>6. nb.next >= nb.reserved
    BY <2>1, <2>3
  <2>7. QED
    BY <1>2, <2>3, <2>5, <2>6 DEF nb
<1>3. QED
  BY <1>1, <1>2

\* Failed reads of one call, before that of number_for itself.
Earlier(f) == failedReads + Failed(f.new) + Failed(f.takeover)

LEMMA FailuresOK ==
  ASSUME IInv, NEW f \in Failures
  PROVE  /\ f.new \in BOOLEAN /\ f.takeover \in BOOLEAN /\ f.next \in BOOLEAN
         /\ Earlier(f) \in Nat /\ Earlier(f) >= failedReads
         /\ f.takeover => Earlier(f) >= 1
         /\ CountFailures(f) => /\ failedReads' = Earlier(f) + Failed(f.next)
                                /\ failedReads' \in 0 .. MaxReadFailures
<1>1. f.new \in BOOLEAN /\ f.takeover \in BOOLEAN /\ f.next \in BOOLEAN
  BY DEF Failures
<1>2. Failed(f.new) \in {0, 1} /\ Failed(f.takeover) \in {0, 1} /\ Failed(f.next) \in {0, 1}
  BY DEF Failed
<1>3. f.takeover => Failed(f.takeover) = 1
  BY DEF Failed
<1>4. QED
  BY <1>1, <1>2, <1>3, Types DEF Earlier, CountFailures

\* Committed books can be read back as they were written.
LEMMA CommittedOK ==
  ASSUME IInv
  PROVE  /\ committed \in SUBSET Books
         /\ Readable(committed) /\ OneNumberEach(committed)
<1>1. committed \in SUBSET Books /\ OneNumberEach(committed)
  BY DEF IInv, TypeOK, OneNumberPerBook, OneNumberEach
<1>2. \A b \in committed : b \in given
  BY DEF IInv, IndexIsGiven
<1>3. \A b \in committed : 1 <= b[2] /\ b[2] < disk
  BY <1>2 DEF IInv, GivenIsReserved
<1>4. Readable(committed)
  BY <1>2, <1>3, Types DEF Readable
<1>5. QED
  BY <1>1, <1>4

\* BookNumbers::catch_up at a newly taken writer.
LEMMA TakeoverOK ==
  ASSUME IInv, NEW e \in Engines, NEW nb, Sound(nb, e), nb.loaded,
         NEW failed \in BOOLEAN
  PROVE  LET caught == catch_up(nb, committed, read_reservation(failed))
         IN  /\ Sound(caught, e) /\ caught.loaded
             /\ committed \subseteq caught.by_path
             /\ ~failed => caught.next >= disk
<1> DEFINE read == read_reservation(failed)
           caught == catch_up(nb, committed, read)
<1>1. read \in 0 .. MaxNumber /\ read \in Nat /\ read \in {0, disk}
  BY Types DEF read_reservation
<1>2. nb \in Memory
  BY DEF Sound
<1>3. /\ caught \in Memory
      /\ caught.loaded = nb.loaded
      /\ caught.reserved = Larger(nb.reserved, read)
      /\ caught.next >= nb.next /\ caught.next >= read
      /\ committed \subseteq caught.by_path
      /\ caught.by_path \subseteq nb.by_path \cup committed
      /\ caught.paths \subseteq nb.paths \cup committed
      /\ OneNumberEach(nb.by_path) => OneNumberEach(caught.by_path)
  <2> HIDE DEF read
  <2> QED BY <1>1, <1>2, CommittedOK, CatchUpOK
<1> HIDE DEF caught
<1>4. caught.by_path \subseteq given /\ caught.paths \subseteq given
  BY <1>3 DEF Sound, IInv, IndexIsGiven
<1>5. caught.reserved <= Larger(disk, 1)
  <2> HIDE DEF read
  <2>1. nb.reserved <= Larger(disk, 1)
    BY DEF Sound
  <2>2. QED
    BY <1>1, <1>2, <1>3, <2>1, MemoryTypes, Types DEF Larger
<1>6. caught.next >= caught.reserved \/ caught.reserved = nb.reserved
  <2> HIDE DEF read
  <2>1. nb.reserved <= Larger(disk, 1) 
    BY DEF Sound
  <2>2. QED
    BY <1>1, <1>2, <1>3, <2>1, MemoryTypes, Types DEF Larger
<1>7. Clear(caught, given)
  <2>1. Clear(nb, given)
    BY DEF Sound
  <2>2. QED
    BY <1>2, <1>3, <1>6, <2>1, MemoryTypes, Types DEF Clear
<1>8. ASSUME NEW other \in Engines \ {e}
      PROVE  Apart(caught, numbers[other])
  <2>1. Apart(nb, numbers[other])
    BY DEF Sound
  <2>2. QED
    BY <1>2, <1>3, <1>6, <2>1, MemoryTypes, Types DEF Apart
<1>9. Sound(caught, e)
  BY <1>3, <1>4, <1>5, <1>7, <1>8 DEF Sound
<1>10. ~failed => caught.next >= disk
  BY <1>3 DEF read_reservation
<1>11. QED
  BY <1>3, <1>9, <1>10 DEF caught

\* The memory BookNumbers::number_for works on.
LEMMA SynchronisedOK ==
  ASSUME IInv, NEW e \in Engines, NEW f \in Failures, Called(e, f),
         OneFailure
  PROVE  LET nb == synchronised(e, f)
         IN  /\ Sound(nb, e) /\ nb.loaded
             /\ committed \cup pending \subseteq nb.by_path
             /\ Current(nb, Earlier(f))
<1> DEFINE nb == synchronised(e, f)
<1>1. Sound(loaded(e, f.new), e) /\ loaded(e, f.new).loaded
  BY LoadedOK, FailuresOK
<1>2. CASE stale[e]
  <2>1. nb = catch_up(loaded(e, f.new), committed, read_reservation(f.takeover))
    BY <1>2 DEF synchronised
  <2>2. /\ Sound(nb, e) /\ nb.loaded
        /\ committed \subseteq nb.by_path
        /\ ~f.takeover => nb.next >= disk
    BY <1>1, <2>1, TakeoverOK, FailuresOK
  <2> HIDE DEF nb
  <2>3. pending \subseteq committed
    BY <1>2 DEF Called, HasWriter, Writing, IInv, WriterKnows
  <2>4. Current(nb, Earlier(f))
    BY <2>2, FailuresOK DEF Current, OneFailure
  <2>5. QED
    BY <2>2, <2>3, <2>4 DEF nb
<1>3. CASE ~stale[e]
  <2>1. numbers[e].loaded
    BY <1>3 DEF IInv, WriterKnows
  <2>2. nb = numbers[e]
    BY <1>3, <2>1, LoadedOK, FailuresOK DEF synchronised
  <2>3. Writing(e)
    BY <1>3 DEF Called, Writing
  <2>4. Current(numbers[e], failedReads) /\ committed \cup pending \subseteq numbers[e].by_path
    BY <2>3 DEF IInv, WriterIsCurrent, WriterKnows
  <2>5. Current(numbers[e], Earlier(f))
    BY <2>4, FailuresOK, Types DEF Current
  <2>6. QED
    BY <1>1, <2>1, <2>2, <2>4, <2>5 DEF IInv, MemoriesSound
<1>4. QED
  BY <1>2, <1>3

\* The number chosen is the engine's own, or above all that is reserved.
LEMMA CandidateOK ==
  ASSUME IInv, NEW f \in Failures, CountFailures(f), OneFailure,
         NEW nb \in Memory, Current(nb, Earlier(f)),
         f.next => nb.next >= nb.reserved
  PROVE  LET n == candidate(nb, f)
         IN  /\ n \in Counted /\ n \in Nat
             /\ n >= nb.next
             /\ n < nb.reserved => n = nb.next
             /\ n >= nb.reserved => n >= disk
<1> DEFINE n == candidate(nb, f)
<1>1. CASE nb.next < nb.reserved
  BY <1>1, MemoryTypes, Types DEF candidate, Counted
<1>2. CASE nb.next >= nb.reserved
  <2> DEFINE read == read_reservation(f.next)
  <2>1. read \in Nat /\ read <= MaxNumber /\ (~f.next => read = disk)
    BY Types, FailuresOK DEF read_reservation
  <2>2. n = Larger(nb.next, read)
    BY <1>2 DEF candidate
  <2>3. n \in Counted /\ n \in Nat /\ n >= nb.next /\ n >= read
    BY <2>1, <2>2, MemoryTypes, Types DEF Larger, Counted
  <2>4. ASSUME f.next PROVE nb.next >= disk
    <3>1. Failed(f.next) = 1 /\ failedReads' = Earlier(f) + 1
      BY <2>4, FailuresOK DEF Failed
    <3>2. Earlier(f) < MaxReadFailures
      BY <3>1, FailuresOK DEF OneFailure
    <3>3. QED
      BY <1>2, <3>2, MemoryTypes, Types, FailuresOK DEF Current, OneFailure
  <2>5. n >= disk
    BY <2>1, <2>3, <2>4, MemoryTypes, Types
  <2>6. QED
    BY <1>2, <2>3, <2>5, MemoryTypes
<1>3. QED
  BY <1>1, <1>2, MemoryTypes

-----------------------------------------------------------------------------
(* Steps.                                                                  *)

\* An engine takes a memory m, while books are handed out and the
\* reservation grows; the other engines' ranges stay clear of both.
LEMMA MemoriesAfter ==
  ASSUME IInv, NEW e \in Engines, NEW m \in Memory,
         numbers' = [numbers EXCEPT ![e] = m],
         disk' \in Nat, disk' >= disk, given' \subseteq Books,
         given \subseteq given',
         m.by_path \subseteq given', m.paths \subseteq given',
         OneNumberEach(m.by_path),
         m.reserved <= Larger(disk', 1),
         Clear(m, given'),
         \A other \in Engines \ {e} :
           Apart(m, numbers[other]) /\ Clear(numbers[other], given')
  PROVE  MemoriesSound'
<1>1. numbers \in [Engines -> Numbering]
  BY DEF IInv, TypeOK
<1>2. numbers'[e] = m /\ \A x \in Engines \ {e} : numbers'[x] = numbers[x]
  BY <1>1
<1>3. ASSUME NEW x \in Engines
      PROVE  Sound(numbers[x], x)'
  <2>1. CASE x = e
    BY <1>2, <2>1 DEF Sound
  <2>2. CASE x # e
    <3>1. Sound(numbers[x], x)
      BY DEF IInv, MemoriesSound
    <3>2. \A y \in Engines \ {x} : Apart(numbers[x], numbers'[y])
      <4> SUFFICES ASSUME NEW y \in Engines \ {x}
                   PROVE  Apart(numbers[x], numbers'[y])
        OBVIOUS
      <4>1. CASE y = e
        BY <1>2, <2>2, <4>1, MemoryTypes, Types DEF Apart
      <4>2. CASE y # e
        BY <1>2, <3>1, <4>2 DEF Sound
      <4>3. QED
        BY <4>1, <4>2
    <3>3. numbers[x].reserved <= Larger(disk', 1)
      BY <3>1, Types DEF Sound, Larger
    <3>4. numbers'[x] = numbers[x]
      BY <1>2, <2>2
    <3>5. Clear(numbers[x], given')
      BY <2>2
    <3>6. QED
      BY <3>1, <3>2, <3>3, <3>4, <3>5 DEF Sound
  <2>3. QED
    BY <2>1, <2>2
<1>4. QED
  BY <1>3 DEF MemoriesSound

\* The case where nothing is handed out and the reservation does not shrink.
LEMMA MemoryReplaced ==
  ASSUME IInv, NEW e \in Engines, NEW m, Sound(m, e),
         numbers' = [numbers EXCEPT ![e] = m],
         given' = given, disk' \in Nat, disk' >= disk
  PROVE  MemoriesSound'
<1>1. m \in Memory /\ m.reserved <= Larger(disk, 1)
  BY DEF Sound
<1>2. m.reserved <= Larger(disk', 1)
  BY <1>1, MemoryTypes, Types DEF Larger
<1>3. \A other \in Engines \ {e} : Apart(m, numbers[other]) /\ Clear(numbers[other], given')
  BY DEF Sound, IInv, MemoriesSound
<1>4. QED
  BY <1>1, <1>2, <1>3, MemoriesAfter, Types DEF Sound

LEMMA MemoriesKept ==
  ASSUME IInv, UNCHANGED <<numbers, given, disk>>
  PROVE  MemoriesSound'
BY DEF IInv, MemoriesSound, Sound, Clear, Apart, Larger

\* A reloaded snapshot is the last commit, and only engines that search look.
LEMMA ServeOK ==
  ASSUME IInv, NEW e \in Engines, NEW S \in SUBSET Books
  PROVE  /\ Serve(e, S) \in [Engines -> SUBSET Books]
         /\ S \subseteq given => \A x \in Engines : Serve(e, S)[x] \subseteq given
BY DEF Serve, IInv, TypeOK, IndexIsGiven

\* The steps that hand nothing out leave the ranges, and what the numbers of
\* the engine that writes are worth, as they were.
LEMMA QuietStep ==
  ASSUME IInv, UNCHANGED <<disk, numbers, reading, given, failedReads>>,
         committed' \subseteq given, pending' \subseteq given,
         stale' \in [Engines -> BOOLEAN],
         step' \in [Engines -> Steps],
         closed' \in [Engines -> BOOLEAN],
         lock' \in Engines \cup {NoEngine},
         reader' \in [Engines -> SUBSET Books],
         \A e \in Engines : reader'[e] \subseteq given,
         LockOK',
         \A e \in Engines : Writing(e)' => /\ Writing(e)
                                           /\ committed' \cup pending' \subseteq committed \cup pending,
         \A e \in Engines : stale[e] => stale'[e],
         (\A e \in Engines : ~Writing(e)') => pending' \subseteq committed',
         OneNumberPerBook'
  PROVE  IInv'
<1>1. TypeOK'
  BY DEF IInv, TypeOK
<1>2. IndexIsGiven' /\ GivenIsReserved' /\ NumberNeverReused'
  BY DEF IInv, IndexIsGiven, GivenIsReserved, NumberNeverReused
<1>3. MemoriesSound'
  BY MemoriesKept
<1>4. WriterIsCurrent'
  BY DEF IInv, WriterIsCurrent, Current, Writing
<1>5. WriterKnows'
  <2>1. \A e \in Engines : stale'[e] \/ numbers'[e].loaded
    BY DEF IInv, WriterKnows
  <2>2. ASSUME NEW e \in Engines, Writing(e)'
        PROVE  committed' \cup pending' \subseteq numbers'[e].by_path
    BY <2>2 DEF IInv, WriterKnows
  <2>3. QED
    BY <2>1, <2>2 DEF WriterKnows
<1>6. QED
  BY <1>1, <1>2, <1>3, <1>4, <1>5 DEF IInv

\* What QuietStep asks for holds of the state a quiet step starts from.
LEMMA Before ==
  ASSUME IInv
  PROVE  /\ committed \subseteq Books /\ pending \subseteq Books
         /\ committed \subseteq given /\ pending \subseteq given
         /\ lock \in Engines \cup {NoEngine} /\ NoEngine \notin Engines
         /\ step \in [Engines -> Steps]
         /\ closed \in [Engines -> BOOLEAN]
         /\ stale \in [Engines -> BOOLEAN]
         /\ reader \in [Engines -> SUBSET Books]
         /\ reading \in [Engines -> SUBSET Books]
         /\ \A e \in Engines : reader[e] \subseteq given /\ reading[e] \subseteq given
         /\ lock # NoEngine => step[lock] \in {"idle", "merging"}
         /\ \A e \in Engines : step[e] = "merging" => lock = e
         /\ (\A e \in Engines : ~Writing(e)) => pending \subseteq committed
         /\ OneNumberEach(committed) /\ OneNumberEach(pending)
BY ConstantsOK DEF IInv, TypeOK, IndexIsGiven, LockOK, WriterKnows,
   OneNumberPerBook, OneNumberEach

LEMMA OnePerBookAfter ==
  ASSUME OneNumberEach(committed'), OneNumberEach(pending')
  PROVE  OneNumberPerBook'
BY DEF OneNumberEach, OneNumberPerBook

LEMMA OpenWriterStep ==
  ASSUME IInv, NEW e \in Engines, OpenWriter(e)
  PROVE  IInv'
<1>1. /\ lock = NoEngine /\ lock' = e /\ step[e] = "idle"
      /\ committed' = committed /\ pending' = committed
      /\ stale' = [stale EXCEPT ![e] = TRUE]
      /\ UNCHANGED <<disk, step, closed, numbers, reader, reading,
                     failedReads, given>>
  BY DEF OpenWriter, Exclusive, Idle
<1>2. /\ stale' \in [Engines -> BOOLEAN]
      /\ \A x \in Engines : (stale[x] => stale'[x]) /\ stale'[e]
  BY <1>1, Before
<1>3. \A x \in Engines : ~Writing(x)'
  BY <1>1, <1>2, Before DEF Writing, HasWriter, Idle
<1>4. LockOK'
  BY <1>1, Before DEF LockOK
<1>5. OneNumberPerBook'
  BY <1>1, Before, OnePerBookAfter
<1>6. QED
  BY <1>1, <1>2, <1>3, <1>4, <1>5, Before, QuietStep

LEMMA CloseWriterStep ==
  ASSUME IInv, NEW e \in Engines, CloseWriter(e)
  PROVE  IInv'
<1>1. /\ lock' = (IF lock = e THEN NoEngine ELSE lock)
      /\ pending' = (IF lock = e THEN committed ELSE pending)
      /\ closed' = [closed EXCEPT ![e] = TRUE] /\ step[e] = "idle"
      /\ UNCHANGED <<disk, committed, step, stale, numbers, reader, reading,
                     failedReads, given>>
  BY DEF CloseWriter, Exclusive, Idle
<1>2. \A x \in Engines : Writing(x)' => Writing(x)
  BY <1>1, Before DEF Writing, HasWriter, Idle
<1>3. ASSUME \A x \in Engines : ~Writing(x)'
      PROVE  pending' \subseteq committed'
  BY <1>1, <1>3, Before DEF Writing, HasWriter, Idle
<1>4. LockOK'
  BY <1>1, Before DEF LockOK
<1>5. OneNumberPerBook'
  BY <1>1, Before, OnePerBookAfter
<1>6. closed' \in [Engines -> BOOLEAN] /\ lock' \in Engines \cup {NoEngine}
  BY <1>1, Before
<1>7. QED
  BY <1>1, <1>2, <1>3, <1>4, <1>5, <1>6, Before, QuietStep

\* DeleteBooks, Commit and Rollback of the engine that has the writer.
LEMMA WriterOpStep ==
  ASSUME IInv, NEW e \in Engines,
         Commit(e) \/ Rollback(e) \/ \E gone \in SUBSET Paths : DeleteBooks(e, gone)
  PROVE  IInv'
<1>1. /\ lock = e
      /\ committed' \in {committed, pending}
      /\ pending' \subseteq pending \/ pending' = committed
      /\ committed' = committed \/ pending' = committed'
      /\ UNCHANGED <<disk, lock, step, closed, stale, numbers, reading,
                     failedReads, given>>
  BY DEF Commit, Rollback, DeleteBooks, HasWriter
<1>2. /\ reader' \in [Engines -> SUBSET Books]
      /\ \A x \in Engines : reader'[x] \subseteq given
  BY Before, ServeOK DEF Commit, Rollback, DeleteBooks
<1>3. \A x \in Engines : Writing(x)' <=> Writing(x)
  BY <1>1 DEF Writing, HasWriter, Idle
<1>4. ASSUME \A x \in Engines : ~Writing(x)'
      PROVE  pending' \subseteq committed'
  BY <1>1, <1>3, <1>4, Before
<1>5. LockOK'
  BY <1>1, Before DEF LockOK
<1>6. OneNumberPerBook'
  BY <1>1, Before, OnePerBookAfter DEF OneNumberEach
<1>7. committed' \cup pending' \subseteq committed \cup pending
  BY <1>1
<1>8. QED
  BY <1>1, <1>2, <1>3, <1>4, <1>5, <1>6, <1>7, Before, QuietStep

\* The writer is taken away, committed or not: nobody writes.
LEMMA ReleaseStep ==
  ASSUME IInv, NEW e \in Engines,
         OptimizeFlush(e) \/ OptimizeFlushFails(e) \/ EconomyFlush(e)
  PROVE  IInv'
<1>1. /\ lock' = NoEngine
      /\ \/ committed' = pending /\ pending' = pending
         \/ committed' = committed /\ pending' = committed
      /\ UNCHANGED <<disk, closed, numbers, reader, reading, failedReads, given>>
  BY DEF OptimizeFlush, OptimizeFlushFails, EconomyFlush, FlushAndRelease
<1>2. step' \in [Engines -> Steps]
  BY Before DEF OptimizeFlush, OptimizeFlushFails, EconomyFlush, Steps
<1>3. /\ stale' \in [Engines -> BOOLEAN]
      /\ \A x \in Engines : stale[x] => stale'[x]
  BY Before DEF OptimizeFlush, OptimizeFlushFails, EconomyFlush, MayOptimize
<1>4. \A x \in Engines : ~Writing(x)'
  BY <1>1, Before DEF Writing, HasWriter
<1>5. LockOK'
  <2>1. /\ lock \in {NoEngine, e} /\ step[e] = "idle"
        /\ \A x \in Engines \ {e} : step'[x] = step[x]
        /\ step'[e] # "merging"
    BY Before DEF OptimizeFlush, OptimizeFlushFails, EconomyFlush, MayOptimize,
       Exclusive, Idle
  <2>2. QED
    BY <1>1, <2>1, Before DEF LockOK
<1>6. OneNumberPerBook'
  BY <1>1, Before, OnePerBookAfter
<1>7. QED
  BY <1>1, <1>2, <1>3, <1>4, <1>5, <1>6, Before, QuietStep

\* An engine between two of its writers moves on without becoming the one
\* that writes.
LEMMA BetweenWritersStep ==
  ASSUME IInv, NEW e \in Engines,
         OptimizeOpen(e) \/ OptimizeMerged(e) \/ EconomyUndo(e) \/ RestoreBusy(e)
  PROVE  IInv'
<1>1. UNCHANGED <<disk, committed, pending, closed, numbers, reader, reading,
                  failedReads, given>>
  BY DEF OptimizeOpen, OptimizeMerged, EconomyUndo, RestoreBusy
<1>2. /\ step' \in [Engines -> Steps]
      /\ \A x \in Engines \ {e} : step'[x] = step[x]
  BY Before DEF OptimizeOpen, OptimizeMerged, EconomyUndo, RestoreBusy, Steps
<1>3. /\ stale' \in [Engines -> BOOLEAN]
      /\ \A x \in Engines : stale[x] => stale'[x]
      /\ \A x \in Engines \ {e} : stale'[x] = stale[x]
  BY Before DEF OptimizeOpen, OptimizeMerged, EconomyUndo, RestoreBusy
<1>4. /\ lock' \in {lock, NoEngine, e}
      /\ step[e] # "idle"
      /\ lock' = e <=> step'[e] = "merging"
      /\ lock' # lock => lock \in {NoEngine, e}
  BY Before DEF OptimizeOpen, OptimizeMerged, EconomyUndo, RestoreBusy, Steps
<1>5. \A x \in Engines : Writing(x)' <=> Writing(x)
  <2>1. ~Writing(e) /\ ~Writing(e)'
    BY <1>4 DEF Writing, HasWriter, Idle
  <2>2. \A x \in Engines \ {e} : lock' = x <=> lock = x
    BY <1>4, Before
  <2>3. QED
    BY <1>2, <1>3, <2>1, <2>2 DEF Writing, HasWriter, Idle
<1>6. (\A x \in Engines : ~Writing(x)') => pending' \subseteq committed'
  BY <1>1, <1>5, Before
<1>7. LockOK'
  BY <1>2, <1>4, Before DEF LockOK
<1>8. OneNumberPerBook'
  BY <1>1, Before, OnePerBookAfter
<1>9. lock' \in Engines \cup {NoEngine}
  BY <1>4, Before
<1>10. QED
  BY <1>1, <1>2, <1>3, <1>5, <1>6, <1>7, <1>8, <1>9, Before, QuietStep

LEMMA RestoreWriterStep ==
  ASSUME IInv, NEW e \in Engines, RestoreWriter(e)
  PROVE  IInv'
<1>1. /\ lock = NoEngine /\ lock' = e
      /\ committed' = committed /\ pending' = committed
      /\ stale' = [stale EXCEPT ![e] = TRUE]
      /\ step' = [step EXCEPT ![e] = "idle"]
      /\ UNCHANGED <<disk, closed, numbers, reading, failedReads, given>>
  BY DEF RestoreWriter
<1>2. /\ stale' \in [Engines -> BOOLEAN] /\ step' \in [Engines -> Steps]
      /\ \A x \in Engines : (stale[x] => stale'[x]) /\ stale'[e]
  BY <1>1, Before DEF Steps
<1>3. \A x \in Engines : ~Writing(x)'
  BY <1>1, <1>2, Before DEF Writing, HasWriter, Idle
<1>4. LockOK'
  BY <1>1, Before DEF LockOK
<1>5. OneNumberPerBook'
  BY <1>1, Before, OnePerBookAfter
<1>6. /\ reader' \in [Engines -> SUBSET Books]
      /\ \A x \in Engines : reader'[x] \subseteq given
  BY Before, ServeOK DEF RestoreWriter
<1>7. QED
  BY <1>1, <1>2, <1>3, <1>4, <1>5, <1>6, Before, QuietStep

LEMMA ReloadStep ==
  ASSUME IInv, NEW e \in Engines, Reload(e)
  PROVE  IInv'
<1>1. UNCHANGED <<disk, committed, pending, lock, step, closed, stale, numbers,
                  reading, failedReads, given>>
  BY DEF Reload
<1>2. /\ reader' \in [Engines -> SUBSET Books]
      /\ \A x \in Engines : reader'[x] \subseteq given
  BY Before, ServeOK DEF Reload
<1>3. \A x \in Engines : Writing(x)' <=> Writing(x)
  BY <1>1 DEF Writing, HasWriter, Idle
<1>4. LockOK' /\ OneNumberPerBook'
  BY <1>1, Before, OnePerBookAfter DEF LockOK
<1>5. QED
  BY <1>1, <1>2, <1>3, <1>4, Before, QuietStep

\* A step of one engine that changes what it knows, and perhaps hands a
\* number out; an engine that hands out has the lock.
LEMMA NumberStep ==
  ASSUME IInv, NEW e \in Engines, NEW m \in Memory,
         numbers' = [numbers EXCEPT ![e] = m],
         UNCHANGED <<committed, lock, step, closed>>,
         disk' \in 0 .. MaxNumber, disk' = disk \/ lock = e,
         failedReads' \in 0 .. MaxReadFailures, failedReads' >= failedReads,
         given' \subseteq Books, given \subseteq given',
         GivenIsReserved', NumberNeverReused', MemoriesSound',
         pending' \subseteq given',
         pending' = pending \/ pending' \subseteq m.by_path,
         OneNumberEach(m.by_path),
         stale' \in [Engines -> BOOLEAN],
         \A x \in Engines \ {e} : stale'[x] = stale[x],
         stale'[e] => stale[e],
         stale'[e] \/ m.loaded,
         ~Writing(e)' => pending' = pending,
         Writing(e)' => /\ committed \cup pending' \subseteq m.by_path
                        /\ Current(m, failedReads)' ,
         reader' \in [Engines -> SUBSET Books],
         reading' \in [Engines -> SUBSET Books],
         \A x \in Engines : /\ reader'[x] \subseteq given'
                            /\ reading'[x] \subseteq given'
                            /\ OneNumberEach(reading'[x])
  PROVE  IInv'
<1>1. /\ numbers \in [Engines -> Numbering]
      /\ numbers'[e] = m /\ \A x \in Engines \ {e} : numbers'[x] = numbers[x]
  BY DEF IInv, TypeOK
<1>2. TypeOK'
  <2>1. numbers' \in [Engines -> Numbering]
    BY <1>1 DEF Memory
  <2>2. \A x \in Engines : numbers'[x].next \in 1 .. MaxNumber /\ numbers'[x].reserved \in 1 .. MaxNumber
    BY <1>1 DEF Memory, Counted, IInv, TypeOK
  <2>3. pending' \subseteq Books
    OBVIOUS
  <2>4. QED
    BY <2>1, <2>2, <2>3, Before DEF TypeOK, IInv
<1>3. IndexIsGiven'
  BY Before DEF IndexIsGiven
<1>4. LockOK'
  BY DEF IInv, LockOK
<1>5. \A x \in Engines \ {e} : Writing(x)' <=> Writing(x)
  BY DEF Writing, HasWriter, Idle
<1>6. WriterIsCurrent'
  <2>1. ASSUME NEW x \in Engines \ {e}, Writing(x)'
        PROVE  Current(numbers[x], failedReads)'
    <3>1. disk' = disk
      BY <2>1 DEF Writing, HasWriter
    <3>2. Current(numbers[x], failedReads)
      BY <1>5, <2>1 DEF IInv, WriterIsCurrent
    <3>3. QED
      BY <1>1, <3>1, <3>2, Types DEF Current
  <2>2. Writing(e)' => Current(numbers[e], failedReads)'
    BY <1>1 DEF Current
  <2>3. QED
    BY <2>1, <2>2 DEF WriterIsCurrent
<1>7. WriterKnows'
  <2>1. \A x \in Engines : stale'[x] \/ numbers'[x].loaded
    BY <1>1 DEF IInv, WriterKnows
  <2>2. ASSUME NEW x \in Engines \ {e}, Writing(x)'
        PROVE  committed' \cup pending' \subseteq numbers'[x].by_path
    <3>1. ~Writing(e)'
      BY <2>2 DEF Writing, HasWriter
    <3>2. QED
      BY <1>1, <1>5, <2>2, <3>1 DEF IInv, WriterKnows
  <2>3. Writing(e)' => committed' \cup pending' \subseteq numbers'[e].by_path
    BY <1>1
  <2>4. ASSUME \A x \in Engines : ~Writing(x)'
        PROVE  pending' \subseteq committed'
    <3>1. ~Writing(e)
      BY <2>4 DEF Writing, HasWriter, Idle
    <3>2. QED
      BY <1>5, <2>4, <3>1, Before
  <2>5. QED
    BY <2>1, <2>2, <2>3, <2>4 DEF WriterKnows
<1>8. OneNumberPerBook'
  BY Before, OnePerBookAfter DEF OneNumberEach
<1>9. QED
  BY <1>2, <1>3, <1>4, <1>6, <1>7, <1>8 DEF IInv

LEMMA SynchroniseOK ==
  ASSUME IInv, NEW e \in Engines, NEW f \in Failures, Synchronise(e, f)
  PROVE  /\ CountFailures(f)
         /\ failedReads' \in 0 .. MaxReadFailures
         /\ failedReads' >= Earlier(f) /\ failedReads' >= failedReads
         /\ stale' \in [Engines -> BOOLEAN] /\ ~stale'[e]
         /\ \A x \in Engines \ {e} : stale'[x] = stale[x]
         /\ reader' \in [Engines -> SUBSET Books]
         /\ \A x \in Engines : reader'[x] \subseteq given
<1>1. CountFailures(f)
  BY DEF Synchronise
<1>2. Failed(f.next) \in Nat
  BY DEF Failed
<1>3. failedReads' >= Earlier(f) /\ failedReads' >= failedReads
  BY <1>1, <1>2, FailuresOK, Types
<1>4. QED
  BY <1>1, <1>3, FailuresOK, Before, ServeOK DEF Synchronise

LEMMA UseKnownNumberStep ==
  ASSUME IInv, OneFailure, NEW e \in Engines, NEW p \in Paths,
         UseKnownNumber(e, p)
  PROVE  IInv'
<1>1. PICK f \in Failures :
        /\ Called(e, f)
        /\ \E b \in synchronised(e, f).by_path : b[1] = p /\ Write(b)
        /\ numbers' = [numbers EXCEPT ![e] = synchronised(e, f)]
        /\ Synchronise(e, f)
        /\ UNCHANGED <<disk, committed, lock, step, closed, reading, given>>
  BY DEF UseKnownNumber
<1>m. PICK m : m = synchronised(e, f)
  OBVIOUS
<1>2. /\ Sound(m, e) /\ m.loaded
      /\ committed \cup pending \subseteq m.by_path
      /\ Current(m, Earlier(f))
  BY <1>1, <1>m, SynchronisedOK
<1>3. /\ failedReads' \in 0 .. MaxReadFailures
      /\ failedReads' >= Earlier(f) /\ failedReads' >= failedReads
      /\ stale' \in [Engines -> BOOLEAN] /\ ~stale'[e]
      /\ \A x \in Engines \ {e} : stale'[x] = stale[x]
      /\ reader' \in [Engines -> SUBSET Books]
      /\ \A x \in Engines : reader'[x] \subseteq given
  BY <1>1, SynchroniseOK
<1>4. pending' \subseteq m.by_path
  BY <1>1, <1>2, <1>m DEF Write
<1>5. m \in Memory /\ m.by_path \subseteq given /\ OneNumberEach(m.by_path)
  BY <1>2 DEF Sound
<1>6. numbers' = [numbers EXCEPT ![e] = m] /\ UNCHANGED <<disk, given>>
  BY <1>1, <1>m
<1>10. MemoriesSound'
  <2>1. given' = given /\ disk' \in Nat /\ disk' >= disk
    BY <1>6, Types
  <2>2. QED
    BY <1>2, <1>6, <2>1, MemoryReplaced
<1>7. GivenIsReserved' /\ NumberNeverReused'
  BY <1>1 DEF IInv, GivenIsReserved, NumberNeverReused
<1>8. Current(m, failedReads)'
  BY <1>2, <1>3, <1>6, FailuresOK, Types DEF Current
<1>9. Writing(e)'
  BY <1>1, <1>3 DEF Called, Writing, HasWriter, Idle
<1>11. /\ reading' \in [Engines -> SUBSET Books]
       /\ \A x \in Engines : reading'[x] \subseteq given' /\ OneNumberEach(reading'[x])
       /\ \A x \in Engines : reader'[x] \subseteq given'
       /\ given' \subseteq Books /\ given \subseteq given'
  BY <1>1, <1>3, Types DEF IInv, TypeOK, IndexIsGiven
<1>12. /\ UNCHANGED <<committed, lock, step, closed>>
       /\ disk' = disk /\ disk' \in 0 .. MaxNumber
       /\ pending' \subseteq given'
  BY <1>1, <1>4, <1>5, Types
<1>13. QED
  BY <1>2, <1>3, <1>4, <1>5, <1>6, <1>7, <1>8, <1>9, <1>10, <1>11, <1>12, NumberStep

\* An error after the engine synchronised.
LEMMA RefuseNumberStep ==
  ASSUME IInv, OneFailure, NEW e \in Engines, NEW p \in Paths,
         RefuseNumber(e, p)
  PROVE  IInv'
<1>1. PICK f \in Failures :
        /\ CalledForNew(e, p, f)
        /\ numbers' = [numbers EXCEPT ![e] =
             [synchronised(e, f) EXCEPT !.next = candidate(synchronised(e, f), f)]]
        /\ Synchronise(e, f)
        /\ UNCHANGED <<disk, committed, pending, lock, step, closed, reading, given>>
  BY DEF RefuseNumber
<1>m. PICK nb, n, m : /\ nb = synchronised(e, f)
                      /\ n = candidate(nb, f)
                      /\ m = [nb EXCEPT !.next = n]
  OBVIOUS
<1>2. Called(e, f) /\ (f.next => nb.next >= nb.reserved)
  BY <1>1, <1>m DEF CalledForNew
<1>3. /\ Sound(nb, e) /\ nb.loaded
      /\ committed \cup pending \subseteq nb.by_path
      /\ Current(nb, Earlier(f))
  BY <1>2, <1>m, SynchronisedOK
<1>4. /\ CountFailures(f)
      /\ failedReads' \in 0 .. MaxReadFailures
      /\ failedReads' >= Earlier(f) /\ failedReads' >= failedReads
      /\ stale' \in [Engines -> BOOLEAN] /\ ~stale'[e]
      /\ \A x \in Engines \ {e} : stale'[x] = stale[x]
      /\ reader' \in [Engines -> SUBSET Books]
      /\ \A x \in Engines : reader'[x] \subseteq given
  BY <1>1, SynchroniseOK
<1>5. nb \in Memory
  BY <1>3 DEF Sound
<1>6. n \in Counted /\ n \in Nat /\ n >= nb.next
  BY <1>2, <1>3, <1>4, <1>5, <1>m, CandidateOK
<1>7. /\ m \in Memory /\ m.loaded /\ m.next = n
      /\ m.reserved = nb.reserved /\ m.by_path = nb.by_path /\ m.paths = nb.paths
  BY <1>3, <1>5, <1>6, <1>m DEF Memory, Numbering
<1>8. numbers' = [numbers EXCEPT ![e] = m] /\ UNCHANGED <<disk, given>>
  BY <1>1, <1>m
<1>9. Sound(m, e)
  <2>1. Clear(m, given)
    BY <1>3, <1>5, <1>6, <1>7, MemoryTypes, Types DEF Sound, Clear
  <2>2. \A other \in Engines \ {e} : Apart(m, numbers[other])
    BY <1>3, <1>5, <1>6, <1>7, MemoryTypes, Types DEF Sound, Apart
  <2>3. QED
    BY <1>3, <1>7, <2>1, <2>2 DEF Sound
<1>10. Current(m, failedReads)'
  BY <1>3, <1>4, <1>5, <1>6, <1>7, <1>8, MemoryTypes, FailuresOK, Types DEF Current
<1>11. MemoriesSound'
  <2>1. given' = given /\ disk' \in Nat /\ disk' >= disk
    BY <1>8, Types
  <2>2. QED
    BY <1>8, <1>9, <2>1, MemoryReplaced
<1>12. GivenIsReserved' /\ NumberNeverReused'
  BY <1>1 DEF IInv, GivenIsReserved, NumberNeverReused
<1>13. Writing(e)'
  BY <1>1, <1>2, <1>4 DEF Called, Writing, HasWriter, Idle
<1>14. /\ reading' \in [Engines -> SUBSET Books]
       /\ \A x \in Engines : reading'[x] \subseteq given' /\ OneNumberEach(reading'[x])
       /\ \A x \in Engines : reader'[x] \subseteq given'
       /\ given' \subseteq Books /\ given \subseteq given'
  BY <1>1, <1>4, Types DEF IInv, TypeOK, IndexIsGiven
<1>15. /\ UNCHANGED <<committed, pending, lock, step, closed>>
       /\ disk' = disk /\ disk' \in 0 .. MaxNumber
       /\ pending' \subseteq given'
       /\ OneNumberEach(m.by_path)
       /\ committed \cup pending' \subseteq m.by_path
  BY <1>1, <1>3, <1>7, <1>9, Before, Types DEF Sound
<1>16. QED
  BY <1>4, <1>7, <1>8, <1>10, <1>11, <1>12, <1>13, <1>14, <1>15, NumberStep

\* A number is handed out, from the engine's range or a new reservation.
LEMMA HandOutStep ==
  ASSUME IInv, OneFailure, NEW e \in Engines, NEW p \in Paths,
         UseReservedNumber(e, p) \/ ReserveAndUse(e, p)
  PROVE  IInv'
<1>1. PICK f, nb, n, r :
        /\ f \in Failures
        /\ nb = synchronised(e, f) /\ n = candidate(nb, f)
        /\ CalledForNew(e, p, f) /\ n # MaxNumber
        /\ HandOut(e, p, f, n, r)
        /\ \/ n < nb.reserved /\ disk' = disk /\ r = nb.reserved
           \/ n >= nb.reserved /\ disk' = r /\ r = Saturated(n + Reservation)
  BY DEF UseReservedNumber, ReserveAndUse, Exhausted
<1>2. /\ Called(e, f) /\ lock = e /\ ~KnowsPath(nb.by_path, p)
      /\ f.next => nb.next >= nb.reserved
  BY <1>1 DEF CalledForNew, Called, HasWriter
<1>3. /\ Synchronise(e, f)
      /\ numbers' = [numbers EXCEPT ![e] =
           [absorb([nb EXCEPT !.next = n], {<<p, n>>}) EXCEPT !.reserved = r]]
      /\ given' = given \cup {<<p, n>>}
      /\ pending' \subseteq pending \cup {<<p, n>>}
      /\ UNCHANGED <<committed, lock, step, closed, reading>>
  BY <1>1 DEF HandOut, Write
<1>4. /\ Sound(nb, e) /\ nb.loaded
      /\ committed \cup pending \subseteq nb.by_path
      /\ Current(nb, Earlier(f))
  BY <1>1, <1>2, SynchronisedOK
<1>5. /\ CountFailures(f)
      /\ failedReads' \in 0 .. MaxReadFailures
      /\ failedReads' >= Earlier(f) /\ failedReads' >= failedReads
      /\ stale' \in [Engines -> BOOLEAN] /\ ~stale'[e]
      /\ \A x \in Engines \ {e} : stale'[x] = stale[x]
      /\ reader' \in [Engines -> SUBSET Books]
      /\ \A x \in Engines : reader'[x] \subseteq given
  BY <1>1, <1>3, SynchroniseOK
<1>6. nb \in Memory /\ nb.reserved <= Larger(disk, 1)
  BY <1>4 DEF Sound
<1>7. /\ n \in Counted /\ n \in Nat /\ n >= nb.next /\ 1 <= n /\ n < MaxNumber
      /\ n < nb.reserved => n = nb.next
      /\ n >= nb.reserved => n >= disk
  <2>1. /\ n \in Counted /\ n \in Nat /\ n >= nb.next
        /\ n < nb.reserved => n = nb.next
        /\ n >= nb.reserved => n >= disk
    BY <1>1, <1>2, <1>4, <1>5, <1>6, CandidateOK
  <2>2. QED
    BY <1>1, <2>1, Types DEF Counted
<1>8. /\ disk' \in 0 .. MaxNumber /\ disk' \in Nat /\ disk' >= disk /\ n < disk'
      /\ r \in Counted /\ r \in Nat /\ r <= disk'
      /\ (disk' = disk /\ r = nb.reserved) \/ (n >= disk /\ r = disk')
  <2>1. CASE n < nb.reserved /\ disk' = disk /\ r = nb.reserved
    BY <1>6, <1>7, <2>1, MemoryTypes, Types DEF Larger, Counted
  <2>2. CASE n >= nb.reserved /\ disk' = r /\ r = Saturated(n + Reservation)
    <3>1. n + Reservation \in Nat /\ n + Reservation > n
      BY <1>7, Types
    <3>2. r \in Counted /\ n < r
      BY <1>7, <2>2, <3>1, Types DEF Saturated, Counted
    <3>3. QED
      BY <1>7, <2>2, <3>2, Types DEF Counted
  <2>3. QED
    BY <1>1, <2>1, <2>2
<1>9. PICK k, a, m : /\ k = [nb EXCEPT !.next = n]
                     /\ a = absorb(k, {<<p, n>>})
                     /\ m = [a EXCEPT !.reserved = r]
  OBVIOUS
<1>10. /\ k \in Memory /\ k.loaded /\ k.next = n /\ k.reserved = nb.reserved
       /\ k.by_path = nb.by_path /\ k.paths = nb.paths
  BY <1>4, <1>6, <1>7, <1>9 DEF Memory, Numbering
<1>11. <<p, n>> \in Books /\ {<<p, n>>} \in SUBSET Books
  BY <1>7 DEF Books
<1>12. /\ a \in Memory /\ a.loaded /\ a.next >= n
       /\ a.next >= Saturated(n + 1)
       /\ a.by_path = nb.by_path \cup {b \in {<<p, n>>} : ~KnowsPath(nb.by_path, b[1])}
       /\ a.paths = nb.paths \cup {b \in {<<p, n>>} : ~KnowsNumber(nb.paths, b[2])}
  <2>1. PICK found \in SUBSET Books : found = {<<p, n>>}
    BY <1>11
  <2>2. /\ a \in Memory /\ a.loaded /\ a.next >= n
        /\ \A b \in found : a.next >= Saturated(b[2] + 1)
        /\ a.by_path = nb.by_path \cup {b \in found : ~KnowsPath(nb.by_path, b[1])}
        /\ a.paths = nb.paths \cup {b \in found : ~KnowsNumber(nb.paths, b[2])}
    <3>1. k \in Memory /\ a = absorb(k, found)
      BY <1>9, <1>10, <2>1
    <3>2. /\ a \in Memory
          /\ a.loaded = k.loaded
          /\ a.next >= k.next
          /\ \A b \in found : a.next >= Saturated(b[2] + 1)
          /\ a.by_path = k.by_path \cup {b \in found : ~KnowsPath(k.by_path, b[1])}
          /\ a.paths = k.paths \cup {b \in found : ~KnowsNumber(k.paths, b[2])}
      BY <3>1, AbsorbOK
    <3>3. QED
      BY <1>10, <3>2
  <2>3. QED
    BY <2>1, <2>2
<1>13. Saturated(n + 1) = n + 1
  BY <1>7, SaturatedOK, Types
<1>14. /\ m \in Memory /\ m.loaded /\ m.next = a.next /\ m.reserved = r
       /\ m.by_path = a.by_path /\ m.paths = a.paths
       /\ m.next \in Nat /\ m.next > n /\ m.next >= nb.next
  <2>1. /\ m \in Memory /\ m.loaded /\ m.next = a.next /\ m.reserved = r
        /\ m.by_path = a.by_path /\ m.paths = a.paths
    BY <1>8, <1>9, <1>12 DEF Memory, Numbering
  <2>2. a.next \in Nat /\ a.next >= n + 1
    BY <1>12, <1>13, MemoryTypes
  <2>3. QED
    BY <1>6, <1>7, <2>1, <2>2, MemoryTypes
<1>15. /\ m.by_path = nb.by_path \cup {<<p, n>>}
       /\ m.paths \subseteq nb.paths \cup {<<p, n>>}
  BY <1>2, <1>12, <1>14
<1>16. numbers' = [numbers EXCEPT ![e] = m]
  BY <1>3, <1>9
<1>17. OneNumberEach(m.by_path)
  BY <1>2, <1>4, <1>15 DEF Sound, OneNumberEach, KnowsPath
<1>18. /\ m.by_path \subseteq given' /\ m.paths \subseteq given'
       /\ given \subseteq given' /\ given' \subseteq Books
  BY <1>3, <1>4, <1>11, <1>15, Types DEF Sound
<1>19. m.reserved <= Larger(disk', 1)
  BY <1>8, <1>14 DEF Larger
<1>20. ASSUME NEW g \in given
       PROVE  g[2] \in Nat /\ 1 <= g[2] /\ g[2] < disk /\ g[2] # n
  <2>1. g[2] \in Nat /\ 1 <= g[2] /\ g[2] < disk
    BY Types DEF IInv, GivenIsReserved
  <2>2. g[2] < nb.next \/ g[2] >= nb.reserved
    BY <1>4 DEF Sound, Clear
  <2>3. QED
    BY <1>6, <1>7, <2>1, <2>2, MemoryTypes, Types
<1>21. Clear(m, given')
  <2>1. ASSUME NEW g \in given PROVE g[2] < m.next \/ g[2] >= m.reserved
    <3>1. g[2] < nb.next \/ g[2] >= nb.reserved
      BY <1>4 DEF Sound, Clear
    <3>2. QED
      BY <1>6, <1>7, <1>8, <1>14, <1>20, <3>1, MemoryTypes, Types
  <2>2. QED
    BY <1>3, <1>14, <2>1 DEF Clear
<1>22. ASSUME NEW other \in Engines \ {e}
       PROVE  Apart(m, numbers[other]) /\ Clear(numbers[other], given')
  <2>1. /\ Sound(numbers[other], other) /\ numbers[other] \in Memory
        /\ numbers[other].reserved <= Larger(disk, 1)
        /\ Clear(numbers[other], given)
    BY DEF IInv, MemoriesSound, Sound
  <2>2. Apart(nb, numbers[other])
    BY <1>4 DEF Sound
  <2>3. n < numbers[other].next \/ n >= numbers[other].reserved
    BY <1>6, <1>7, <2>1, <2>2, MemoryTypes, Types DEF Apart, Larger
  <2>4. Clear(numbers[other], given')
    BY <1>3, <2>1, <2>3 DEF Clear
  <2>5. Apart(m, numbers[other])
    BY <1>6, <1>7, <1>8, <1>14, <2>1, <2>2, MemoryTypes, Types DEF Apart, Larger
  <2>6. QED
    BY <2>4, <2>5
<1>23. MemoriesSound'
  BY <1>8, <1>14, <1>16, <1>17, <1>18, <1>19, <1>21, <1>22, MemoriesAfter
<1>24. GivenIsReserved'
  BY <1>3, <1>7, <1>8, <1>20, Types DEF GivenIsReserved
<1>25. NumberNeverReused'
  BY <1>3, <1>20 DEF IInv, NumberNeverReused
<1>26. Current(m, failedReads)'
  <2>1. f \in Failures
    BY <1>1
  <2>2. QED
    BY <1>4, <1>5, <1>6, <1>7, <1>8, <1>14, <2>1, MemoryTypes, FailuresOK, Types
    DEF Current
<1>27. committed \cup pending' \subseteq m.by_path /\ pending' \subseteq given'
  BY <1>3, <1>4, <1>15, <1>18
<1>28. /\ reading' \in [Engines -> SUBSET Books]
       /\ \A x \in Engines : reading'[x] \subseteq given' /\ OneNumberEach(reading'[x])
       /\ \A x \in Engines : reader'[x] \subseteq given'
  BY <1>3, <1>5 DEF IInv, TypeOK, IndexIsGiven
<1>29. Writing(e)'
  BY <1>2, <1>3, <1>5 DEF Called, Writing, HasWriter, Idle
<1>30. QED
  BY <1>2, <1>3, <1>5, <1>8, <1>14, <1>16, <1>17, <1>18, <1>23, <1>24, <1>25,
     <1>26, <1>27, <1>28, <1>29, NumberStep

\* Nothing is handed out: a memory of the engine is replaced by a sound one
\* that knows at least as much, or the engine restarts.
LEMMA TakeoverFailsStep ==
  ASSUME IInv, NEW e \in Engines, TakeoverFails(e)
  PROVE  IInv'
<1>1. PICK f, m :
        /\ f \in Failures
        /\ Called(e, f) /\ stale[e]
        /\ CountFailures(f)
        /\ m = loaded(e, f.new)
        /\ numbers' = [numbers EXCEPT ![e] = m]
        /\ reader' \in {reader, Serve(e, committed)}
        /\ UNCHANGED <<disk, committed, pending, lock, step, closed, stale,
                       reading, given>>
  BY DEF TakeoverFails
<1>2. Sound(m, e) /\ m.loaded /\ m \in Memory /\ OneNumberEach(m.by_path)
  BY <1>1, LoadedOK, FailuresOK DEF Sound
<1>3. failedReads' \in 0 .. MaxReadFailures /\ failedReads' >= failedReads
  <2>1. Failed(f.next) \in Nat
    BY DEF Failed
  <2>2. QED
    BY <1>1, <2>1, FailuresOK, Types
<1>4. /\ given' = given /\ disk' = disk
      /\ disk' \in 0 .. MaxNumber /\ disk' \in Nat /\ disk' >= disk
  BY <1>1, Types
<1>5. MemoriesSound'
  BY <1>1, <1>2, <1>4, MemoryReplaced
<1>6. GivenIsReserved' /\ NumberNeverReused'
  BY <1>4 DEF IInv, GivenIsReserved, NumberNeverReused
<1>7. ~Writing(e)'
  BY <1>1 DEF Writing
<1>8. /\ reader' \in [Engines -> SUBSET Books]
      /\ \A x \in Engines : reader'[x] \subseteq given'
  BY <1>1, <1>4, Before, ServeOK
<1>9. /\ reading' \in [Engines -> SUBSET Books]
      /\ \A x \in Engines : reading'[x] \subseteq given' /\ OneNumberEach(reading'[x])
  BY <1>1, <1>4 DEF IInv, TypeOK, IndexIsGiven
<1>10. QED
  BY <1>1, <1>2, <1>3, <1>4, <1>5, <1>6, <1>7, <1>8, <1>9, Before, Types, NumberStep

\* A search of an engine that holds nothing yet loads it.
LEMMA ReadSegmentsStep ==
  ASSUME IInv, NEW e \in Engines, ReadSegments(e)
  PROVE  IInv'
<1>1. PICK f, unread, m :
        /\ f \in Failures
        /\ unread \in SUBSET reader[e]
        /\ f.new => ~numbers[e].loaded
        /\ CountFailures(f)
        /\ m = loaded(e, f.new)
        /\ numbers' = [numbers EXCEPT ![e] = m]
        /\ reading' = [reading EXCEPT ![e] = numbers_in_segments(unread)]
        /\ UNCHANGED <<disk, committed, pending, lock, step, closed, stale,
                       reader, given>>
  BY DEF ReadSegments
<1>2. /\ Sound(m, e) /\ m.loaded /\ m \in Memory /\ OneNumberEach(m.by_path)
      /\ numbers[e].loaded => m = numbers[e]
  BY <1>1, LoadedOK, FailuresOK DEF Sound
<1>3. failedReads' \in 0 .. MaxReadFailures /\ failedReads' >= failedReads
  <2>1. Failed(f.next) \in Nat
    BY DEF Failed
  <2>2. QED
    BY <1>1, <2>1, FailuresOK, Types
<1>4. /\ given' = given /\ disk' = disk
      /\ disk' \in 0 .. MaxNumber /\ disk' \in Nat /\ disk' >= disk
  BY <1>1, Types
<1>5. MemoriesSound'
  BY <1>1, <1>2, <1>4, MemoryReplaced
<1>6. GivenIsReserved' /\ NumberNeverReused'
  BY <1>4 DEF IInv, GivenIsReserved, NumberNeverReused
<1>7. /\ Writing(e)' <=> Writing(e)
      /\ Writing(e) => m = numbers[e]
  BY <1>1, <1>2 DEF Writing, HasWriter, Idle, IInv, WriterKnows
<1>8. Writing(e)' => /\ committed \cup pending' \subseteq m.by_path
                     /\ Current(m, failedReads)'
  BY <1>1, <1>3, <1>4, <1>7, Types DEF IInv, WriterKnows, WriterIsCurrent, Current
<1>9. /\ reading' \in [Engines -> SUBSET Books]
      /\ \A x \in Engines : reading'[x] \subseteq given' /\ OneNumberEach(reading'[x])
  <2>1. /\ unread \in SUBSET Books /\ unread \subseteq given
        /\ OneNumberEach(numbers_in_segments(unread))
    <3>1. unread \in SUBSET Books /\ unread \subseteq given
      BY <1>1, Before
    <3>2. \A b \in unread : b[2] \in Nat
      BY <3>1, Types
    <3>3. QED
      BY <3>1, <3>2 DEF OneNumberEach, numbers_in_segments
  <2>2. numbers_in_segments(unread) \subseteq unread
    BY <2>1, SegmentsOK
  <2>3. QED
    BY <1>1, <2>1, <2>2 DEF IInv, TypeOK, IndexIsGiven
<1>10. QED
  BY <1>1, <1>2, <1>3, <1>4, <1>5, <1>6, <1>7, <1>8, <1>9, Before, Types, NumberStep

\* Recording a snapshot late adds books to the memory, and may move it past
\* numbers it could have handed out.
LEMMA RecordSegmentsStep ==
  ASSUME IInv, NEW e \in Engines, RecordSegments(e)
  PROVE  IInv'
<1>1. PICK nb, found, m :
        /\ nb = numbers[e] /\ found = reading[e]
        /\ m = absorb(nb, found)
        /\ numbers' = [numbers EXCEPT ![e] = m]
        /\ reading' = [reading EXCEPT ![e] = {}]
        /\ UNCHANGED <<disk, committed, pending, lock, step, closed, stale,
                       reader, failedReads, given>>
  BY DEF RecordSegments
<1>2. /\ Sound(nb, e) /\ nb \in Memory
      /\ found \in SUBSET Books /\ found \subseteq given /\ OneNumberEach(found)
  BY <1>1, Before DEF IInv, MemoriesSound, Sound, IndexIsGiven
<1>3. /\ m \in Memory /\ m.loaded = nb.loaded
      /\ m.reserved = nb.reserved /\ m.next >= nb.next
      /\ m.by_path = nb.by_path \cup {b \in found : ~KnowsPath(nb.by_path, b[1])}
      /\ m.paths = nb.paths \cup {b \in found : ~KnowsNumber(nb.paths, b[2])}
  BY <1>1, <1>2, AbsorbOK
<1>4. OneNumberEach(m.by_path)
  BY <1>2, <1>3 DEF Sound, OneNumberEach, KnowsPath
<1>5. Sound(m, e)
  <2>1. Clear(m, given)
    BY <1>2, <1>3, MemoryTypes, Types DEF Sound, Clear
  <2>2. \A other \in Engines \ {e} : Apart(m, numbers[other])
    BY <1>2, <1>3, MemoryTypes, Types DEF Sound, Apart
  <2>3. m.by_path \subseteq given /\ m.paths \subseteq given
    BY <1>2, <1>3 DEF Sound
  <2>4. QED
    BY <1>2, <1>3, <1>4, <2>1, <2>2, <2>3 DEF Sound
<1>6. /\ given' = given /\ disk' = disk
      /\ disk' \in 0 .. MaxNumber /\ disk' \in Nat /\ disk' >= disk
  BY <1>1, Types
<1>7. MemoriesSound'
  BY <1>1, <1>5, <1>6, MemoryReplaced
<1>8. GivenIsReserved' /\ NumberNeverReused'
  BY <1>6 DEF IInv, GivenIsReserved, NumberNeverReused
<1>9. /\ Writing(e)' <=> Writing(e)
      /\ Writing(e)' => /\ committed \cup pending' \subseteq m.by_path
                        /\ Current(m, failedReads)'
  <2>1. Writing(e)' <=> Writing(e)
    BY <1>1 DEF Writing, HasWriter, Idle
  <2>2. ASSUME Writing(e)
        PROVE  Current(nb, failedReads) /\ committed \cup pending \subseteq nb.by_path
    BY <1>1, <2>2 DEF IInv, WriterKnows, WriterIsCurrent
  <2>3. QED
    BY <1>1, <1>2, <1>3, <2>1, <2>2, MemoryTypes, Types DEF Current
<1>10. /\ reading' \in [Engines -> SUBSET Books]
       /\ \A x \in Engines : reading'[x] \subseteq given' /\ OneNumberEach(reading'[x])
  BY <1>1, <1>6 DEF IInv, TypeOK, IndexIsGiven, OneNumberEach
<1>11. stale[e] \/ m.loaded
  BY <1>1, <1>3 DEF IInv, WriterKnows
<1>12. failedReads' \in 0 .. MaxReadFailures /\ failedReads' >= failedReads
  BY <1>1, Types
<1>13. QED
  BY <1>1, <1>3, <1>4, <1>6, <1>7, <1>8, <1>9, <1>10, <1>11, <1>12, Before, Types, NumberStep

\* A process dies and another one opens the index, perhaps after the first
\* stored a reservation it never used.
LEMMA RestartStep ==
  ASSUME IInv, NEW e \in Engines, Restart(e),
         committed' = committed, given' = given,
         disk' \in 0 .. MaxNumber, disk' >= disk, disk' = disk \/ lock = e,
         failedReads' \in 0 .. MaxReadFailures, failedReads' >= failedReads
  PROVE  IInv'
<1>1. PICK m : m = Unloaded
  OBVIOUS
<1>2. /\ m.loaded = FALSE /\ m.by_path = {} /\ m.paths = {}
      /\ m.next = 1 /\ m.reserved = 1 /\ m \in Memory
  <2>1. 1 \in Counted /\ 1 \in Nat
    BY ConstantsOK DEF Counted
  <2>2. QED
    BY <1>1, <2>1 DEF Unloaded, Memory, Numbering
<1>3. /\ lock' = (IF lock = e THEN NoEngine ELSE lock)
      /\ pending' = (IF lock = e THEN committed ELSE pending)
      /\ step' = [step EXCEPT ![e] = "idle"]
      /\ closed' = [closed EXCEPT ![e] = FALSE]
      /\ stale' = [stale EXCEPT ![e] = TRUE]
      /\ numbers' = [numbers EXCEPT ![e] = m]
      /\ reader' = Serve(e, committed)
      /\ reading' = [reading EXCEPT ![e] = {}]
  BY <1>1 DEF Restart
<1>4. Sound(m, e)
  <2>1. Clear(m, given)
    BY <1>2, Types DEF IInv, GivenIsReserved, Clear
  <2>2. \A other \in Engines \ {e} : Apart(m, numbers[other])
    BY <1>2 DEF Apart
  <2>3. m.reserved <= Larger(disk, 1)
    BY <1>2, Types DEF Larger
  <2>4. QED
    BY <1>2, <2>1, <2>2, <2>3 DEF Sound, OneNumberEach
<1>5. disk' \in Nat
  BY Types
<1>6. MemoriesSound'
  BY <1>3, <1>4, <1>5, MemoryReplaced
<1>7. /\ numbers'[e] = m
      /\ \A x \in Engines \ {e} : numbers'[x] = numbers[x] /\ stale'[x] = stale[x]
      /\ \A x \in Engines \ {e} : step'[x] = step[x]
      /\ stale'[e] /\ step'[e] = "idle"
  BY <1>3, Before DEF IInv, TypeOK
<1>8. TypeOK'
  <2>1. /\ numbers' \in [Engines -> Numbering]
        /\ \A x \in Engines : numbers'[x].next \in 1 .. MaxNumber /\ numbers'[x].reserved \in 1 .. MaxNumber
    BY <1>2, <1>3, <1>7 DEF Memory, Counted, IInv, TypeOK
  <2>2. reader' \in [Engines -> SUBSET Books] /\ reading' \in [Engines -> SUBSET Books]
    BY <1>3, Before, ServeOK
  <2>3. /\ lock' \in Engines \cup {NoEngine}
        /\ pending' \subseteq Books /\ committed' \subseteq Books /\ given' \subseteq Books
        /\ step' \in [Engines -> Steps]
        /\ closed' \in [Engines -> BOOLEAN] /\ stale' \in [Engines -> BOOLEAN]
    BY <1>3, Before, Types DEF Steps
  <2>4. QED
    BY <2>1, <2>2, <2>3 DEF TypeOK
<1>9. IndexIsGiven'
  <2>1. \A x \in Engines : reader'[x] \subseteq given'
    BY <1>3, Before, ServeOK
  <2>2. \A x \in Engines : reading'[x] \subseteq given' /\ OneNumberEach(reading'[x])
    BY <1>3 DEF IInv, TypeOK, IndexIsGiven, OneNumberEach
  <2>3. QED
    BY <1>3, <2>1, <2>2, Before DEF IndexIsGiven
<1>10. GivenIsReserved' /\ NumberNeverReused'
  BY Types DEF IInv, GivenIsReserved, NumberNeverReused
<1>11. LockOK'
  BY <1>3, <1>7, Before DEF LockOK
<1>12. /\ ~Writing(e)'
       /\ \A x \in Engines \ {e} : Writing(x)' <=> Writing(x)
       /\ \A x \in Engines \ {e} : Writing(x)' => lock = x /\ lock' = x /\ disk' = disk
  BY <1>3, <1>7, Before DEF Writing, HasWriter, Idle
<1>13. WriterIsCurrent'
  <2>1. ASSUME NEW x \in Engines \ {e}, Writing(x)'
        PROVE  Current(numbers[x], failedReads)'
    BY <1>7, <1>12, <2>1, Types DEF IInv, WriterIsCurrent, Current
  <2>2. QED
    BY <1>12, <2>1 DEF WriterIsCurrent
<1>14. WriterKnows'
  <2>1. \A x \in Engines : stale'[x] \/ numbers'[x].loaded
    BY <1>7 DEF IInv, WriterKnows
  <2>2. ASSUME NEW x \in Engines \ {e}, Writing(x)'
        PROVE  committed' \cup pending' \subseteq numbers'[x].by_path
    BY <1>3, <1>7, <1>12, <2>2 DEF IInv, WriterKnows
  <2>3. ASSUME \A x \in Engines : ~Writing(x)'
        PROVE  pending' \subseteq committed'
    <3>1. CASE lock = e
      BY <1>3, <3>1
    <3>2. CASE lock # e
      <4>1. ~Writing(e)
        BY <3>2 DEF Writing, HasWriter
      <4>2. QED
        BY <1>3, <1>12, <2>3, <3>2, <4>1, Before
    <3>3. QED
      BY <3>1, <3>2
  <2>4. QED
    BY <1>12, <2>1, <2>2, <2>3 DEF WriterKnows
<1>15. OneNumberPerBook'
  BY <1>3, Before, OnePerBookAfter
<1>16. QED
  BY <1>6, <1>8, <1>9, <1>10, <1>11, <1>13, <1>14, <1>15 DEF IInv

LEMMA CrashStep ==
  ASSUME IInv, NEW e \in Engines, Crash(e)
  PROVE  IInv'
<1>1. /\ Restart(e) /\ committed' = committed /\ given' = given
      /\ disk' = disk /\ failedReads' = failedReads
  BY DEF Crash
<1>2. disk' \in 0 .. MaxNumber /\ disk' >= disk
  BY <1>1, Types
<1>3. failedReads' \in 0 .. MaxReadFailures /\ failedReads' >= failedReads
  BY <1>1, Types
<1>4. QED
  BY <1>1, <1>2, <1>3, RestartStep

LEMMA CrashReservingStep ==
  ASSUME IInv, OneFailure, NEW e \in Engines, NEW p \in Paths,
         CrashReserving(e, p)
  PROVE  IInv'
<1>1. PICK f, nb, n :
        /\ f \in Failures
        /\ nb = synchronised(e, f) /\ n = candidate(nb, f)
        /\ CalledForNew(e, p, f) /\ n # MaxNumber /\ n >= nb.reserved
        /\ disk' = Saturated(n + Reservation)
        /\ CountFailures(f)
        /\ Restart(e)
        /\ committed' = committed /\ given' = given
  BY DEF CrashReserving, Exhausted
<1>2. Called(e, f) /\ lock = e /\ (f.next => nb.next >= nb.reserved)
  BY <1>1 DEF CalledForNew, Called, HasWriter
<1>3. nb \in Memory /\ Current(nb, Earlier(f))
  BY <1>1, <1>2, SynchronisedOK DEF Sound
<1>4. n \in Counted /\ n \in Nat /\ n >= disk
  BY <1>1, <1>2, <1>3, CandidateOK
<1>5. disk' \in 0 .. MaxNumber /\ disk' >= disk
  BY <1>1, <1>4, Types DEF Saturated, Counted
<1>6. failedReads' \in 0 .. MaxReadFailures /\ failedReads' >= failedReads
  <2>1. Failed(f.next) \in Nat
    BY DEF Failed
  <2>2. QED
    BY <1>1, <2>1, FailuresOK, Types
<1>7. QED
  BY <1>1, <1>2, <1>5, <1>6, RestartStep

-----------------------------------------------------------------------------
(* The theorems.                                                           *)

LEMMA Initially ==
  ASSUME Init
  PROVE  IInv
<1>1. TypeOK
  <2>1. Unloaded \in Numbering /\ Unloaded.next = 1 /\ Unloaded.reserved = 1
    BY DEF Unloaded, Numbering
  <2>2. QED
    BY <2>1, ConstantsOK DEF Init, TypeOK, Steps
<1>2. MemoriesSound
  <2>1. ASSUME NEW e \in Engines
        PROVE  Sound(numbers[e], e)
    <3>1. numbers[e] = Unloaded
      BY DEF Init
    <3>2. 1 \in Counted
      BY ConstantsOK DEF Counted
    <3>3. Unloaded \in Memory
      BY <3>2 DEF Unloaded, Memory, Numbering
    <3>4. Larger(disk, 1) >= 1
      BY DEF Init, Larger
    <3>5. \A other \in Engines : Apart(Unloaded, numbers[other])
      BY DEF Unloaded, Apart
    <3>6. Unloaded.reserved = 1 /\ Unloaded.by_path = {} /\ Unloaded.paths = {}
      BY DEF Unloaded
    <3>7. QED
      BY <3>1, <3>3, <3>4, <3>5, <3>6 DEF Sound, Clear, OneNumberEach, Init
  <2>2. QED
    BY <2>1 DEF MemoriesSound
<1>3. /\ IndexIsGiven /\ GivenIsReserved /\ NumberNeverReused
      /\ OneNumberPerBook
  BY DEF Init, IndexIsGiven, GivenIsReserved, NumberNeverReused,
     OneNumberPerBook, OneNumberEach
<1>4. LockOK
  BY DEF Init, LockOK
<1>5. WriterIsCurrent /\ WriterKnows
  BY DEF Init, WriterIsCurrent, WriterKnows, Writing, HasWriter
<1>6. QED
  BY <1>1, <1>2, <1>3, <1>4, <1>5 DEF IInv

LEMMA Stutters ==
  ASSUME IInv, UNCHANGED vars
  PROVE  IInv'
<1>1. UNCHANGED <<disk, numbers, reading, given, failedReads, committed, pending,
                  stale, step, closed, lock, reader>>
  BY DEF vars
<1>2. \A e \in Engines : Writing(e)' <=> Writing(e)
  BY <1>1 DEF Writing, HasWriter, Idle
<1>3. LockOK' /\ OneNumberPerBook'
  BY <1>1, Before, OnePerBookAfter DEF LockOK
<1>4. QED
  BY <1>1, <1>2, <1>3, Before, QuietStep

\* IInv is inductive, as long as at most one read of the file fails.
LEMMA Inductive ==
  ASSUME IInv, OneFailure, [Next]_vars
  PROVE  IInv'
<1>1. CASE UNCHANGED vars
  BY <1>1, Stutters
<1>2. CASE Next
  <2>1. PICK e \in Engines :
          \/ \E p \in Paths : \/ UseKnownNumber(e, p)
                              \/ UseReservedNumber(e, p)
                              \/ ReserveAndUse(e, p)
                              \/ RefuseNumber(e, p)
                              \/ CrashReserving(e, p)
          \/ TakeoverFails(e)
          \/ ReadSegments(e) \/ RecordSegments(e) \/ Reload(e)
          \/ OpenWriter(e) \/ CloseWriter(e) \/ Commit(e) \/ Rollback(e)
          \/ \E gone \in SUBSET Paths : DeleteBooks(e, gone)
          \/ OptimizeFlush(e) \/ OptimizeFlushFails(e)
          \/ OptimizeOpen(e) \/ OptimizeMerged(e)
          \/ EconomyFlush(e) \/ EconomyUndo(e)
          \/ RestoreWriter(e) \/ RestoreBusy(e)
          \/ Crash(e)
    BY <1>2 DEF Next
  <2>2. CASE \E p \in Paths : \/ UseKnownNumber(e, p)
                              \/ UseReservedNumber(e, p)
                              \/ ReserveAndUse(e, p)
                              \/ RefuseNumber(e, p)
                              \/ CrashReserving(e, p)
    BY <2>2, UseKnownNumberStep, HandOutStep, RefuseNumberStep, CrashReservingStep
  <2>3. CASE TakeoverFails(e) \/ ReadSegments(e) \/ RecordSegments(e) \/ Reload(e)
    BY <2>3, TakeoverFailsStep, ReadSegmentsStep, RecordSegmentsStep, ReloadStep
  <2>4. CASE OpenWriter(e) \/ CloseWriter(e)
    BY <2>4, OpenWriterStep, CloseWriterStep
  <2>5. CASE Commit(e) \/ Rollback(e) \/ \E gone \in SUBSET Paths : DeleteBooks(e, gone)
    BY <2>5, WriterOpStep
  <2>6. CASE OptimizeFlush(e) \/ OptimizeFlushFails(e) \/ EconomyFlush(e)
    BY <2>6, ReleaseStep
  <2>7. CASE OptimizeOpen(e) \/ OptimizeMerged(e) \/ EconomyUndo(e) \/ RestoreBusy(e)
    BY <2>7, BetweenWritersStep
  <2>8. CASE RestoreWriter(e) \/ Crash(e)
    BY <2>8, RestoreWriterStep, CrashStep
  <2>9. QED
    BY <2>1, <2>2, <2>3, <2>4, <2>5, <2>6, <2>7, <2>8
<1>3. QED
  BY <1>1, <1>2

LEMMA AlwaysIInv ==
  ASSUME OneFailure
  PROVE  Spec => []IInv
<1>1. Init => IInv
  BY Initially
<1>2. IInv /\ [Next]_vars => IInv'
  BY Inductive
<1>3. QED
  BY <1>1, <1>2, PTL DEF Spec

\* Every variable keeps its type (the structs of book_order.rs, counted in u32).
THEOREM TypeCorrect ==
  ASSUME OneFailure
  PROVE  Spec => []TypeOK
<1>1. IInv => TypeOK
  BY DEF IInv
<1>2. QED
  BY <1>1, AlwaysIInv, PTL

\* No number is ever handed out to two books (BookNumbers::number_for),
\* whatever number of engines, crashes, rollbacks and deletions.
THEOREM NeverReused ==
  ASSUME OneFailure
  PROVE  Spec => []NumberNeverReused
<1>1. IInv => NumberNeverReused
  BY DEF IInv
<1>2. QED
  BY <1>1, AlwaysIInv, PTL

\* No number is 0 or u32::MAX (BookNumbers::number_for, numbers_in_segments).
THEOREM Readback ==
  ASSUME OneFailure
  PROVE  Spec => []NumbersReadable
<1>1. ASSUME IInv PROVE NumbersReadable
  <2>1. \A g \in given : g[2] \in Nat /\ 1 <= g[2] /\ g[2] < disk
    BY <1>1, Types DEF IInv, GivenIsReserved
  <2>2. QED
    BY <1>1, <2>1, Types DEF NumbersReadable
<1>2. QED
  BY <1>1, AlwaysIInv, PTL

\* The index holds each book under one number (BookNumbers::catch_up).
THEOREM OneNumberInIndex ==
  ASSUME OneFailure
  PROVE  Spec => []OneNumberPerBook
<1>1. IInv => OneNumberPerBook
  BY DEF IInv
<1>2. QED
  BY <1>1, AlwaysIInv, PTL

\* The books a search sorts by are the ones their numbers were given to
\* (SearchEngine::order_tables).
THEOREM TablesAgree ==
  ASSUME OneFailure
  PROVE  Spec => []TablesNameTheBook
<1>1. ASSUME IInv PROVE TablesNameTheBook
  <2>1. \A e \in Engines : numbers[e].paths \subseteq given
    BY <1>1 DEF IInv, MemoriesSound, Sound
  <2>2. QED
    BY <1>1, <2>1 DEF IInv, NumberNeverReused, TablesNameTheBook
<1>2. QED
  BY <1>1, AlwaysIInv, PTL

\* Only a step that stores a reservation writes the file, and it stores more
\* than was there.
LEMMA DiskStep ==
  ASSUME IInv, OneFailure, NEW e \in Engines, NEW p \in Paths,
         ReserveAndUse(e, p) \/ CrashReserving(e, p)
  PROVE  disk' >= disk
<1>1. PICK f, nb, n :
        /\ f \in Failures
        /\ nb = synchronised(e, f) /\ n = candidate(nb, f)
        /\ CalledForNew(e, p, f) /\ n >= nb.reserved
        /\ CountFailures(f)
        /\ disk' = Saturated(n + Reservation)
  BY DEF ReserveAndUse, CrashReserving, HandOut, Synchronise
<1>2. Called(e, f) /\ (f.next => nb.next >= nb.reserved)
  BY <1>1 DEF CalledForNew
<1>3. nb \in Memory /\ Current(nb, Earlier(f))
  BY <1>1, <1>2, SynchronisedOK DEF Sound
<1>4. n \in Counted /\ n \in Nat /\ n >= disk
  BY <1>1, <1>2, <1>3, CandidateOK
<1>5. QED
  BY <1>1, <1>4, Types DEF Saturated, Counted

\* The reservation file never goes back (BookNumbers::number_for).
THEOREM ReservationGrows ==
  ASSUME OneFailure
  PROVE  Spec => ReservationNeverShrinks
<1>1. ASSUME IInv, [Next]_vars PROVE [disk' >= disk]_disk
  <2>1. \/ disk' = disk
        \/ \E e \in Engines, p \in Paths : ReserveAndUse(e, p) \/ CrashReserving(e, p)
    BY <1>1 DEF Next, vars, UseKnownNumber, UseReservedNumber, RefuseNumber,
       TakeoverFails, ReadSegments, RecordSegments, Reload, OpenWriter,
       CloseWriter, Commit, Rollback, DeleteBooks, OptimizeFlush,
       OptimizeFlushFails, OptimizeOpen, OptimizeMerged, EconomyFlush,
       EconomyUndo, RestoreWriter, RestoreBusy, Crash, FlushAndRelease
  <2>2. QED
    BY <1>1, <2>1, DiskStep
<1>2. QED
  BY <1>1, AlwaysIInv, PTL DEF Spec, ReservationNeverShrinks

\* A commit publishes what was pending, or nothing changes.
LEMMA CommittedStep ==
  ASSUME [Next]_vars
  PROVE  committed' = committed \/ committed' = pending
<1>1. CASE UNCHANGED vars
  BY <1>1 DEF vars
<1>2. ASSUME NEW e \in Engines, NEW p \in Paths,
             \/ UseKnownNumber(e, p) \/ UseReservedNumber(e, p)
             \/ ReserveAndUse(e, p)
             \/ RefuseNumber(e, p) \/ CrashReserving(e, p)
      PROVE  committed' = committed
  BY <1>2 DEF UseKnownNumber, UseReservedNumber, ReserveAndUse, HandOut,
     RefuseNumber, CrashReserving
<1>3. ASSUME NEW e \in Engines,
             \/ TakeoverFails(e)
             \/ ReadSegments(e) \/ RecordSegments(e) \/ Reload(e)
             \/ OpenWriter(e) \/ CloseWriter(e) \/ Commit(e) \/ Rollback(e)
             \/ \E gone \in SUBSET Paths : DeleteBooks(e, gone)
             \/ Crash(e)
      PROVE  committed' = committed \/ committed' = pending
  BY <1>3 DEF TakeoverFails, ReadSegments, RecordSegments, Reload, OpenWriter,
     CloseWriter, Commit, Rollback, DeleteBooks, Crash
<1>4. ASSUME NEW e \in Engines,
             \/ OptimizeFlush(e) \/ OptimizeFlushFails(e)
             \/ OptimizeOpen(e) \/ OptimizeMerged(e)
             \/ EconomyFlush(e) \/ EconomyUndo(e)
             \/ RestoreWriter(e) \/ RestoreBusy(e)
      PROVE  committed' = committed \/ committed' = pending
  BY <1>4 DEF OptimizeFlush, OptimizeFlushFails, OptimizeOpen, OptimizeMerged,
     EconomyFlush, EconomyUndo, RestoreWriter, RestoreBusy, FlushAndRelease
<1>5. QED
  BY <1>1, <1>2, <1>3, <1>4 DEF Next

LEMMA CommitKeepsNumbers ==
  ASSUME IInv, [Next]_vars
  PROVE  \A b \in committed, c \in committed' : b[1] = c[1] => b[2] = c[2]
<1>1. CASE \E e \in Engines : Writing(e)
  <2>1. PICK e \in Engines : Writing(e)
    BY <1>1
  <2>2. /\ committed \cup pending \subseteq numbers[e].by_path
        /\ OneNumberEach(numbers[e].by_path)
    BY <2>1 DEF IInv, WriterKnows, MemoriesSound, Sound
  <2>3. QED
    BY <2>2, CommittedStep DEF OneNumberEach
<1>2. CASE \A e \in Engines : ~Writing(e)
  BY <1>2, Before, CommittedStep DEF OneNumberEach
<1>3. QED
  BY <1>1, <1>2

\* A book that stays in the index keeps its number, whichever engines commit
\* (BookNumbers::catch_up, SearchEngine::commit).
THEOREM LiveBooksKeepNumbers ==
  ASSUME OneFailure
  PROVE  Spec => LiveBookKeepsNumber
<1>1. IInv /\ [Next]_vars =>
        [\A b \in committed, c \in committed' : b[1] = c[1] => b[2] = c[2]]_committed
  BY CommitKeepsNumbers
<1>2. QED
  BY <1>1, AlwaysIInv, PTL DEF Spec, LiveBookKeepsNumber

\* A step that hands a number out hands out one nobody has, and commits
\* nothing.
LEMMA GivenStep ==
  ASSUME IInv, OneFailure, [Next]_vars
  PROVE  \/ given' = given
         \/ /\ committed' = committed
            /\ \E p \in Paths, n \in 1 .. (MaxNumber - 1) :
                 /\ \A g \in given : g[2] # n
                 /\ given' = given \cup {<<p, n>>}
<1>1. CASE UNCHANGED vars
  BY <1>1 DEF vars
<1>2. ASSUME NEW e \in Engines, NEW p \in Paths,
             UseReservedNumber(e, p) \/ ReserveAndUse(e, p)
      PROVE  /\ committed' = committed
             /\ \E n \in 1 .. (MaxNumber - 1) :
                  /\ \A g \in given : g[2] # n
                  /\ given' = given \cup {<<p, n>>}
  <2>1. PICK f, nb, n :
          /\ f \in Failures
          /\ nb = synchronised(e, f) /\ n = candidate(nb, f)
          /\ CalledForNew(e, p, f) /\ n # MaxNumber
          /\ CountFailures(f)
          /\ committed' = committed
          /\ given' = given \cup {<<p, n>>}
    BY <1>2 DEF UseReservedNumber, ReserveAndUse, HandOut, Synchronise, Exhausted
  <2>2. Called(e, f) /\ (f.next => nb.next >= nb.reserved)
    BY <2>1 DEF CalledForNew
  <2>3. /\ nb \in Memory /\ Current(nb, Earlier(f)) /\ Clear(nb, given)
    BY <2>1, <2>2, SynchronisedOK DEF Sound
  <2>4. /\ n \in Counted /\ n \in Nat /\ n >= nb.next
        /\ n < nb.reserved => n = nb.next
        /\ n >= nb.reserved => n >= disk
    BY <2>1, <2>2, <2>3, CandidateOK
  <2>5. n \in 1 .. (MaxNumber - 1)
    BY <2>1, <2>4, Types DEF Counted
  <2>6. ASSUME NEW g \in given PROVE g[2] # n
    <3>1. g[2] \in Nat /\ g[2] < disk
      BY Types DEF IInv, GivenIsReserved
    <3>2. g[2] < nb.next \/ g[2] >= nb.reserved
      BY <2>3 DEF Clear
    <3>3. QED
      BY <2>3, <2>4, <3>1, <3>2, MemoryTypes, Types
  <2>7. QED
    BY <2>1, <2>5, <2>6
<1>3. ASSUME NEW e \in Engines, NEW p \in Paths,
             UseKnownNumber(e, p) \/ RefuseNumber(e, p) \/ CrashReserving(e, p)
      PROVE  given' = given
  BY <1>3 DEF UseKnownNumber, RefuseNumber, CrashReserving
<1>4. ASSUME NEW e \in Engines,
             \/ TakeoverFails(e)
             \/ ReadSegments(e) \/ RecordSegments(e) \/ Reload(e)
             \/ OpenWriter(e) \/ CloseWriter(e) \/ Commit(e) \/ Rollback(e)
             \/ \E gone \in SUBSET Paths : DeleteBooks(e, gone)
             \/ Crash(e)
      PROVE  given' = given
  BY <1>4 DEF TakeoverFails, ReadSegments, RecordSegments, Reload, OpenWriter,
     CloseWriter, Commit, Rollback, DeleteBooks, Crash
<1>5. ASSUME NEW e \in Engines,
             \/ OptimizeFlush(e) \/ OptimizeFlushFails(e)
             \/ OptimizeOpen(e) \/ OptimizeMerged(e)
             \/ EconomyFlush(e) \/ EconomyUndo(e)
             \/ RestoreWriter(e) \/ RestoreBusy(e)
      PROVE  given' = given
  BY <1>5 DEF OptimizeFlush, OptimizeFlushFails, OptimizeOpen, OptimizeMerged,
     EconomyFlush, EconomyUndo, RestoreWriter, RestoreBusy, FlushAndRelease
<1>6. QED
  BY <1>1, <1>2, <1>3, <1>4, <1>5 DEF Next

\* The engines implement the registry: each step of theirs gives one unused
\* number, publishes an index of given books, or is not seen.
THEOREM Implements ==
  ASSUME OneFailure
  PROVE  Spec => ImplementsRegistry
<1>1. Init => Registry!RegistryInit
  BY DEF Init, Registry!RegistryInit
<1>2. ASSUME IInv, IInv', [Next]_vars
      PROVE  [Registry!RegistryNext]_<<given, committed>>
  <2>1. CASE given' = given
    <3>1. committed' \in SUBSET given
      BY <1>2, <2>1, CommittedStep, Before
    <3>2. Registry!OneNumberEach(committed')
      BY <1>2 DEF IInv, OneNumberPerBook, Registry!OneNumberEach
    <3>3. Registry!Kept(committed, committed')
      BY <1>2, CommitKeepsNumbers DEF Registry!Kept
    <3>4. Registry!Publish
      BY <2>1, <3>1, <3>2, <3>3 DEF Registry!Publish
    <3>5. QED
      BY <3>4 DEF Registry!RegistryNext
  <2>2. CASE given' # given
    <3>1. PICK p \in Paths, n \in 1 .. (MaxNumber - 1) :
            /\ committed' = committed
            /\ \A g \in given : g[2] # n
            /\ given' = given \cup {<<p, n>>}
      BY <1>2, <2>2, GivenStep
    <3>2. Registry!Assign(p, n)
      BY <3>1 DEF Registry!Assign
    <3>3. QED
      BY <3>2 DEF Registry!RegistryNext, Registry!Numbers
  <2>3. QED
    BY <2>1, <2>2
<1>3. QED
  BY <1>1, <1>2, AlwaysIInv, PTL DEF Spec, ImplementsRegistry, Registry!RegistrySpec
=============================================================================
