---------------------------- MODULE BookNumbers -----------------------------
(***************************************************************************)
(* The numbers several engines give the books of one index.                *)
(*                                                                         *)
(* An engine is one SearchEngine, in this process or another one, open on  *)
(* the same index directory.  Each keeps its own memory of the numbers     *)
(* (struct BookNumbers); what they share is the index (its last commit),   *)
(* the writer lock and the reservation file otzaria_book_numbers.json.     *)
(* A number may be handed out only under the writer lock, but what an      *)
(* engine knows when it gets the lock may be out of date: other engines    *)
(* wrote, rolled back or crashed since.  Search threads of the engine that *)
(* writes record the numbers of old snapshots at the same time.            *)
(*                                                                         *)
(* A book is a pair <<path, number>>; its lines are not modelled.          *)
(***************************************************************************)
EXTENDS Naturals, FiniteSetsExt

CONSTANTS
  Engines,          \* the engines open on the index
  Searching,        \* those whose application runs sorted searches on them
  Maintaining,      \* those it optimizes or switches economy indexing on
  Paths,            \* the books, by filePath
  NoEngine,         \* nobody holds the writer lock
  MaxNumber,        \* u32::MAX; numbers saturate at it
  Reservation,      \* NUMBER_RESERVATION
  MaxReadFailures   \* bound: how many reads of the reservation file may fail

ASSUME ConstantsOK ==
  /\ MaxNumber \in Nat /\ MaxNumber > 1
  /\ Reservation \in Nat /\ Reservation > 0
  /\ MaxReadFailures \in Nat
  /\ NoEngine \notin Engines
  /\ Searching \subseteq Engines /\ Maintaining \subseteq Engines

VARIABLES
  disk,         \* `reserved` in the reservation file; 0 while there is none
  committed,    \* the live books of the last commit
  pending,      \* the live books the open writer would commit
  lock,         \* the engine holding tantivy's writer lock, or NoEngine
  step,         \* how far an engine is through replacing its own writer
  closed,       \* writer_closed
  stale,        \* numbers_stale
  numbers,      \* book_numbers
  reader,       \* the books of the snapshot index_reader serves
  reading,      \* the books a search found in its snapshot and has yet to record
  failedReads,  \* how many reads of the reservation file failed so far
  given         \* history: every <<path, number>> ever handed out

vars == <<disk, committed, pending, lock, step, closed, stale, numbers,
          reader, reading, failedReads, given>>

-----------------------------------------------------------------------------
(* The numbers one engine knows (struct BookNumbers).                      *)

Books == Paths \X Nat

Numbering == [loaded : BOOLEAN, by_path : SUBSET Books, paths : SUBSET Books,
              next : Nat, reserved : Nat]

Larger(a, b) == IF a >= b THEN a ELSE b

Saturated(n) == IF n >= MaxNumber THEN MaxNumber ELSE n

\* Not looked at yet: Mutex<Option<BookNumbers>> is None.
Unloaded == [loaded |-> FALSE, by_path |-> {}, paths |-> {},
             next |-> 1, reserved |-> 1]

\* No book known, and the reservation as it was read.
new(read) == [loaded |-> TRUE, by_path |-> {}, paths |-> {},
              next |-> Larger(read, 1), reserved |-> Larger(read, 1)]

\* A file that cannot be read, or is not there, reserves nothing.
read_reservation(failed) == IF failed THEN 0 ELSE disk

\* The books found in a set of segments: each under its lowest number, and
\* only under a number that can be half of a document id.
numbers_in_segments(S) ==
  {b \in S : /\ b[2] >= 1 /\ b[2] < MaxNumber
             /\ \A c \in S : c[1] = b[1] => b[2] <= c[2]}

KnowsPath(S, p) == \E b \in S : b[1] = p
KnowsNumber(S, n) == \E b \in S : b[2] = n

\* Records found books: a number or a path already known keeps what it has.
absorb(nb, found) ==
  [nb EXCEPT
     !.by_path = @ \cup {b \in found : ~KnowsPath(nb.by_path, b[1])},
     !.paths = @ \cup {b \in found : ~KnowsNumber(nb.paths, b[2])},
     !.next = Max({@} \cup {Saturated(b[2] + 1) : b \in found})]

\* A new writer takes in the last commit, whose numbers win over its own
\* memory, and the reservation as it was read.
catch_up(nb, snapshot, read) ==
  LET found == numbers_in_segments(snapshot)
      live == [nb EXCEPT !.by_path =
                 {b \in @ : ~KnowsPath(found, b[1])} \cup found]
  IN  [absorb(live, found) EXCEPT !.next = Larger(@, read),
                                  !.reserved = Larger(@, read)]

-----------------------------------------------------------------------------
(* What an engine's calls exclude.  A call on `&mut self` runs alone; only *)
(* calls on `&self` (searches and add_library_books) overlap.              *)

Steps == {"idle", "maintenance", "merging", "restoring", "failed", "replacing"}

Idle(e) == step[e] = "idle"
Exclusive(e) == Idle(e) /\ reading[e] = {}
HasWriter(e) == lock = e /\ Idle(e)      \* index_writer is Some

\* index_reader moves to the snapshot S; only a search looks at it.
Serve(e, S) == [reader EXCEPT ![e] = IF e \in Searching THEN S ELSE @]

\* Which of the reads of the reservation file one call may make fail: the one
\* of `new`, of catch_up and of number_for.
Failures == [new : BOOLEAN, takeover : BOOLEAN, next : BOOLEAN]

Failed(failed) == IF failed THEN 1 ELSE 0

\* The reads that fail are counted against their bound.
CountFailures(f) ==
  /\ failedReads' = failedReads + Failed(f.new) + Failed(f.takeover) + Failed(f.next)
  /\ failedReads' <= MaxReadFailures

Init ==
  /\ disk = 0
  /\ committed = {} /\ pending = {} /\ given = {}
  /\ lock = NoEngine
  /\ step = [e \in Engines |-> "idle"]
  /\ closed = [e \in Engines |-> FALSE]
  /\ stale = [e \in Engines |-> TRUE]
  /\ numbers = [e \in Engines |-> Unloaded]
  /\ reader = [e \in Engines |-> {}]
  /\ reading = [e \in Engines |-> {}]
  /\ failedReads = 0

-----------------------------------------------------------------------------
(* Handing out numbers: book_number and BookNumbers::number_for.           *)

\* The engine's memory, created at its first use.
loaded(e, failed) ==
  IF numbers[e].loaded THEN numbers[e] ELSE new(read_reservation(failed))

\* Mutant of synchronised: a newly taken writer is not brought up to date.
unsynchronised(e, f) == loaded(e, f.new)

\* The memory number_for works on: up to date if the writer is newly taken.
synchronised(e, f) ==
  IF stale[e]
  THEN catch_up(loaded(e, f.new), committed, read_reservation(f.takeover))
  ELSE loaded(e, f.new)

\* The number a book not seen before would get.
candidate(nb, f) ==
  IF nb.next >= nb.reserved THEN Larger(nb.next, read_reservation(f.next))
                            ELSE nb.next

\* Mutant of Exhausted: one too far.
ExhaustedLate(n) == n > MaxNumber

\* u32::MAX cannot be half of a document id.
Exhausted(n) == n = MaxNumber

\* book_number is called with the writer open; f says which reads fail, of
\* those it makes.
Called(e, f) ==
  /\ HasWriter(e)
  /\ f.new => ~numbers[e].loaded
  /\ f.takeover => stale[e]

\* ... for a book this engine knows no number of.
CalledForNew(e, p, f) ==
  LET nb == synchronised(e, f)
  IN  /\ Called(e, f)
      /\ ~KnowsPath(nb.by_path, p)
      /\ f.next => nb.next >= nb.reserved

\* Once it synchronised, the writer is not stale and the reader is at the
\* last commit.
Synchronise(e, f) ==
  /\ reader' = IF stale[e] THEN Serve(e, committed) ELSE reader
  /\ stale' = [stale EXCEPT ![e] = FALSE]
  /\ CountFailures(f)

\* The caller writes documents of the book, or fails before it does.
Write(b) == pending' \in {pending, pending \cup {b}}

\* The book has a number already.
UseKnownNumber(e, p) ==
  \E f \in Failures :
    /\ Called(e, f) /\ ~f.next
    /\ \E b \in synchronised(e, f).by_path : b[1] = p /\ Write(b)
    /\ numbers' = [numbers EXCEPT ![e] = synchronised(e, f)]
    /\ Synchronise(e, f)
    /\ UNCHANGED <<disk, committed, lock, step, closed, reading, given>>

\* Handing out n, once it is below what is reserved.
HandOut(e, p, f, n, reserved) ==
  /\ Synchronise(e, f)
  /\ numbers' = [numbers EXCEPT ![e] =
                   [absorb([synchronised(e, f) EXCEPT !.next = n], {<<p, n>>})
                      EXCEPT !.reserved = reserved]]
  /\ given' = given \cup {<<p, n>>}
  /\ Write(<<p, n>>)
  /\ UNCHANGED <<committed, lock, step, closed, reading>>

\* The number is one this engine reserved earlier.
UseReservedNumber(e, p) ==
  \E f \in Failures :
    LET nb == synchronised(e, f)
        n == candidate(nb, f)
    IN  /\ CalledForNew(e, p, f) /\ ~Exhausted(n)
        /\ n < nb.reserved
        /\ HandOut(e, p, f, n, nb.reserved)
        /\ UNCHANGED disk

\* Mutant of ReserveAndUse: the reservation is kept in memory only.
ReserveInMemory(e, p) ==
  \E f \in Failures :
    LET nb == synchronised(e, f)
        n == candidate(nb, f)
    IN  /\ CalledForNew(e, p, f) /\ ~Exhausted(n)
        /\ n >= nb.reserved
        /\ HandOut(e, p, f, n, Saturated(n + Reservation))
        /\ UNCHANGED disk

\* The number starts a new reservation, stored before the number is used.
ReserveAndUse(e, p) ==
  \E f \in Failures :
    LET nb == synchronised(e, f)
        n == candidate(nb, f)
    IN  /\ CalledForNew(e, p, f) /\ ~Exhausted(n)
        /\ n >= nb.reserved
        /\ disk' = Saturated(n + Reservation)
        /\ HandOut(e, p, f, n, Saturated(n + Reservation))

\* Mutant of RefuseNumber: the book is recorded before the file is written.
RefuseRecorded(e, p) ==
  \E f \in Failures :
    LET nb == synchronised(e, f)
        n == candidate(nb, f)
    IN  /\ CalledForNew(e, p, f)
        /\ Exhausted(n) \/ n >= nb.reserved
        /\ numbers' = [numbers EXCEPT ![e] = absorb(nb, {<<p, n>>})]
        /\ Synchronise(e, f)
        /\ UNCHANGED <<disk, committed, pending, lock, step, closed, reading,
                       given>>

\* No number is left, or the reservation cannot be stored: an error, after
\* the engine synchronised and moved past what others reserved.
RefuseNumber(e, p) ==
  \E f \in Failures :
    LET nb == synchronised(e, f)
        n == candidate(nb, f)
    IN  /\ CalledForNew(e, p, f)
        /\ Exhausted(n) \/ n >= nb.reserved
        /\ numbers' = [numbers EXCEPT ![e] = [nb EXCEPT !.next = n]]
        /\ Synchronise(e, f)
        /\ UNCHANGED <<disk, committed, pending, lock, step, closed, reading,
                       given>>

\* Reading the last commit fails: the takeover stays due.
TakeoverFails(e) ==
  \E f \in Failures :
    /\ Called(e, f) /\ stale[e] /\ ~f.takeover /\ ~f.next
    /\ CountFailures(f)
    /\ numbers' = [numbers EXCEPT ![e] = loaded(e, f.new)]
    /\ reader' \in {reader, Serve(e, committed)}
    /\ UNCHANGED <<disk, committed, pending, lock, step, closed, stale,
                   reading, given>>

-----------------------------------------------------------------------------
(* The other writes.                                                       *)

\* Mutant of OpenWriter: the engine believes it is up to date.
OpenTrusting(e) ==
  /\ Exclusive(e) /\ lock = NoEngine /\ ~closed[e]
  /\ lock' = e
  /\ pending' = committed
  /\ UNCHANGED <<disk, committed, step, closed, stale, numbers, reader,
                 reading, failedReads, given>>

\* ensure_writer: fails while another engine has the lock, or once closed.
OpenWriter(e) ==
  /\ Exclusive(e) /\ lock = NoEngine /\ ~closed[e]
  /\ lock' = e
  /\ pending' = committed
  /\ stale' = [stale EXCEPT ![e] = TRUE]
  /\ UNCHANGED <<disk, committed, step, closed, numbers, reader, reading,
                 failedReads, given>>

\* Without committing, and for good.
CloseWriter(e) ==
  /\ Exclusive(e)
  /\ closed' = [closed EXCEPT ![e] = TRUE]
  /\ lock' = IF lock = e THEN NoEngine ELSE lock
  /\ pending' = IF lock = e THEN committed ELSE pending
  /\ UNCHANGED <<disk, committed, step, stale, numbers, reader, reading,
                 failedReads, given>>

DeleteBooks(e, gone) ==
  /\ HasWriter(e) /\ Exclusive(e)
  /\ pending' = {b \in pending : b[1] \notin gone}
  /\ UNCHANGED <<disk, committed, lock, step, closed, stale, numbers, reader,
                 reading, failedReads, given>>

\* The reload after the commit may fail.
Commit(e) ==
  /\ HasWriter(e) /\ Exclusive(e)
  /\ committed' = pending
  /\ reader' \in {reader, Serve(e, pending)}
  /\ UNCHANGED <<disk, pending, lock, step, closed, stale, numbers, reading,
                 failedReads, given>>

Rollback(e) ==
  /\ HasWriter(e) /\ Exclusive(e)
  /\ pending' = committed
  /\ UNCHANGED <<disk, committed, lock, step, closed, stale, numbers, reader,
                 reading, failedReads, given>>

-----------------------------------------------------------------------------
(* Calls that give the writer lock up and take it back: optimize and       *)
(* set_economy_indexing.  Between the writers any engine may take it.      *)

\* The writer is taken out of the engine, committed and closed.
FlushAndRelease ==
  /\ committed' = pending
  /\ lock' = NoEngine
  /\ UNCHANGED <<disk, pending, closed, numbers, reader, reading, failedReads,
                 given>>

\* optimize takes the writer, opening one if it must (take_writer).
MayOptimize(e) ==
  /\ Exclusive(e)
  /\ \/ lock = e
     \/ lock = NoEngine /\ ~closed[e] /\ committed # {}
  /\ stale' = IF lock = e THEN stale ELSE [stale EXCEPT ![e] = TRUE]

OptimizeFlush(e) ==
  /\ MayOptimize(e)
  /\ step' = [step EXCEPT ![e] = "maintenance"]
  /\ FlushAndRelease

\* Its commit fails: the taken writer is dropped with what it had pending.
OptimizeFlushFails(e) ==
  /\ MayOptimize(e)
  /\ step' = [step EXCEPT ![e] = "failed"]
  /\ pending' = committed
  /\ lock' = NoEngine
  /\ UNCHANGED <<disk, committed, closed, numbers, reader, reading,
                 failedReads, given>>

\* optimize_committed_segments opens a second writer, if it still can.
OptimizeOpen(e) ==
  /\ step[e] = "maintenance"
  /\ lock' = IF lock = NoEngine THEN e ELSE lock
  /\ step' = [step EXCEPT ![e] = IF lock = NoEngine THEN "merging" ELSE "failed"]
  /\ UNCHANGED <<disk, committed, pending, closed, stale, numbers, reader,
                 reading, failedReads, given>>

\* The merges keep the live books as they are, and may fail.
OptimizeMerged(e) ==
  /\ step[e] = "merging"
  /\ lock' = NoEngine
  /\ \E after \in {"restoring", "failed"} : step' = [step EXCEPT ![e] = after]
  /\ UNCHANGED <<disk, committed, pending, closed, stale, numbers, reader,
                 reading, failedReads, given>>

\* set_economy_indexing changes the size of a live writer; if closing the old
\* one fails, the call ends there with no writer.
EconomyFlush(e) ==
  /\ Exclusive(e) /\ lock = e
  /\ step' \in {step, [step EXCEPT ![e] = "replacing"]}
  /\ UNCHANGED stale
  /\ FlushAndRelease

\* Mutant of RestoreWriter: the engine believes nobody wrote meanwhile.
RestoreTrusting(e) ==
  /\ step[e] \in {"restoring", "failed", "replacing"} /\ lock = NoEngine
  /\ lock' = e
  /\ pending' = committed
  /\ reader' = IF step[e] = "failed" THEN reader ELSE Serve(e, committed)
  /\ step' = [step EXCEPT ![e] = "idle"]
  /\ UNCHANGED <<disk, committed, closed, stale, numbers, reading, failedReads,
                 given>>

\* restore_writer, then a reload unless what came before had failed.
RestoreWriter(e) ==
  /\ step[e] \in {"restoring", "failed", "replacing"} /\ lock = NoEngine
  /\ lock' = e
  /\ pending' = committed
  /\ stale' = [stale EXCEPT ![e] = TRUE]
  /\ reader' = IF step[e] = "failed" THEN reader ELSE Serve(e, committed)
  /\ step' = [step EXCEPT ![e] = "idle"]
  /\ UNCHANGED <<disk, committed, closed, numbers, reading, failedReads, given>>

\* Another engine was faster: the call fails and leaves no writer.
RestoreBusy(e) ==
  /\ step[e] \in {"restoring", "failed", "replacing"} /\ lock # NoEngine
  /\ step' = [step EXCEPT ![e] = "idle"]
  /\ UNCHANGED <<disk, committed, pending, lock, closed, stale, numbers,
                 reader, reading, failedReads, given>>

\* The reload after economy's new writer fails: that writer is closed, and
\* one of the previous size restored.
EconomyUndo(e) ==
  /\ step[e] = "replacing" /\ lock = NoEngine
  /\ step' = [step EXCEPT ![e] = "failed"]
  /\ stale' = [stale EXCEPT ![e] = TRUE]
  /\ UNCHANGED <<disk, committed, pending, lock, closed, numbers, reader,
                 reading, failedReads, given>>

-----------------------------------------------------------------------------
(* Snapshots, searches and crashes.                                        *)

\* The index reader follows commits on its own (OnCommitWithDelay).
Reload(e) ==
  /\ reader[e] # committed
  /\ reader' = Serve(e, committed)
  /\ UNCHANGED <<disk, committed, pending, lock, step, closed, stale, numbers,
                 reading, failedReads, given>>

\* order_tables reads the segments of its snapshot not read before ...
ReadSegments(e) ==
  \E f \in Failures, unread \in SUBSET reader[e] :
    /\ Exclusive(e)
    /\ (f.new => ~numbers[e].loaded) /\ ~f.takeover /\ ~f.next
    /\ CountFailures(f)
    /\ numbers' = [numbers EXCEPT ![e] = loaded(e, f.new)]
    /\ reading' = [reading EXCEPT ![e] = numbers_in_segments(unread)]
    /\ UNCHANGED <<disk, committed, pending, lock, step, closed, stale, reader,
                   given>>

\* ... and records their books later, when the index may have moved on.
RecordSegments(e) ==
  /\ reading[e] # {}
  /\ numbers' = [numbers EXCEPT ![e] = absorb(@, reading[e])]
  /\ reading' = [reading EXCEPT ![e] = {}]
  /\ UNCHANGED <<disk, committed, pending, lock, step, closed, stale, reader,
                 failedReads, given>>

\* The engine's process dies and another opens the index in its place.
Restart(e) ==
  /\ lock' = IF lock = e THEN NoEngine ELSE lock
  /\ pending' = IF lock = e THEN committed ELSE pending
  /\ step' = [step EXCEPT ![e] = "idle"]
  /\ closed' = [closed EXCEPT ![e] = FALSE]
  /\ stale' = [stale EXCEPT ![e] = TRUE]
  /\ numbers' = [numbers EXCEPT ![e] = Unloaded]
  /\ reader' = Serve(e, committed)
  /\ reading' = [reading EXCEPT ![e] = {}]

Crash(e) == Restart(e) /\ UNCHANGED <<disk, committed, failedReads, given>>

\* It dies after a reservation is stored and before the number is used.
CrashReserving(e, p) ==
  \E f \in Failures :
    LET nb == synchronised(e, f)
        n == candidate(nb, f)
    IN  /\ CalledForNew(e, p, f) /\ ~Exhausted(n)
        /\ n >= nb.reserved
        /\ disk' = Saturated(n + Reservation)
        /\ CountFailures(f)
        /\ Restart(e)
        /\ UNCHANGED <<committed, given>>

-----------------------------------------------------------------------------
Next ==
  \E e \in Engines :
    \/ \E p \in Paths : \/ UseKnownNumber(e, p)
                        \/ UseReservedNumber(e, p)
                        \/ ReserveAndUse(e, p)
                        \/ RefuseNumber(e, p)
                        \/ CrashReserving(e, p)
    \/ TakeoverFails(e)
    \/ e \in Searching /\ (ReadSegments(e) \/ RecordSegments(e) \/ Reload(e))
    \/ OpenWriter(e) \/ CloseWriter(e) \/ Commit(e) \/ Rollback(e)
    \/ \E gone \in SUBSET Paths : DeleteBooks(e, gone)
    \/ /\ e \in Maintaining
       /\ \/ OptimizeFlush(e) \/ OptimizeFlushFails(e)
          \/ OptimizeOpen(e) \/ OptimizeMerged(e)
          \/ EconomyFlush(e) \/ EconomyUndo(e)
          \/ RestoreWriter(e) \/ RestoreBusy(e)
    \/ Crash(e)

Spec == Init /\ [][Next]_vars

-----------------------------------------------------------------------------
(* Properties.                                                             *)

\* Every variable holds what the code's types allow; numbers fit in u32.
TypeOK ==
  /\ disk \in 0 .. MaxNumber
  /\ committed \subseteq Books /\ pending \subseteq Books /\ given \subseteq Books
  /\ lock \in Engines \cup {NoEngine}
  /\ step \in [Engines -> Steps]
  /\ closed \in [Engines -> BOOLEAN]
  /\ stale \in [Engines -> BOOLEAN]
  /\ numbers \in [Engines -> Numbering]
  /\ \A e \in Engines : /\ numbers[e].next \in 1 .. MaxNumber
                        /\ numbers[e].reserved \in 1 .. MaxNumber
  /\ reader \in [Engines -> SUBSET Books]
  /\ reading \in [Engines -> SUBSET Books]
  /\ failedReads \in 0 .. MaxReadFailures

\* A number handed out to one book is never handed out to another, by any
\* engine, after any crash, rollback, deletion or race with a search
\* (BookNumbers::number_for; the promise at the head of book_order.rs).
NumberNeverReused == \A g, h \in given : g[2] = h[2] => g[1] = h[1]

\* The last commit, and what the open writer would commit, hold each book
\* under one number, although different engines may have given it several
\* (BookNumbers::catch_up lets the last commit's number win).
OneNumberPerBook ==
  \A S \in {committed, pending} : \A b, c \in S : b[1] = c[1] => b[2] = c[2]

\* A book that one commit holds and the next still holds kept its number,
\* whichever engines wrote them, so the ids of its lines stay valid.
LiveBookKeepsNumber ==
  [][\A b \in committed, c \in committed' : b[1] = c[1] => b[2] = c[2]]_committed

\* The reservation file never goes back, so no reader of it is misled
\* (BookNumbers::number_for writes it from the engine's own counter).
ReservationNeverShrinks == [][disk' >= disk]_disk

\* A number that was handed out is one numbers_in_segments will accept when
\* the index is read back: neither 0 nor u32::MAX, where counting saturates.
NumbersReadable == \A g \in given : g[2] >= 1 /\ g[2] < MaxNumber

\* Whatever snapshot a search read, in whatever order, every number an
\* engine sorts by names the book it was given to (BookNumbers::paths).
TablesNameTheBook ==
  \A e \in Engines : \A b \in numbers[e].paths, g \in given :
    b[2] = g[2] => b[1] = g[1]

Registry == INSTANCE BookRegistry WITH index <- committed

\* Seen from outside, the engines implement the registry of book numbers.
ImplementsRegistry == Registry!RegistrySpec
=============================================================================
