# Otzaria search engine: TLA+ models and proofs

The search engine of the Otzaria library application: a Rust crate over Tantivy
(`src/rust/src`), called from Dart through generated bindings (`src/lib/src/rust`,
`src/rust/src/frb_generated.rs`). One `SearchEngine` object is one engine; several engines,
in one process or in several, may be open on the same index directory. An engine is behind a
reader-writer lock of the bindings: calls that take `&mut self` run alone, calls that take
`&self` (searches, `add_library_books`, `set_book_order`, cancellation) overlap.

## 1. The system

| Component | State | Operations | Interacts through |
|---|---|---|---|
| Book numbers (`book_order.rs`, `search_engine.rs`) | per engine `BookNumbers` (`by_path`, `paths`, `next`, `reserved`, segments read), `numbers_stale`; on disk `otzaria_book_numbers.json`, tantivy's writer lock, the last commit | number a book, open/close/restore the writer, commit, roll back, delete, optimize, switch economy indexing, read segments for sorting | the writer lock, the reservation file, the index |
| Order mapping (`book_order.rs`, `search_engine.rs`) | per engine `BookOrderState` (`revision`, `places`, `epoch`, `stamp`), `order_tables`; on disk `otzaria_book_order.json` and its lock | set, read revision, refresh, build rank tables | the mapping file, the file lock, the page cache |
| Search executors and page cache (`search_engine.rs`, `page_cache.rs`) | LRU of ranked pages and counts with a cache epoch; `GroupCache` | ranked page, count, per-book count, grouped page, stream with counts, clear | snapshots of the index reader, the order epoch, cancellation flags |
| Lexical cancellation (`lexical_cancellation.rs`) | registry of request ids: flag, running calls, a bounded queue of remembered ids | begin, cancel, look, end | every lexical search and stream |
| Semantic cancellation (`search_cancellation.rs`) | a token per search | cancel, look at checkpoints | semantic search |
| Library indexing (`library_indexing.rs`, `api/library_indexing.rs`) | book queue, memory budget, bounded channels, cancel token | number in order, prepare on worker threads, write in order, abort | book numbers, the writer, the line source |
| Line source (`line_source.rs`) | per source: path, suspensions and owner ports, generation, scan sessions, the open store | configure, suspend, resume, reap owners, scan, fetch lines | SQLite, searches that show text |
| Highlight and term caches (`highlight_cache.rs`, `term_automaton.rs`) | single-flight maps, epochs, a work gate | get or compute, clear, enter gate | parallel searches |
| Writer settings (`indexing_buffers.rs`, `search_engine.rs`) | economy flag, heap size, thread count, background merges | open, resize, wait for merges | the writer lock |
| Index directory (`index_directory.rs`) | files replaced atomically, lock files | atomic replace with retries, lock | every file beside the index |
| Semantic artifacts (`search_engine.rs`) | the vector set's generation on disk, expansions and their lock files, the lock of the set, the open session and the view of the set | open, install, expand, clean up, compact, disable, reload, plan a scan | the vector set directory, other processes |
| Semantic sessions (`semantic_session.rs`, `search_engine.rs`) | kept sessions by key: results in order, how many were shown, the window they were ranked over, what was seen | search a page, expand, reopen, commit, keep, invalidate, evict | the artifacts, the resolver, cancellation |
| Semantic resolver and moves (`semantic_resolver.rs`, `semantic_moves.rs`) | key maps per segment | resolve candidates to live lines | index snapshot |
| Query languages (`hebrew_query.rs`, `user_regex.rs`, `term_automaton.rs`, `quote_expansion.rs`, `negative_query.rs`, `smart_query.rs`, `lexicons.rs`, `magic/`) | none beyond caches | parse, expand, build queries | term dictionary |
| Positional matching (`gap_phrase.rs`, `cross_line.rs`, `section_scope.rs`, `id_lookup.rs`) | none | match phrases with gaps, across lines, in sections; find documents by id | segment readers |
| Text and highlighting (`hebrew_tokenizer.rs`, `inline_notes.rs`, `note_spans.rs`, `display_highlight.rs`, `highlight_matcher.rs`, `semantic_highlight.rs`, `vocalized_snippet.rs`, `derived_columns.rs`, `doc_store.rs`) | none | tokenize, normalize, mark | documents |
| Build tools, benchmarks, bindings, the Dart hook, vendored `tantivy-fst` | | | |

What is hard to test in it: an engine that takes the writer lock with a memory other engines
overtook; searches that read a snapshot, compute without a lock and record or cache the
result later; failed reads of the small JSON files; crashes between storing a reservation and
using it; cancellations that arrive before, during and after the call they are for; bounded
queues between the indexing threads and the ways they can be aborted; caches filled by one
thread while another clears them, on a pool whose threads run each other's work; expansions,
cleanups and installs of several processes in one directory; pages cut from a session that was
ranked again, evicted or invalidated since. `PROJECT.json` lists each at its line under `hazards`.

## 2. Modules

| Module | Models |
|---|---|
| `BookRegistry` | the abstract promise: a number is given once, to one book; an index only holds given books, each under one number that it keeps |
| `BookNumbers` | the numbers several engines give the books of one index; implements `BookRegistry` |
| `BookNumbersProofs` | its theorems |
| `LexicalCancellation` | the registry of cancellable requests, and the phases of a page search and of a stream that look at it |
| `LexicalCancellationProofs` | its theorems |
| `BookOrder` | the order mapping several engines share, and the searches that rank and cache pages by it |
| `BookOrderProofs` | its theorems |
| `LineSource` | the library database: windows, scan sessions, suspensions, owners, paths |
| `LineSourceProofs` | its theorems |
| `BookBatch` | the abstract promise of `add_library_books` |
| `LibraryIndexing` | a batch of `add_library_books`, composed with `LineSource`; implements `BookBatch` |
| `LibraryIndexingProofs` | its theorems, on those of `LineSourceProofs` |
| `SemanticSession` | the kept sessions of semantic searches and the searches that page through them |
| `SemanticSessionProofs` | its theorems |
| `VectorSet` | installs, expansions and cleanups of a vector set by several processes, and the sessions open on it |
| `VectorSetProofs` | its theorems |
| `SearchCaches` | the term cache and the highlight caches, their gates, and the thread pool that computes what they keep |
| `SearchCachesProofs` | its theorems |
| `MCBookNumbers`, `MCLexicalCancellation`, `MCBookOrder`, `MCLineSource`, `MCLibraryIndexing`, `MCSemanticSession`, `MCVectorSet`, `MCSearchCaches` | the instances TLC checks: model values, symmetry, the constants a `.cfg` cannot write |

An operator with the comment "Mutant of X" is X with a plausible bug. `PROJECT.json` says
which property finds it; nothing else uses these operators.

### 2.1 BookNumbers

An engine's `BookNumbers` is the record `numbers[e]`: `by_path` and `paths` are sets of
`<<path, number>>`, `next` and `reserved` are as in the code, and saturate at `MaxNumber`
(`u32::MAX`). `disk` is the `reserved` of `otzaria_book_numbers.json`. `lock` is tantivy's writer lock,
`committed` and `pending` are what the last commit and the writer that is open hold: books,
without their lines. `book_number` is `Called` for its guards and `Synchronise` for
`catch_up` after the lock was taken (`numbers_stale`), and then one of `UseKnownNumber`,
`UseReservedNumber`, `ReserveAndUse`, `RefuseNumber`, or `TakeoverFails`. A process may die
after storing a reservation (`CrashReserving`) and anywhere else (`Crash`, `Restart`).
`optimize` and the economy switch are split where they give up the writer lock and take it
back (`OptimizeFlush`, `OptimizeOpen`, `OptimizeMerged`, `EconomyFlush`, `RestoreWriter`,
`RestoreBusy`, `EconomyUndo`), so another engine may write in between. A sorted search reads
the segments of its snapshot (`ReadSegments`) and records them later (`RecordSegments`).
Left out: a book twice in one segment, I/O errors of a commit.

### 2.2 LexicalCancellation

`entries` and `remembered` are `Registry`; flags have identities, as an `Arc<AtomicBool>`
has. The mutex makes `begin`, `cancel`, `end` one step each. A call goes through the
phases of `run_search` or `run_search_stream_with_counts`: it is prepared, looked up in the
page cache, scanned segment by segment in blocks of `CHECK_EVERY` documents, stored,
hydrated, answered or streamed. Each place where the code looks at its flag is a `Look`.
All calls ask for one page of one snapshot, so what one of them caches is what the next is
served. Left out: the mode of a call that has no request id beyond its not being
cancellable, and panics.

### 2.3 BookOrder

`order[e]` is `BookOrderState`, `file` the mapping file with its stamp, `file_lock` the lock
file, `writing` the write lock of `book_order`. `set_book_order` takes the local lock, then
the file lock, loads, saves, installs, clears the page cache. `refresh_book_order` compares
stamps under the read lock; if they differ it takes the write lock, reads, and installs what it
read unless the engine has that mapping by then. The
read takes the stamp first and the content afterwards, as two steps. `order_tables` reads the
order, builds or reuses the tables. The cache's `store` compares the cache epoch. A mapping
is one value of `Places`. What ranks a page is named by `ranked_by`, the mapping each epoch
stands for. Left out: two saves within one clock tick of the file system, LRU eviction
(`pages` only grows, which serves a cache hit wherever the code could).

### 2.4 LineSource

`source` is `Global` of the library source: path, whether a store is open, generation,
`suspend_depth`, `owner_ports`, `scans`, and which sessions are still valid
(`scan_validity`). Each method of `Global` is an operator from a source to a source
(`drop_store`, `advance_generation`, `set_path`, `reap`), and `Locked` is what `global()`
returns: the owners whose ports are closed are reaped first. A window (`with_store`) runs
under the mutex, so it is one step. A session (`begin_scan`, `Read`, `ReadDone`, `Drop`)
reads outside it. `wait_for_scans` gives the mutex up: the isolate waits in a state of its
own until `Waited`. While an isolate holds the source it may `Replace` the file, which is
what suspending is for. An isolate may `Exit` at any time: its
port closes, a counted hold of it stays, and a call it was in goes on. Left out: the backoffs of a busy or missing
file, row maps, codecs, `data_version`, a file replaced with no suspension, attached and user
databases, which are the same state machine without suspensions.

### 2.5 LibraryIndexing

The constants `Scanners` are the workers, and `book_workers` their number, which is also the
budget's limit in reservations and the channel's bound, as in `add_library_books`. A worker
takes the next index (`Take`), is admitted in input order (`Budget::admit`), opens a session,
reads, drops the session, looks at `stop`, sends. The calling thread numbers the books
first, then receives and decides on each book in input order. It looks at the token, at the
generation of the source, and adds: the look (`Decide`) and `Add` are two steps, since
nothing is held between them. A writer that fails ends the batch through `AddFails` and `Join`. The
application's side is the whole of `LineSource`: suspensions, owners, paths, windows. It
stops when the batch ended, since what follows is `LineSource`'s own run.

### 2.6 SemanticSession

`sessions[i]` is a `SemanticSession`: its `entries` in order, how many were `shown`, the
window they were ranked over, `seen`, `seen_groups`, `dropped`, and who holds its mutex. `kept`
is `SemanticSessions::sessions`, pairs of a key and a session. `search_semantic` begins a search, which goes on with
`get` (the epoch completes the key, the kept sessions are looked at), `filter` (a first page passes over a
session whose semantic half failed), `lock` (one search at a time has the session),
`expand_semantic_session` with ever wider windows, and `Serve` (`commit`, `show`, `put`, the page).
`Additions::leaves`, `reopen`, `admits`, `take`, `len_with` are operators of those names. `Taken` is the loop
over a window's results: each is admitted by what the session and the additions hold, and taken or dropped, in
order; nothing is assumed of a window's lines and groups, so it may name one twice. What a
ranking over a window returns (`Ranked`, `Complete`) is a constant: `SidecarAssumption` says only that it is a sequence of
results by the vectors asked. The MC module gives a table, in which a wider window ranks another
line of a group first and turns up lines that are stale. `ChangeVectors` and `invalidate` are a call
that changes the vectors, which ends by dropping what is kept (`InvalidateOnDrop`). Left out: the fusion of the
two halves, highlights, and time (a session may be evicted at any moment).

### 2.7 VectorSet

One set, several processes, each with calls (threads of the application) and one session.
`generation` is the live one on disk, `set_lock` the sidecar's lock of the set, `locks` and `segments` the
names whose lock file or segment exists, `old` the segments an hour old, `held[n]` the call that locks the file of
expansion `n`. Of a call, `pc` is the step it is at and `name` its expansion. An install is `take`
(`VECTOR_SET_WORK`, one at a time in a process), the cleanup of what others left, the expansion (`CreateLock`, `LockIt`,
`CreateSegment`, `Written`), the wait for the set (`LockSet`, `SetBusy`), the sidecar's `install_package`,
`AlreadyApplied` or `Refused`, the removal of the expansion (`DropSegment`, `DropLock`), and `reload_open_vectors` in its
steps. An error on the way is `ListFails`, `CreateFails`, `Fail` or an exit of `LockIt`. A compaction has no expansion and
is the same call otherwise. A process may die at any step: its locks go, its files stay. The sidecar crate is another
repository; its functions are one step each, marked external.

A cleanup lists the folder in two steps (`List`, `ListSegments`), since others create and remove files while it reads, and
then goes file by file: `OpenLock`, `TryLock`, `RemoveSegment`, `RemoveLock` for a lock file, `RemoveStray` for a segment listed
without one, which is removed once it is old (`STRAY_EXPANSION_AGE`). A segment grows old (`GrowOld`) only while no call makes
or cleans its expansion, that is, an hour is taken to be longer than that. Removals are best effort, here and where an expansion
is dropped: `Remove` leaves the file or not, and the lock file goes also when the segment stayed. `unremoved` and `abandoned` are the
expansions of which a removal failed or whose process died, `debris[c]` what call `c`'s cleanup found that nobody was
at, less what became of it through such a failure or death since: history, for the properties.

### 2.8 SearchCaches

`stack[t]` is what thread `t` is in: a request for a pattern or a highlight term set calls
for a term set, a term set waits for scans on the pool, a pool thread that waits for a task runs
other tasks meanwhile (`Steal`). Requests are over one word, so a key is the generation it is for. A call goes
through `Read` (epoch and searcher, in the order of the code), `Look`, `Enter` (the key's
work in the gate), `Take` (nobody else is at the work), `Compute` (after a second look), `Joined` (the result is
checked, kept if the epoch is still the one read, answered, and the gate freed). `gates` and `busy` are
`WorkGate`; work has an identity, as an `Arc` has. `release_memory` is eight steps in seven
(the two gates of the highlight cache in one). Left out: the dictionaries' setters, which are `Commit`
without a new generation; byte limits (anything may be too large, anything else may be evicted); which idle
pool thread takes a task.

## 3. Runs

| Run | Asks | Shows |
|---|---|---|
| `numbers_search` | an engine whose searches record old snapshots while it and another one write and crash | no number is handed out twice, tables name the right book |
| `numbers_maintenance` | two engines that optimize and switch economy indexing up to the last number, one failed read | a live book keeps its number over the gap in which the writer lock is free, a commit holds a book once, numbers stay readable, `BookRegistry` is implemented |
| `numbers_unreadable` | three failed reads | violated: see Findings |
| `cancel_calls` | two calls, two ids, room to remember one, cancelled anywhere | cancels are not lost, nothing partial is cached or handed out, at most one event after a cancel, the registry is bounded, a cancelled call ends |
| `order_shared` | two threads of one engine, one of another, three calls, a restart | searches sort by a mapping at least as new as the one stored when they began; revisions name mappings, never go back; caches hold what their keys say; every call returns |
| `line_source` | two isolates that suspend, resume, exit, move the source, two threads that scan | while an isolate holds the source nothing has the file open; text of the current generation is current; a suspension returns |
| `library_batch` | a batch of three books, two workers, an isolate that suspends, replaces and moves the source, a cancel, a failing writer | the batch never gets stuck, a sender never waits for room, what is added was read from the current file, `BookBatch` is implemented |
| `semantic_sessions` | two clients page through searches of one query while windows widen, a half fails, a search is cancelled, a session is evicted, the vectors change | nothing twice, nothing lost, pages of one session continue one another, nothing older than a change that returned, every search returns |
| `semantic_pages` | the same, and a client whose session was lost | violated: see Findings |
| `vector_set` | two calls of one process and one of another install, open, plan and die, and files stay that should go | no cleanup takes a running expansion, one that is over has cleared what lay there, an install leaves nothing, no session or view goes back |
| `search_caches` | the spread words of one search and the highlights of another caller, a new generation, a release, a cancel or a failed scan | one computation per key, nothing kept from before a release, nothing older than asked, nothing cut short kept, every request returns |
| `search_gate` | the spread words of two searches, one cancelled | violated: see Findings |

### Bounds

- BookNumbers: two engines and two books, since each hazard is an engine overtaken by one
  other, and a number given to two books. `MaxNumber` 4 with reservations of 2 lets an engine
  exhaust one reservation, store a second and meet the last number. The theorems drop
  these bounds.
- LexicalCancellation: two calls show sharing of an entry and of the cache; an id more than
  there is room to remember shows eviction; segments of one and two blocks show looks within and between
  segments. The theorems, also those about pages and events, drop the bounds.
- BookOrder: two threads of one engine race for its local lock, the third races for the
  file. Three calls in all are a set, a refresh that overtakes it, and a search that sees the
  result. `SetsOf` says which threads may set which mapping. The theorems drop the bounds, those
  about revisions and sorting for a mapping file that can be read.
- LineSource: five calls are, for instance, two overlapping suspensions, a replacement, both
  resumptions. Two sessions overlap or follow each other.
- LibraryIndexing: three books and two workers are the least with which a later book can
  hold what an earlier one needs. Three calls are a suspension, a replacement and a
  resumption. `MaxScans` is the number of books: it never limits. The theorems drop the bounds.
- SemanticSession: three searches of one or two pages show a session that is continued, one that
  two clients wait for, and one made again after it was lost. `MaxFaults` is one budget for cancels, evictions
  and failing halves: each hazard needs one of them. The rankings hold a group of five lines and two stale lines. The theorems
  drop these bounds, and hold for any rankings.
- VectorSet: two calls of one process and one of another, `MaxCalls` 3 in all, let an install
  meet the cleanup of another process and a second install of its own. Three names are an expansion each, or one
  made again. Generations up to 3 let an install overtake another's reload; one crash leaves files for the next
  cleanup, and `MaxStays` 2 lets a segment stay without its lock file and a later cleanup fail at it too;
  two attempts at a lock show a retry. The two threads of one process are symmetric. The theorems drop these bounds.
- SearchCaches: two requests over two generations, one release, one fault: each hazard is one
  computation overtaken by one of these. Two pool threads are the least with which a scan is
  taken by another thread than the one that waits for it. The theorems drop these bounds.

`CHECK_DEADLOCK FALSE` stands where the system may stop: nobody has to ask for anything more
once the bounded calls are used up or the batch has ended. Getting stuck before is the subject
of `CancelledEnds`, `CallsReturn`, `SuspendReturns`, `NeverStuck`, `SearchReturns`, `RequestsReturn`. In VectorSet a call waits
only for the lock of the set, and leaves when that lasts (`SetBusy`): no step of another is needed.

### Fairness

Fairness is given to threads that are running the code, never to the application or to
failures. In LexicalCancellation and BookOrder each thread in a call goes on (the operating
system runs it; mutexes and file locks are polled or queued). In LineSource a scan that reads
a book ends the read, a session is dropped by its reader at the end of its book, and the
thread in `wait_for_scans` is woken once no session is open; isolates are not fair, so they
may never resume. `LibraryIndexing` states progress as a safety property, `NeverStuck`: one of the batch's
threads can always go on, and no step of theirs is undone, so the batch ends if its threads
run. This lets the run use symmetry, under which TLC cannot check liveness. It is stated by what the
threads wait for; `GuardsAgree` of `MCLibraryIndexing`, which TLC found to hold with `MaxCalls` 2, says that
this is when their actions are enabled. In
SemanticSession the thread of a search goes on; the application need not ask for another page.
VectorSet states no liveness: what the sidecar does under its lock may take for ever, and the one wait has an end of
its own. In SearchCaches the threads of the callers and of the pool are fair;
releases, commits and cancels are not.

## 4. Findings

1. `read_reservation` takes an unreadable reservation file for no reservation. A
   `book_number` call in that moment may hand out a number again (`numbers_unreadable`).
   The run allows three failed reads; with at most one over a run the theorems hold.
2. `search_semantic` takes a later page for continued when any session is kept under its key. If
   the search's own session was lost and another search of the same key made a new one, the page
   is cut from that one, without `session_restarted`, and may repeat lines (`semantic_pages`).
3. The words of a search are materialized as rayon tasks that enter `WorkGate` and compute
   with rayon scans. A pool thread inside a gate that waits for a scan another thread took runs any other
   task, and if that is the same key's of another search it waits for itself. Neither search
   ends, and cancelling does not help: the flag is of the caller's thread, which `check_current`
   on a pool thread does not see (`search_gate`). `search_caches` shows that with one such search at a time every
   request returns.

Seen while modelling, and not runs of their own:

- After one failed read in `set_book_order` revisions start again at 1. `BookOrderState::read` keeps the stamp
  of a file it could not load, so the engine sorts by no order until the file changes
  (`SortedByLastMapping` excuses searches that failed to read, and `order_shared` has no unreadable file).
- `Registry::end` puts a cancelled id on the bounded queue once per call that ended, not once,
  so fewer than `REMEMBERED` ids may be kept.
- `collect_grouped` takes the key of its page before it ranks, by
  an order it reads again, so a page may be kept under a key that is older than its ranking;
  a call that looks under the older key then gets the newer ranking, and after the next
  refresh nobody looks under it.
- `SemanticSession::commit` says "a result the session held is never lost". A result no page has shown
  is dropped when a wider window groups it with a line that is stale, or when one of the lines under it is a result now or was
  found stale; `NothingLost` says what is kept: one of its lines, as a result's or as stale, or its group.
- A session whose open loaded the old generation while an install flipped it, and found no session to
  reload, stays on the old generation, though "An open session on the same set is moved onto the new
  generation before this returns" (`install_semantic_vectors`). A search between `forget_set_view` and the load may
  keep a view of a generation another process's install replaces. The rule that removes a segment without a
  lock file once it is an hour old has something to remove only where a removal failed (`SegmentMarked`,
  proved): `remove_abandoned_expansions` and a dropped `Expansion` remove the lock file also when the segment stayed. A process that dies leaves
  no segment without its lock file.
- `phrase_per_word_terms` and `compute_index_highlight_pattern` key what they keep by their caller's searcher, and
  `materialize_term_set` takes its own, perhaps newer one: an entry may hold newer terms than its key says, never older
  ones. A pattern whose terms failed for an I/O error is kept without them until the next commit.

## 5. Theorems

`BookNumbersProofs`, from the assumptions on the constants and at most one failed read:
`TypeCorrect`, `NeverReused`, `Readback`, `OneNumberInIndex`, `TablesAgree`,
`ReservationGrows`, `LiveBooksKeepNumbers`, `Implements`. None of the properties is inductive: that a
number is not handed out twice needs that what an engine may use without asking
(`next` up to `reserved`) is apart from every other engine's range and holds no given number
(`Clear`, `Apart`), that everything given is below the reservation on disk
(`GivenIsReserved`), and that the engine with the writer has caught up with it
(`WriterIsCurrent`, `WriterKnows`). A crash keeps these because they are about the disk, a
rollback because numbers stay given. `Inductive` shows that every action keeps `IInv`; the
theorems follow from it, `Implements` with a step or a stutter of `BookRegistry` for each action.

`LexicalCancellationProofs`: `Invariant`, `TypeCorrect`, `Reaches`, `Bounded`, `Whole`, `OneEvent`,
`HandedOut`, `StopsSoon`. The strengthening is `CallsShareEntry`: an entry counts the running calls of its id, and they
share its flag. With it, an entry that is evicted has no running call, so the flag a later
entry gets is not one that a running call looks at. What is handed out needs two more facts
(`HInv`): a call whose scan was cut short is leaving, or still scans with its flag raised and meets a look before
anything is stored or answered (`CutLeaves`); and an event that is sent after a cancel is followed
by a look, which ends the stream (`LateLeaves`). `StopsSoon` is what is safety in `CancelledEnds`: a call that was
cancelled has four steps of its own left at most (`StepsTold`), as its next look ends the scan, the segment or the
stream it is in.

`BookOrderProofs`: `TypeCorrect`, `Ranked`, `NamesMapping`, `Sorted`, `NoneGoesBack`, `Inductive`,
`HoldersInvariant`, `NeverDeadlocked`, `StepsFewer`.
What a thread relies on depends on where it is and on the locks it holds: a setter that loaded still has the
file's mapping before it as long as it has the file lock, a refresh that read may hold an older mapping
than the file, and none older than its engine's (`Keeps`, one conjunct per place). The n-th save is
revision n, and a stamp says how many saves there were when it was taken (`InStep`); so revisions name
mappings (`Named`), and a stamp that did not change means that the mapping did not. `Ranks` and
`RanksBy` say that what is kept under an epoch was ranked by the mapping of that epoch. After a failed read
revisions start again, so `NamesMapping`, `Sorted` and `NoneGoesBack` assume `MaxUnreadable = 0`, as the run does;
the others do not. Who holds the engine's lock or the lock file is at the work it is for (`HoldersWork`), and the
engine's lock is taken before the lock file, never after it: a call that cannot go on waits for one that can, or for
one that waits for the lock file, whose holder can (`NeverDeadlocked`). A call has nineteen steps at most
(`StepsFewer`).

`LineSourceProofs`: `Invariant`, `TypeCorrect`, `ReleasedToHolder`, `Current`, `SessionsEnd`, `Wakes`, for any finite
sets of isolates and threads. The inductive invariant counts the sessions and the holders
(`Counts`), says that an isolate that lives still has its owned hold (`Owners`), that a
suspended source has no store and no session that may go on (`QuietIn`), that a session that may go on reads
the file as it is and that text of the generation is current (`SessionsSound`), and that
nobody holds the source while a session is open (`ScansEnded`). The argument is one
relation, `Follows`, which every method of `Global` keeps: a source never leaves a suspension, nor
goes to another path, in the generation it had. A file is replaced only by a holder, hence
in a suspension, hence before a new generation. A suspension that waits for sessions waits for two steps of each at
most, since none begins while an isolate suspends or holds the source (`SessionsEnd`), and then the count it
waits on is zero (`Wakes`).

`LibraryIndexingProofs`: `BatchInvariant`, `BatchTypeCorrect`, `SourceKept`, `NeverBlocked`, `AddedIsCurrent`,
`Implements`, `GoingInvariant`, `NeverStops`, `StepsFewer`, for any books, any non-empty set of workers (the policy has one at least), isolates and paths. The invariant is that
of `LineSource` and `BInv`: a book in flight, admitted and not settled, is with one worker, in the channel once
or waiting (`Places`, `Apart`), so what is in the channel and what a worker sends are as many books as have
reservations (`NeverBlocked`). Unless the batch is cancelled, a book that was taken is somewhere until it is settled,
and a worker leaves only when none is left (`Covered`): a batch whose workers left and whose channel is empty has all
its results, which is what `Returns` of `BookBatch` asks. Text travels from a session to the calling
thread while the source changes; `TextsKept`, which every action of `LineSource` is shown to keep, says of any text
that it stays current or is of a generation that ended, so a text of the generation that is found
is what the file says (`AddedIsCurrent`); that the actions keep the invariant of `LineSource` is also why its guarantees
hold under a batch (`SourceKept`).

That a batch is never stuck needs more (`GInv`): the calling thread adds only when it has the next result, workers
are at books that were taken and wait for their turn behind the next admission (`InTurn`), and a worker
opens one session per book (`SessionsHeld`, `SessionsLeft`). If nobody could go on, the calling thread would be
waiting for a message with the channel empty, and each worker for an admission. Then no book is in flight, so there is
room for one, and the book to be admitted next is with a worker, which could go on: a contradiction. `NeverStops` assumes `MaxScans >= NumBooks`, that is, that the bound on
sessions never limits, as in the run. `StepsFewer` gives each book eleven steps, each worker one and the calling thread
three: all the steps there are, whatever the source does. With the two theorems a batch ends if threads that can go
on do.

`VectorSetProofs`: `TypeCorrect`, `ExpansionIsKept`, `SegmentsAreMarked`, `NothingIsLeft`, `DebrisIsCleared`,
`SessionsNeverGoBack`, `ViewsNotBroughtBack`, for any processes, calls, names,
generations, crashes and failed removals. The invariant says that who makes or cleans an expansion holds its lock file and no other call
does (`OneMaker`, `Holding`), that names not begun name nothing (`FreshNames`), that a segment is there
from when it is written until it is installed or removed, and has its lock file beside it unless a removal failed (`Segments`,
`SegmentMarked`), that what is old has no maker (`Aged`), that what lies there has a maker, had one that died, or could not be
removed (`Left`), that one call of a process works on the set
(`OneWorker`), and that no session, view or install is of a generation to come (`Generations`). `DebrisIsCleared` has an invariant of its own
on top (`DebrisInv`): what a cleanup found with nobody at it gets no maker, its segment is gone before its lock file and is
alone only if old, and while a file of it is there it is still listed or a call is at it. What others do is away from such
a name (`AwayStep`); the cleanup's own steps, and those of other cleanups that met it, are the cases that remain.

`SearchCachesProofs`: `OneComputes`, `OldIsCleared`, `WholeOnly`, `NoneOlder`, `TypeCorrect`, `Inductive`,
`GoingInvariant`, `StepsFewer`, `NeverStalls`, for any callers and pool threads, however deep a pool thread's stack of stolen tasks grows. Who waits for whom is
a forest (`TreeOK`): only a thread's innermost call runs (`ShapeIn`), a call that is owned has an owner that waits
(`OwnersIn`), for one call or task (`OneChildIn`); so when a call ends, the one it answers is where it was left, on
whichever thread. What a call holds depends on where it is (`CallOK`): from the gate's entry on the gate
knows its work by its key, and inside it is at that work. `GatesOK` and `InsideOK` are why one computes: a
gate has one entry per key somebody holds the work of, no two entries share a work, and no two calls are at one; that
gates forget entries at every step keeps this, since they forget what no call holds. A term set's key is not
older than its owner's, because it read its searcher later, and what a call is answered is not older than its
key: hence `NoneOlder`.

`NeverStalls` says that while a request is unanswered some thread can go on, `StepsFewer` that a request adds
fourteen steps at most and each step of a thread leaves fewer. `NeverStalls` assumes that one caller at a time
has its words spread over the pool (`OneSpreads`), without which it is false (finding 3), and that the pool has two
threads: with one, a spread term set that waits at a gate keeps the only thread from the scan that the gate's holder
waits for. The argument: if nobody goes on, every call waits at a gate or for a call or task of its own, and none is a
scan, since a scan waits for nothing. So what the pool runs is a term set, of the one caller that spreads: a second
thread is free, and no task is left. Who waits at a gate waits for a call inside it, and that one for a
call it asked for; a term set asks for scans only, so none is inside, so none waits, so no pattern waits for one:
there is no call at all.

`SemanticSessionProofs`: `Once`, `Continues`, `Fresh`, `GivesWay`, `SessionsGoOn`, `Types`, `Inductive`,
`GoingInvariant`, `WaitsEnd`, `StepsFewer`, for any clients, page size, rankings, windows and faults. That nothing is repeated needs what is only true while a search
expands: its additions name lines and groups once, have seen what they hold and no more, and share none with the results
that keep their places, all of the session's or, reopened, those shown (`AdditionsOK`). `TakeOK` and `TakenOK` show
that the loop over a window keeps this for any window, `UnshownIs` and `CommitOK` that the results `commit` keeps
after the additions clash with neither. It stays true until the page is served because the call holds the session's
mutex (`Expands`) and nobody else changes a session that is held (`SessionStep`). `SessionsGoOn` says of a step what
`ViewsOK` needs: what was shown keeps its place. That no page is too old is `AgesOK`: a session is kept, and
searched, under one epoch, and whatever it holds is of vectors newer than that epoch; the epoch counts the changes that
returned (`Typed`), and a search reads it after it began. The loops are recursive functions: `OffersIs` and `KeepsIs`
show that there are such functions for every length, and so that the definitions mean what they say. What they keep is
shown by the least place where it would fail (`NatMin`, `Upto`). Who holds a session's mutex expands that session and
waits for nobody (`HoldersOK`, `WaitsEnd`); each window is wider than the last and the widest is the last one
(`WidthsOK`), so a call has as many steps as the widest window has candidates, and four more (`StepsFewer`).

Only model-checked: the five liveness properties under fairness, `CancelledEnds`, `CallsReturn`, `SuspendReturns`,
`SearchReturns` and `RequestsReturn`. The theorems above hold what is safety in all: who waits
waits for one that can go on (`NeverDeadlocked`, `Wakes`, `WaitsEnd`, `NeverStalls`), and who goes on has fewer steps left
each time (`StopsSoon`, `SessionsEnd`, `StepsFewer` of three modules). What TLC alone shows, on its instances, is that under
the fairness stated this makes every call return.

## 6. Not modelled

Parsers, tokenizers, highlighting and expansion of queries: their properties are about text,
character by character, which their tests (`*_tests.rs`) compare with references. Generated
bindings, build tools, benchmarks, vendored libraries. Tantivy, SQLite, rayon and the sidecar crate appear only through
what the engine relies on: a writer lock, atomic commits, snapshots, connections that keep a
file open, a pool whose waiting threads run other tasks, a set with one live generation. The semantic resolver maps keys of candidates to live lines
of one snapshot, and the moves of books are a conversion of paths: both are functions of data with no
state of their own. Semantic cancellation is one flag per search that `SemanticSession` looks at
at the search's checkpoints. The retries of `atomic_replace`, heap sizes, thread counts and background merges of the writer, and the windows and byte limits of the
page cache are not modelled.

## 7. Plan

What could come next: the windows of the page cache against a reference definition of a page; the
retries of `atomic_replace` against readers on a file system that refuses a rename; the segment-by-segment
resolution of candidates while the index moves on; refinements of `VectorSet` and `SearchCaches` by
an abstract set and an abstract cache.
