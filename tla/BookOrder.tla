----------------------------- MODULE BookOrder ------------------------------
(* The order books are shown in: a mapping the application pushes into a   *)
(* file beside the index, that every engine on the index ranks its sorted  *)
(* searches by (book_order.rs, SearchEngine::set_book_order), and the      *)
(* pages those searches rank and cache.                                    *)
(*                                                                         *)
(* A thread runs one call of one engine at a time.  Reading or writing the *)
(* engine's order state under its RwLock is one step; only set_book_order  *)
(* and refresh_book_order hold the write lock over several steps.  Every   *)
(* save gives the file a stamp of its own: the clock of the file system is *)
(* finer than two saves.  The threads search for one query on one index    *)
(* snapshot, so a page is known by the mapping it was ranked under.        *)
EXTENDS Naturals

CONSTANTS
  Engines,
  Threads,
  EngineOf,         \* the engine a thread calls
  Places,           \* what a mapping can say; where every book goes
  SetsOf,           \* the mappings a thread may set
  NoPlaces,         \* the mapping that names no book
  NoThread,
  MaxCalls,         \* bound: the calls of all the threads
  MaxUnreadable,    \* bound: reads of the mapping file that fail
  MaxRestarts       \* bound: restarts of engines

ASSUME OrderAssumption ==
  /\ EngineOf \in [Threads -> Engines] /\ SetsOf \in [Threads -> SUBSET Places]
  /\ NoPlaces \in Places /\ NoThread \notin Threads
  /\ MaxCalls \in Nat /\ MaxUnreadable \in Nat /\ MaxRestarts \in Nat

VARIABLES
  file,        \* the mapping file, with its stamp
  file_lock,   \* who holds otzaria_book_order.lock
  order,       \* per engine, BookOrderState
  writing,     \* per engine, who holds the write lock of book_order
  tables,      \* per engine, CachedOrderTables: an epoch (0: none) and its mapping
  cache_epoch, \* per engine, the epoch of the page cache
  pages,       \* per engine, the ranked pages in the page cache
  groups,      \* per engine, the grouped pages in the group cache
  threads,     \* the call of every thread
  next_epoch,  \* NEXT_EPOCH
  ranked_by,   \* the mapping each epoch stands for (history)
  calls_left,  \* the calls that may still be made
  unreadable,  \* reads that failed
  restarts

caches == <<tables, cache_epoch, pages, groups>>
epochs == <<next_epoch, ranked_by>>
limits == <<calls_left, unreadable, restarts>>
vars == <<file, file_lock, order, writing, tables, cache_epoch, pages, groups,
          threads, next_epoch, ranked_by, calls_left, unreadable, restarts>>

Mapping == [revision : Nat, places : Places]
Default == [revision |-> 0, places |-> NoPlaces]

\* What a thread holds: the program point, where to go after a refresh, the
\* places to set, the mapping read or ranked by and its epoch, the stamp
\* seen, the order epoch and the cache epoch of its key, the revision the
\* file had when the call began, and whether a read of this call failed.
IdleThread == [pc |-> "idle", after |-> "idle", places |-> NoPlaces,
               mapping |-> Default, epoch |-> 0, key |-> 0, stamp |-> 0,
               cached |-> 0, expected |-> 0, blind |-> FALSE]

Init ==
  /\ file = [revision |-> 0, places |-> NoPlaces, stamp |-> 0]
  /\ file_lock = NoThread
  /\ order = [e \in Engines |-> [revision |-> 0, places |-> NoPlaces,
                                 epoch |-> 1, stamp |-> 0]]
  /\ writing = [e \in Engines |-> NoThread]
  /\ tables = [e \in Engines |-> [epoch |-> 0, mapping |-> Default]]
  /\ cache_epoch = [e \in Engines |-> 0]
  /\ pages = [e \in Engines |-> {}]
  /\ groups = [e \in Engines |-> {}]
  /\ threads = [t \in Threads |-> IdleThread]
  /\ next_epoch = 2
  /\ ranked_by = [k \in 0 .. 1 |-> Default]
  /\ calls_left = MaxCalls
  /\ unreadable = 0
  /\ restarts = 0

----------------------------------------------------------------------------
(* Helpers.                                                                *)

E(t) == EngineOf[t]
At(t, pc) == threads[t].pc = pc

\* The thread goes to pc; rec is what it holds there.
Goes(t, pc, rec) == threads' = [threads EXCEPT ![t] = [rec EXCEPT !.pc = pc]]

\* The read lock of the order state is free.
Unlocked(e) == writing[e] = NoThread

FileMapping == [revision |-> file.revision, places |-> file.places]
Held(e) == [revision |-> order[e].revision, places |-> order[e].places]

\* OrderMapping::load: a file that cannot be read is an empty mapping.
load(failed) == IF failed THEN Default ELSE FileMapping

CountRead(failed) ==
  /\ failed => unreadable < MaxUnreadable
  /\ unreadable' = unreadable + (IF failed THEN 1 ELSE 0)

\* BookOrderState::of: the mapping gets an epoch no other mapping has.
State(m, stamp) == [revision |-> m.revision, places |-> m.places,
                    epoch |-> next_epoch, stamp |-> stamp]

\* NEXT_EPOCH: a mapping a process read or set has an epoch of its own.
NewEpoch(m) ==
  /\ next_epoch' = next_epoch + 1
  /\ ranked_by' = [k \in DOMAIN ranked_by \cup {next_epoch} |->
                     IF k = next_epoch THEN m ELSE ranked_by[k]]

\* PageCache::clear
Clear(e) ==
  /\ cache_epoch' = [cache_epoch EXCEPT ![e] = @ + 1]
  /\ pages' = [pages EXCEPT ![e] = {}]

\* What changes nothing but the thread's own state.
Private == UNCHANGED <<file, file_lock, order, writing, caches, epochs, limits>>

----------------------------------------------------------------------------
(* Calls.  Each starts on an idle thread; expected is what the file held.  *)

Start(t, pc, after, places) ==
  /\ At(t, "idle") /\ calls_left > 0
  /\ calls_left' = calls_left - 1
  /\ Goes(t, pc, [IdleThread EXCEPT !.after = after, !.places = places,
                                    !.expected = file.revision])
  /\ UNCHANGED <<file, file_lock, order, writing, caches, epochs, unreadable, restarts>>

set_book_order(t, places) == Start(t, "local_lock", "idle", places)
book_order_revision(t) == Start(t, "stat", "revision", NoPlaces)
ranked_page(t) == Start(t, "stat", "order", NoPlaces)
collect_grouped(t) == Start(t, "stat", "group_key", NoPlaces)

\* Whatever locks the call holds go when it returns.
Return(t) ==
  /\ threads' = [threads EXCEPT ![t] = IdleThread]
  /\ writing' = [writing EXCEPT ![E(t)] = IF @ = t THEN NoThread ELSE @]
  /\ file_lock' = IF file_lock = t THEN NoThread ELSE file_lock

----------------------------------------------------------------------------
(* set_book_order: the engine's lock, then the lock file, for the whole    *)
(* of reading, replacing and taking in the mapping.                        *)

LocalLock(t) ==
  /\ At(t, "local_lock") /\ Unlocked(E(t))
  /\ writing' = [writing EXCEPT ![E(t)] = t]
  /\ Goes(t, "file_lock", threads[t])
  /\ UNCHANGED <<file, file_lock, order, caches, epochs, limits>>

\* Mutant of FileLock: the lock file is not waited for.
FileLockIgnored(t) ==
  /\ At(t, "file_lock")
  /\ file_lock' = t
  /\ Goes(t, "load", threads[t])
  /\ UNCHANGED <<file, order, writing, caches, epochs, limits>>

FileLock(t) ==
  /\ At(t, "file_lock") /\ file_lock = NoThread
  /\ file_lock' = t
  /\ Goes(t, "load", threads[t])
  /\ UNCHANGED <<file, order, writing, caches, epochs, limits>>

\* Another mapping than the file's becomes the file's next revision.
Load(t) ==
  /\ At(t, "load")
  /\ \E failed \in BOOLEAN :
       /\ CountRead(failed)
       /\ LET m == load(failed)
              next == [revision |-> m.revision + 1, places |-> threads[t].places]
          IN  IF m.places # threads[t].places
              THEN Goes(t, "save", [threads[t] EXCEPT !.mapping = next])
              ELSE Goes(t, "install", [threads[t] EXCEPT !.mapping = m])
  /\ UNCHANGED <<file, file_lock, order, writing, caches, epochs, calls_left, restarts>>

Save(t) ==
  /\ At(t, "save")
  /\ file' = [revision |-> threads[t].mapping.revision,
              places |-> threads[t].mapping.places, stamp |-> file.stamp + 1]
  /\ Goes(t, "install", threads[t])
  /\ UNCHANGED <<file_lock, order, writing, caches, epochs, limits>>

\* The lock file or the mapping file cannot be written: the call fails.
SetFails(t) ==
  /\ At(t, "file_lock") \/ At(t, "save")
  /\ Return(t)
  /\ UNCHANGED <<file, order, caches, epochs, limits>>

\* The engine holds that mapping already.
Unchanged(t) ==
  /\ At(t, "install") /\ Held(E(t)) = threads[t].mapping
  /\ Return(t)
  /\ UNCHANGED <<file, order, caches, epochs, limits>>

\* The engine takes in the mapping it stored, and only then unlocks it.
Install(t) ==
  /\ At(t, "install") /\ Held(E(t)) # threads[t].mapping
  /\ order' = [order EXCEPT ![E(t)] = State(threads[t].mapping, file.stamp)]
  /\ NewEpoch(threads[t].mapping)
  /\ writing' = [writing EXCEPT ![E(t)] = NoThread]
  /\ Goes(t, "clear", threads[t])
  /\ UNCHANGED <<file, file_lock, caches, limits>>

ClearSet(t) ==
  /\ At(t, "clear")
  /\ Clear(E(t))
  /\ Return(t)
  /\ UNCHANGED <<file, order, tables, groups, epochs, limits>>

----------------------------------------------------------------------------
(* refresh_book_order, at the head of every call but set_book_order.       *)

Stat(t) ==
  /\ At(t, "stat")
  /\ Goes(t, "compare", [threads[t] EXCEPT !.stamp = file.stamp])
  /\ Private

\* Mutant of Compare: an engine that knows a stamp does not look again.
CompareOnce(t) ==
  /\ At(t, "compare") /\ Unlocked(E(t))
  /\ Goes(t, IF order[E(t)].stamp # 0 THEN threads[t].after ELSE "refresh", threads[t])
  /\ Private

\* With the stamp the engine knows there is nothing to read.
Compare(t) ==
  /\ At(t, "compare") /\ Unlocked(E(t))
  /\ Goes(t, IF threads[t].stamp = order[E(t)].stamp THEN threads[t].after ELSE "refresh",
          threads[t])
  /\ Private

\* Mutant of Refresh: the file is read before the lock is taken.
RefreshEarly(t) ==
  /\ At(t, "refresh")
  /\ Goes(t, "read", [threads[t] EXCEPT !.stamp = file.stamp])
  /\ Private

\* Mutant of Refresh: the lock file first, the engine's lock second.
RefreshInverted(t) ==
  /\ At(t, "refresh")
  /\ \/ /\ file_lock = NoThread
        /\ file_lock' = t
        /\ UNCHANGED <<writing, threads>>
     \/ /\ file_lock = t /\ Unlocked(E(t))
        /\ writing' = [writing EXCEPT ![E(t)] = t]
        /\ Goes(t, "read", [threads[t] EXCEPT !.stamp = file.stamp])
        /\ UNCHANGED file_lock
  /\ UNCHANGED <<file, order, caches, epochs, limits>>

\* The write lock, and the stamp BookOrderState::read takes before it reads.
Refresh(t) ==
  /\ At(t, "refresh") /\ Unlocked(E(t))
  /\ writing' = [writing EXCEPT ![E(t)] = t]
  /\ Goes(t, "read", [threads[t] EXCEPT !.stamp = file.stamp])
  /\ UNCHANGED <<file, file_lock, order, caches, epochs, limits>>

\* The file is read.
Read(t) ==
  /\ At(t, "read")
  /\ \E failed \in BOOLEAN :
       /\ CountRead(failed)
       /\ Goes(t, "take", [threads[t] EXCEPT !.mapping = load(failed),
                                             !.blind = @ \/ failed])
  /\ UNCHANGED <<file, file_lock, order, writing, caches, epochs, calls_left, restarts>>

\* The mapping is taken in; one the engine holds only brings its stamp.
Take(t) ==
  /\ At(t, "take")
  /\ LET m == threads[t].mapping
         same == Held(E(t)) = m
     IN  /\ NewEpoch(m)
         /\ order' = IF same THEN [order EXCEPT ![E(t)].stamp = threads[t].stamp]
                     ELSE [order EXCEPT ![E(t)] = State(m, threads[t].stamp)]
         /\ Goes(t, IF same THEN threads[t].after ELSE "clear_refreshed", threads[t])
  /\ writing' = [writing EXCEPT ![E(t)] = NoThread]
  /\ UNCHANGED <<file, file_lock, caches, limits>>

ClearRefreshed(t) ==
  /\ At(t, "clear_refreshed")
  /\ Clear(E(t))
  /\ Goes(t, threads[t].after, threads[t])
  /\ UNCHANGED <<file, file_lock, order, writing, tables, groups, epochs, limits>>

\* book_order_revision reads the state it refreshed.
Revision(t) ==
  /\ At(t, "revision") /\ Unlocked(E(t))
  /\ Return(t)
  /\ UNCHANGED <<file, order, caches, epochs, limits>>

----------------------------------------------------------------------------
(* Sorted searches.                                                        *)

\* order_tables: the mapping and its epoch, read together.
ReadOrder(t) ==
  /\ At(t, "order") \/ At(t, "group_order")
  /\ Unlocked(E(t))
  /\ Goes(t, "tables", [threads[t] EXCEPT !.epoch = order[E(t)].epoch,
                                          !.mapping = Held(E(t))])
  /\ Private

\* Mutant of UseTables: the tables that are there are used.
UseAnyTables(t) ==
  /\ At(t, "tables") /\ tables[E(t)].epoch # 0
  /\ Goes(t, "rank", [threads[t] EXCEPT !.mapping = tables[E(t)].mapping])
  /\ Private

\* The tables of that epoch are there ...
UseTables(t) ==
  /\ At(t, "tables") /\ tables[E(t)].epoch = threads[t].epoch
  /\ Goes(t, "rank", [threads[t] EXCEPT !.mapping = tables[E(t)].mapping])
  /\ Private

\* ... or are built, and take the place of the others.
BuildTables(t) ==
  /\ At(t, "tables") /\ tables[E(t)].epoch # threads[t].epoch
  /\ tables' = [tables EXCEPT ![E(t)] = [epoch |-> threads[t].epoch,
                                         mapping |-> threads[t].mapping]]
  /\ Goes(t, "rank", threads[t])
  /\ UNCHANGED <<file, file_lock, order, writing, cache_epoch, pages, groups,
                 epochs, limits>>

Grouped(t) == threads[t].after = "group_order"

\* ranked_page: the cached page of this order and snapshot, if there is one.
Lookup(t) ==
  /\ At(t, "rank") /\ ~Grouped(t)
  /\ \/ \E page \in pages[E(t)] :
          /\ page.epoch = threads[t].epoch /\ page.cached = cache_epoch[E(t)]
          /\ Goes(t, "done", [threads[t] EXCEPT !.mapping = page.mapping])
     \/ /\ \A page \in pages[E(t)] :
             page.epoch # threads[t].epoch \/ page.cached # cache_epoch[E(t)]
        /\ Goes(t, "store", [threads[t] EXCEPT !.key = threads[t].epoch,
                                               !.cached = cache_epoch[E(t)]])
  /\ Private

Page(t) == [epoch |-> threads[t].key, cached |-> threads[t].cached,
            mapping |-> threads[t].mapping]

\* PageCache::store_ranked: not after a clear.
Store(t) ==
  /\ At(t, "store")
  /\ pages' = IF threads[t].cached = cache_epoch[E(t)]
              THEN [pages EXCEPT ![E(t)] = @ \cup {Page(t)}]
              ELSE pages
  /\ Goes(t, "done", threads[t])
  /\ UNCHANGED <<file, file_lock, order, writing, tables, cache_epoch, groups,
                 epochs, limits>>

\* group_cache_key: the key comes first ...
GroupKey(t) ==
  /\ At(t, "group_key") /\ Unlocked(E(t))
  /\ Goes(t, "group_lookup", [threads[t] EXCEPT !.key = order[E(t)].epoch])
  /\ Private

GroupLookup(t) ==
  /\ At(t, "group_lookup")
  /\ LET hit(page) == page.epoch = threads[t].key /\ page.cached = cache_epoch[E(t)]
     IN  \/ \E page \in groups[E(t)] :
              hit(page) /\ Goes(t, "done", [threads[t] EXCEPT !.mapping = page.mapping])
         \/ /\ \A page \in groups[E(t)] : ~hit(page)
            /\ Goes(t, "stat", [threads[t] EXCEPT !.after = "group_order",
                                                  !.cached = cache_epoch[E(t)]])
  /\ Private

\* ... and the order is read again, to group by, before the page is stored.
GroupStore(t) ==
  /\ At(t, "rank") /\ Grouped(t)
  /\ groups' = [groups EXCEPT ![E(t)] = @ \cup {Page(t)}]
  /\ Goes(t, "done", threads[t])
  /\ UNCHANGED <<file, file_lock, order, writing, tables, cache_epoch, pages,
                 epochs, limits>>

Done(t) ==
  /\ At(t, "done")
  /\ Return(t)
  /\ UNCHANGED <<file, order, caches, epochs, limits>>

\* The process of an engine ends and the engine is opened again.
Restart(e) ==
  /\ restarts < MaxRestarts /\ restarts' = restarts + 1
  /\ threads' = [t \in Threads |-> IF E(t) = e THEN IdleThread ELSE threads[t]]
  /\ writing' = [writing EXCEPT ![e] = NoThread]
  /\ file_lock' = IF \E t \in Threads : E(t) = e /\ t = file_lock
                  THEN NoThread ELSE file_lock
  /\ order' = [order EXCEPT ![e] = State(FileMapping, file.stamp)]
  /\ NewEpoch(FileMapping)
  /\ tables' = [tables EXCEPT ![e] = [epoch |-> 0, mapping |-> Default]]
  /\ cache_epoch' = [cache_epoch EXCEPT ![e] = 0]
  /\ pages' = [pages EXCEPT ![e] = {}]
  /\ groups' = [groups EXCEPT ![e] = {}]
  /\ UNCHANGED <<file, calls_left, unreadable>>

Call(t) ==
  \/ \E places \in SetsOf[t] : set_book_order(t, places)
  \/ book_order_revision(t) \/ ranked_page(t) \/ collect_grouped(t)

Step(t) ==
  \/ LocalLock(t) \/ FileLock(t) \/ Load(t) \/ Save(t) \/ Unchanged(t)
  \/ Install(t) \/ ClearSet(t)
  \/ Stat(t) \/ Compare(t) \/ Refresh(t) \/ Read(t) \/ Take(t)
  \/ ClearRefreshed(t)
  \/ Revision(t) \/ ReadOrder(t) \/ UseTables(t) \/ BuildTables(t)
  \/ Lookup(t) \/ Store(t) \/ GroupKey(t) \/ GroupLookup(t) \/ GroupStore(t)
  \/ Done(t)

Finished == calls_left = 0 /\ \A t \in Threads : At(t, "idle")

Next ==
  \/ \E t \in Threads : Call(t) \/ Step(t) \/ SetFails(t)
  \/ \E e \in Engines : Restart(e)
  \/ Finished /\ UNCHANGED vars

Spec == Init /\ [][Next]_vars

\* A thread goes on with its call; nothing makes a failure happen.
FairSpec == Spec /\ \A t \in Threads : WF_vars(Step(t))

----------------------------------------------------------------------------
(* Properties.                                                             *)

Points == {"idle", "local_lock", "file_lock", "load", "save", "install", "clear",
           "stat", "compare", "refresh", "read", "take", "clear_refreshed", "revision",
           "order", "tables", "rank", "store", "done",
           "group_key", "group_lookup", "group_order"}
Afters == {"idle", "revision", "order", "group_key", "group_order"}
Thread == [pc : Points, after : Afters, places : Places, mapping : Mapping,
           epoch : Nat, key : Nat, stamp : Nat, cached : Nat, expected : Nat,
           blind : BOOLEAN]
PageOf == [epoch : Nat, cached : Nat, mapping : Mapping]

\* The state has its types.
TypeOK ==
  /\ file \in [revision : Nat, places : Places, stamp : Nat]
  /\ file_lock \in Threads \cup {NoThread}
  /\ order \in [Engines -> [revision : Nat, places : Places, epoch : Nat, stamp : Nat]]
  /\ writing \in [Engines -> Threads \cup {NoThread}]
  /\ tables \in [Engines -> [epoch : Nat, mapping : Mapping]]
  /\ cache_epoch \in [Engines -> Nat]
  /\ pages \in [Engines -> SUBSET PageOf] /\ groups \in [Engines -> SUBSET PageOf]
  /\ threads \in [Threads -> Thread]
  /\ next_epoch \in Nat /\ ranked_by \in [0 .. next_epoch - 1 -> Mapping]
  /\ calls_left \in 0 .. MaxCalls
  /\ unreadable \in 0 .. MaxUnreadable /\ restarts \in 0 .. MaxRestarts

\* A revision names one mapping: whatever engines and files hold the same
\* revision hold the same places (set_book_order, refresh_book_order).
RevisionNamesMapping ==
  LET mappings == {Held(e) : e \in Engines} \cup {FileMapping}
  IN  \A m, n \in mappings : m.revision = n.revision => m.places = n.places

\* An engine never goes back to an older mapping, although a refresh may read
\* the file while the engine stores a newer one (refresh_book_order).
NeverGoesBack == [][\A e \in Engines : order'[e].revision >= order[e].revision]_vars

\* A sorted search ranks by a mapping no older than the one the file held
\* when the search began, whichever engine put it there, also when its page
\* comes from a cache; a search that failed to read the file is excused
\* (set_book_order: "sort by it from the next call on", "every engine").
SortedByLastMapping ==
  \A t \in Threads :
    At(t, "done") /\ ~threads[t].blind =>
      threads[t].mapping.revision >= threads[t].expected

\* A ranked page in the cache was ranked by the mapping its key names, and so
\* were the tables (ranked_page, CachedOrderTables).
RankedByItsEpoch ==
  \A e \in Engines :
    /\ \A page \in pages[e] : page.mapping = ranked_by[page.epoch]
    /\ tables[e].mapping = ranked_by[tables[e].epoch]

\* Every call returns, whatever locks others hold (set_book_order: the lock
\* order it states). The calls are MaxCalls in all: none that has begun is left
\* waiting when the others are through.
CallsReturn == []<>(\A t \in Threads : At(t, "idle"))
=============================================================================
