-------------------------- MODULE BookOrderProofs ---------------------------
(* Theorems about the order mapping several engines share.  That a page is *)
(* kept with the mapping its key names holds whatever goes wrong, and so   *)
(* does that no call waits for good or goes on for ever; the others are    *)
(* about runs in which the mapping file can be read, since a read that     *)
(* fails makes the engine take the order for empty.                        *)
EXTENDS BookOrder, TLAPS

----------------------------------------------------------------------------
(* The inductive invariant.                                                *)

\* Whatever holds an epoch holds the mapping the epoch stands for.
OrdersRanked ==
  \A e \in Engines : order[e].epoch < next_epoch /\ ranked_by[order[e].epoch] = Held(e)

TablesRanked ==
  \A e \in Engines : /\ tables[e].epoch < next_epoch
                     /\ ranked_by[tables[e].epoch] = tables[e].mapping

PagesRanked ==
  \A e \in Engines : \A page \in pages[e] :
    page.epoch < next_epoch /\ ranked_by[page.epoch] = page.mapping

Ranks ==
  /\ next_epoch >= 2 /\ ranked_by[0] = Default
  /\ OrdersRanked /\ TablesRanked /\ PagesRanked

\* A search ranks by the mapping of the epoch it read.
RanksBy(r) ==
  /\ r.pc \in {"tables", "rank", "store"} =>
       r.epoch < next_epoch /\ ranked_by[r.epoch] = r.mapping
  /\ r.pc = "store" => r.key = r.epoch

\* The n-th save is revision n; no engine is ahead of the file, nor has a
\* stamp newer than its mapping.
InStep ==
  /\ file.stamp = file.revision
  /\ \A e \in Engines : /\ order[e].stamp <= order[e].revision
                        /\ order[e].revision <= file.revision

\* A grouped page may be newer than its key says, never older.
GroupsRanked ==
  \A e \in Engines : \A page \in groups[e] :
    /\ page.epoch < next_epoch
    /\ ranked_by[page.epoch].revision <= page.mapping.revision

\* What thread t may rely on at each point of a call that holds r: the locks,
\* the file while it holds the lock file, the order while it holds the lock
\* of the engine, and mappings no older than the call.
Keeps(t, r) ==
  /\ r.expected <= file.revision
  /\ r.pc \in {"load", "save", "install", "clear"} => file_lock = t
  /\ r.pc \in {"file_lock", "load", "save", "install", "read", "take"} => writing[E(t)] = t
  /\ r.pc = "save" => r.mapping.revision = file.revision + 1
  /\ r.pc = "install" => r.mapping = FileMapping
  /\ r.pc \in {"compare", "read"} => r.stamp <= file.stamp
  /\ r.pc = "compare" => r.expected <= r.stamp
  /\ r.pc = "take" => /\ order[E(t)].revision <= r.mapping.revision
                      /\ r.mapping.revision <= file.revision
                      /\ r.stamp <= r.mapping.revision
                      /\ r.expected <= r.mapping.revision
  /\ r.pc \in {"clear_refreshed", "revision", "order", "group_key", "group_order"} =>
       r.expected <= order[E(t)].revision
  /\ r.pc \in {"tables", "rank", "store", "done"} => r.expected <= r.mapping.revision
  /\ r.pc = "group_lookup" => r.expected <= ranked_by[r.key].revision
  /\ r.pc = "group_lookup" \/ r.after = "group_order" =>
       r.key < next_epoch /\ ranked_by[r.key].revision <= order[E(t)].revision
  /\ r.after = "group_order" /\ r.pc \in {"tables", "rank"} =>
       ranked_by[r.key].revision <= r.mapping.revision

\* Each revision that is anywhere names one mapping.
Named ==
  \E name \in [Nat -> Places] :
    /\ file.places = name[file.revision]
    /\ \A e \in Engines : order[e].places = name[order[e].revision]
    /\ \A t \in Threads : At(t, "take") =>
         threads[t].mapping.places = name[threads[t].mapping.revision]

Readable == MaxUnreadable = 0

IInv ==
  /\ TypeOK /\ Ranks /\ \A t \in Threads : RanksBy(threads[t])
  /\ Readable =>
       InStep /\ GroupsRanked /\ Named /\ \A t \in Threads : Keeps(t, threads[t])

----------------------------------------------------------------------------
(* Types.                                                                  *)

\* The types of what is neither the file, the order, the epochs nor a call.
RestTypes ==
  /\ file_lock \in Threads \cup {NoThread}
  /\ writing \in [Engines -> Threads \cup {NoThread}]
  /\ tables \in [Engines -> [epoch : Nat, mapping : Mapping]]
  /\ cache_epoch \in [Engines -> Nat]
  /\ pages \in [Engines -> SUBSET PageOf] /\ groups \in [Engines -> SUBSET PageOf]
  /\ calls_left \in 0 .. MaxCalls
  /\ unreadable \in 0 .. MaxUnreadable /\ restarts \in 0 .. MaxRestarts

Order == [revision : Nat, places : Places, epoch : Nat, stamp : Nat]
File == [revision : Nat, places : Places, stamp : Nat]

\* The parts of the type invariant.
LEMMA TypeParts ==
  TypeOK <=> /\ RestTypes
             /\ file \in File /\ order \in [Engines -> Order]
             /\ threads \in [Threads -> Thread]
             /\ next_epoch \in Nat /\ ranked_by \in [0 .. next_epoch - 1 -> Mapping]
BY DEF TypeOK, RestTypes, File, Order

\* A thread calls an engine.
LEMMA ItsEngine == \A t \in Threads : E(t) \in Engines
BY OrderAssumption DEF E

\* The fields of what a thread holds.
LEMMA CallFields ==
  ASSUME NEW r \in Thread
  PROVE  /\ r.pc \in Points /\ r.after \in Afters /\ r.places \in Places
         /\ r.mapping \in Mapping /\ r.mapping.revision \in Nat /\ r.mapping.places \in Places
         /\ r.epoch \in Nat /\ r.key \in Nat /\ r.stamp \in Nat /\ r.cached \in Nat
         /\ r.expected \in Nat /\ r.blind \in BOOLEAN
BY DEF Thread, Mapping

\* The call a thread is in, and the mappings of an engine and of the file.
LEMMA StateFields ==
  ASSUME TypeOK
  PROVE  /\ \A t \in Threads : threads[t] \in Thread
         /\ \A e \in Engines : /\ order[e] \in Order
                               /\ order[e].revision \in Nat /\ order[e].places \in Places
                               /\ order[e].epoch \in Nat /\ order[e].stamp \in Nat
                               /\ Held(e) \in Mapping
                               /\ Held(e).revision = order[e].revision
                               /\ Held(e).places = order[e].places
         /\ file \in File /\ file.revision \in Nat /\ file.places \in Places
         /\ file.stamp \in Nat
         /\ FileMapping \in Mapping /\ FileMapping.revision = file.revision
         /\ FileMapping.places = file.places
         /\ next_epoch \in Nat
         /\ \A k \in Nat : k < next_epoch => /\ ranked_by[k] \in Mapping
                                            /\ ranked_by[k].revision \in Nat
<1>1. \A t \in Threads : threads[t] \in Thread
  BY DEF TypeOK
<1>2. ASSUME NEW e \in Engines
      PROVE  /\ order[e] \in Order
             /\ order[e].revision \in Nat /\ order[e].places \in Places
             /\ order[e].epoch \in Nat /\ order[e].stamp \in Nat
             /\ Held(e) \in Mapping
             /\ Held(e).revision = order[e].revision
             /\ Held(e).places = order[e].places
  BY DEF TypeOK, Held, Mapping, Order
<1>3. /\ file \in File /\ file.revision \in Nat /\ file.places \in Places
      /\ file.stamp \in Nat
      /\ FileMapping \in Mapping /\ FileMapping.revision = file.revision
      /\ FileMapping.places = file.places
  BY DEF TypeOK, FileMapping, Mapping, File
<1>4. /\ next_epoch \in Nat
      /\ \A k \in Nat : k < next_epoch => ranked_by[k] \in Mapping /\ ranked_by[k].revision \in Nat
  BY DEF TypeOK, Mapping
<1>5. QED
  BY <1>1, <1>2, <1>3, <1>4

\* The empty mapping, and a thread that is in no call.
LEMMA Empty ==
  /\ Default \in Mapping /\ Default.revision = 0 /\ Default.places = NoPlaces
  /\ IdleThread \in Thread /\ IdleThread.pc = "idle" /\ IdleThread.after = "idle"
  /\ IdleThread.expected = 0
<1>1. Default \in Mapping /\ Default.revision = 0 /\ Default.places = NoPlaces
  BY OrderAssumption DEF Default, Mapping
<1>2. QED
  BY <1>1, OrderAssumption DEF IdleThread, Thread, Points, Afters

\* Going to another point changes nothing else a thread holds.
LEMMA Moved ==
  ASSUME NEW r \in Thread, NEW pc \in Points, NEW q, q = [r EXCEPT !.pc = pc]
  PROVE  /\ q \in Thread /\ q.pc = pc
         /\ q.after = r.after /\ q.places = r.places /\ q.mapping = r.mapping
         /\ q.epoch = r.epoch /\ q.key = r.key /\ q.stamp = r.stamp
         /\ q.cached = r.cached /\ q.expected = r.expected /\ q.blind = r.blind
BY DEF Thread

----------------------------------------------------------------------------
(* What the steps of one thread leave to the others.                       *)

\* A step of t: locks of others stay theirs, the file and the order change
\* under their locks and go forward only, epochs keep their mappings.
Epochs ==
  /\ next_epoch <= next_epoch'
  /\ \A k \in Nat : k < next_epoch => ranked_by'[k] = ranked_by[k]

Locks(t) ==
  /\ \A u \in Threads \ {t} : file_lock = u => file_lock' = u
  /\ \A u \in Threads \ {t} : writing[E(u)] = u => writing'[E(u)] = u

Onward(t) ==
  /\ \/ file' = file
     \/ file_lock = t /\ file'.revision = file.revision + 1 /\ file'.stamp = file.stamp + 1
  /\ \A e \in Engines : \/ order'[e] = order[e]
                        \/ writing[e] = t /\ order[e].revision <= order'[e].revision

\* What another thread relies on stays so.
LEMMA OthersKeep ==
  ASSUME TypeOK, TypeOK', NEW t \in Threads, NEW u \in Threads \ {t}, NEW r \in Thread,
         Keeps(u, r), Epochs, Locks(t), Onward(t)
  PROVE  Keeps(u, r)'
<1>1. PICK e : e = E(u)
  OBVIOUS
<1>2. e \in Engines
  BY <1>1, ItsEngine
<1>3. /\ file.revision \in Nat /\ file'.revision \in Nat /\ file.stamp \in Nat
      /\ file'.stamp \in Nat /\ order[e].revision \in Nat /\ order'[e].revision \in Nat
      /\ next_epoch \in Nat /\ next_epoch' \in Nat
  <2>1. file'.revision \in Nat /\ file'.stamp \in Nat /\ next_epoch' \in Nat
    BY DEF TypeOK
  <2>2. order'[e].revision \in Nat
    BY <1>2 DEF TypeOK
  <2>3. QED
    BY <1>2, <2>1, <2>2, StateFields
<1>4. file.revision <= file'.revision /\ file.stamp <= file'.stamp
  BY <1>3 DEF Onward
<1>5. file_lock = u => file_lock' = u /\ file' = file
  BY DEF Locks, Onward
<1>6. writing[e] = u => writing'[e] = u /\ order'[e] = order[e]
  BY <1>1, <1>2 DEF Locks, Onward
<1>7. order[e].revision <= order'[e].revision
  BY <1>2, <1>3 DEF Onward
<1>8. /\ r.expected \in Nat /\ r.mapping.revision \in Nat /\ r.key \in Nat /\ r.stamp \in Nat
      /\ r.key < next_epoch => r.key < next_epoch' /\ ranked_by'[r.key] = ranked_by[r.key]
                               /\ ranked_by[r.key].revision \in Nat
  BY <1>3, CallFields, StateFields DEF Epochs
<1>9. file' = file => FileMapping' = FileMapping
  BY DEF FileMapping
<1>10. /\ r.expected <= file'.revision
       /\ r.pc \in {"load", "save", "install", "clear"} => file_lock' = u
       /\ r.pc \in {"file_lock", "load", "save", "install", "read", "take"} => writing'[e] = u
       /\ r.pc = "save" => r.mapping.revision = file'.revision + 1
       /\ r.pc = "install" => r.mapping = FileMapping'
       /\ r.pc \in {"compare", "read"} => r.stamp <= file'.stamp
       /\ r.pc = "compare" => r.expected <= r.stamp
  BY <1>1, <1>3, <1>4, <1>5, <1>6, <1>8, <1>9 DEF Keeps
<1>11. r.pc = "take" => /\ order'[e].revision <= r.mapping.revision
                        /\ r.mapping.revision <= file'.revision
                        /\ r.stamp <= r.mapping.revision
                        /\ r.expected <= r.mapping.revision
  BY <1>1, <1>3, <1>4, <1>6, <1>8 DEF Keeps
<1>12. /\ r.pc \in {"clear_refreshed", "revision", "order", "group_key", "group_order"} =>
            r.expected <= order'[e].revision
       /\ r.pc \in {"tables", "rank", "store", "done"} => r.expected <= r.mapping.revision
  BY <1>1, <1>3, <1>7, <1>8 DEF Keeps
<1>13. /\ r.pc = "group_lookup" => r.expected <= ranked_by'[r.key].revision
       /\ r.pc = "group_lookup" \/ r.after = "group_order" =>
            r.key < next_epoch' /\ ranked_by'[r.key].revision <= order'[e].revision
  BY <1>1, <1>3, <1>7, <1>8 DEF Keeps
<1>14. r.after = "group_order" /\ r.pc \in {"tables", "rank"} =>
         ranked_by'[r.key].revision <= r.mapping.revision
  BY <1>8 DEF Keeps
<1>15. QED
  BY <1>1, <1>10, <1>11, <1>12, <1>13, <1>14 DEF Keeps

\* What a search ranks by stays what its epoch stands for.
LEMMA RanksByKeeps ==
  ASSUME TypeOK, NEW r \in Thread, RanksBy(r), Epochs, next_epoch' \in Nat
  PROVE  RanksBy(r)'
<1>1. r.epoch \in Nat /\ next_epoch \in Nat
  BY CallFields, StateFields
<1>2. r.epoch < next_epoch => r.epoch < next_epoch' /\ ranked_by'[r.epoch] = ranked_by[r.epoch]
  BY <1>1 DEF Epochs
<1>3. QED
  BY <1>2 DEF RanksBy

\* Revisions go on naming one mapping when engines take in the mapping of the
\* file, or one that was read from it, and threads read the file.
LEMMA NamedKeeps ==
  ASSUME TypeOK, Named, file' = file,
         \A e \in Engines :
           \/ order'[e].revision = order[e].revision /\ order'[e].places = order[e].places
           \/ order'[e].revision = file.revision /\ order'[e].places = file.places
           \/ \E t \in Threads : /\ At(t, "take")
                                 /\ order'[e].revision = threads[t].mapping.revision
                                 /\ order'[e].places = threads[t].mapping.places,
         \A t \in Threads : At(t, "take")' => \/ threads'[t] = threads[t]
                                              \/ threads'[t].mapping = FileMapping
  PROVE  Named'
<1>1. PICK name \in [Nat -> Places] :
        /\ file.places = name[file.revision]
        /\ \A e \in Engines : order[e].places = name[order[e].revision]
        /\ \A t \in Threads : At(t, "take") =>
             threads[t].mapping.places = name[threads[t].mapping.revision]
  BY DEF Named
<1>2. \A e \in Engines : order'[e].places = name[order'[e].revision]
  BY <1>1
<1>3. \A t \in Threads : At(t, "take")' =>
        threads'[t].mapping.places = name[threads'[t].mapping.revision]
  BY <1>1, StateFields DEF At
<1>4. QED
  BY <1>1, <1>2, <1>3 DEF Named

\* One thread goes on, with what it may rely on.
LEMMA OneKeeps ==
  ASSUME IInv, TypeOK', NEW t \in Threads, NEW r \in Thread,
         threads' = [threads EXCEPT ![t] = r],
         Epochs, Ranks', RanksBy(r)',
         Readable => /\ Locks(t) /\ Onward(t)
                     /\ InStep' /\ GroupsRanked' /\ Named' /\ Keeps(t, r)'
  PROVE  IInv'
<1>1. TypeOK /\ next_epoch' \in Nat /\ (Readable' <=> Readable)
  BY DEF IInv, TypeOK, Readable
<1>2. threads'[t] = r /\ \A u \in Threads \ {t} : threads'[u] = threads[u]
  BY <1>1 DEF TypeOK
<1>3. \A u \in Threads : threads[u] \in Thread
  BY <1>1, StateFields
<1>4. ASSUME NEW u \in Threads PROVE RanksBy(threads[u])'
  <2>1. CASE u = t
    BY <1>2, <2>1 DEF RanksBy
  <2>2. CASE u # t
    <3>1. PICK q \in Thread : q = threads[u]
      BY <1>3
    <3>2. RanksBy(q)'
      BY <1>1, <3>1, RanksByKeeps DEF IInv
    <3>3. threads'[u] = q
      BY <1>2, <2>2, <3>1
    <3>4. QED
      BY <3>2, <3>3 DEF RanksBy
  <2>3. QED
    BY <2>1, <2>2
<1>5. ASSUME Readable, NEW u \in Threads PROVE Keeps(u, threads[u])'
  <2>1. CASE u = t
    <3>1. Keeps(t, r)'
      BY <1>5
    <3>2. QED
      BY <1>2, <2>1, <3>1 DEF Keeps
  <2>2. CASE u # t
    <3>1. PICK q \in Thread : q = threads[u]
      BY <1>3
    <3>2. Keeps(u, q) /\ Locks(t) /\ Onward(t)
      BY <1>5, <3>1 DEF IInv
    <3>3. Keeps(u, q)'
      BY <1>1, <2>2, <3>2, OthersKeep
    <3>4. threads'[u] = q
      BY <1>2, <2>2, <3>1
    <3>5. QED
      BY <3>3, <3>4 DEF Keeps
  <2>3. QED
    BY <2>1, <2>2
<1>6. QED
  BY <1>1, <1>4, <1>5 DEF IInv

\* A step that leaves the file, the order and the epochs alone.
LEMMA CallKeeps ==
  ASSUME IInv, NEW t \in Threads, NEW r \in Thread,
         threads' = [threads EXCEPT ![t] = r], RestTypes',
         file' = file, order' = order, next_epoch' = next_epoch, ranked_by' = ranked_by,
         TablesRanked', PagesRanked', RanksBy(r),
         Readable => /\ Locks(t) /\ GroupsRanked' /\ Keeps(t, r)'
                     /\ r.pc = "take" => r.mapping = FileMapping
  PROVE  IInv'
<1>1. TypeOK
  BY DEF IInv
<1>2. TypeOK'
  <2>1. threads' \in [Threads -> Thread]
    BY <1>1 DEF TypeOK
  <2>2. QED
    BY <1>1, <2>1, TypeParts DEF TypeOK, RestTypes
<1>3. Epochs
  BY <1>1 DEF Epochs, TypeOK
<1>4. Ranks'
  BY DEF IInv, Ranks, OrdersRanked, Held
<1>5. RanksBy(r)'
  BY DEF RanksBy
<1>6. Onward(t)
  BY DEF Onward
<1>7. ASSUME Readable PROVE InStep' /\ Named'
  <2>1. InStep'
    BY <1>7 DEF IInv, InStep
  <2>2. \A u \in Threads : At(u, "take")' => threads'[u] = threads[u] \/ threads'[u].mapping = FileMapping
    BY <1>1, <1>7 DEF TypeOK, At
  <2>3. Named'
    BY <1>1, <1>7, <2>2, NamedKeeps DEF IInv
  <2>4. QED
    BY <2>1, <2>3
<1>8. QED
  BY <1>2, <1>3, <1>4, <1>5, <1>6, <1>7, OneKeeps

\* A step that changes only what its thread holds.
LEMMA QuietKeeps ==
  ASSUME IInv, NEW t \in Threads, NEW r \in Thread,
         threads' = [threads EXCEPT ![t] = r],
         file' = file, file_lock' = file_lock, order' = order, writing' = writing,
         tables' = tables, cache_epoch' = cache_epoch, pages' = pages, groups' = groups,
         next_epoch' = next_epoch, ranked_by' = ranked_by,
         calls_left' \in 0 .. MaxCalls, unreadable' \in 0 .. MaxUnreadable,
         restarts' = restarts, RanksBy(r),
         Readable => Keeps(t, r) /\ (r.pc = "take" => r.mapping = FileMapping)
  PROVE  IInv'
<1>1. RestTypes'
  BY TypeParts DEF IInv, RestTypes
<1>2. TablesRanked' /\ PagesRanked'
  BY DEF IInv, Ranks, TablesRanked, PagesRanked
<1>3. Readable => GroupsRanked'
  BY DEF IInv, GroupsRanked
<1>4. Locks(t)
  BY DEF Locks
<1>5. Readable => Keeps(t, r)'
  BY DEF Keeps, FileMapping
<1>6. QED
  BY <1>1, <1>2, <1>3, <1>4, <1>5, CallKeeps

----------------------------------------------------------------------------
(* The steps of a call that change only what its thread holds.             *)

\* What the invariant says of the thread whose step it is.
LEMMA Its ==
  ASSUME IInv, NEW t \in Threads
  PROVE  /\ TypeOK /\ threads[t] \in Thread /\ E(t) \in Engines /\ RanksBy(threads[t])
         /\ Readable => Keeps(t, threads[t])
BY StateFields, ItsEngine DEF IInv

\* The bounds on calls and failed reads are kept.
LEMMA Limits ==
  ASSUME IInv
  PROVE  calls_left \in 0 .. MaxCalls /\ unreadable \in 0 .. MaxUnreadable
BY DEF IInv, TypeOK

\* While the file can be read, a read gives what it holds; and reads that
\* fail are counted.
LEMMA ReadsFile ==
  ASSUME IInv, NEW failed \in BOOLEAN, CountRead(failed)
  PROVE  /\ unreadable' \in 0 .. MaxUnreadable /\ load(failed) \in Mapping
         /\ Readable => load(failed) = FileMapping
<1>1. unreadable \in Nat /\ MaxUnreadable \in Nat /\ unreadable <= MaxUnreadable
  BY OrderAssumption DEF IInv, TypeOK
<1>2. unreadable' \in 0 .. MaxUnreadable
  BY <1>1 DEF CountRead
<1>3. load(failed) \in Mapping
  BY StateFields, Empty DEF IInv, load
<1>4. Readable => ~failed
  BY <1>1 DEF Readable, CountRead
<1>5. QED
  BY <1>2, <1>3, <1>4 DEF load

\* A call begins: it has promised nothing yet.
LEMMA StartKeeps ==
  ASSUME IInv, NEW t \in Threads, NEW pc \in {"local_lock", "stat"},
         NEW after \in {"idle", "revision", "order", "group_key"}, NEW places \in Places,
         Start(t, pc, after, places)
  PROVE  IInv'
<1>1. PICK q, r :
        /\ q = [IdleThread EXCEPT !.after = after, !.places = places, !.expected = file.revision]
        /\ r = [q EXCEPT !.pc = pc]
  OBVIOUS
<1>2. file.revision \in Nat
  BY StateFields DEF IInv
<1>3. q \in Thread /\ q.after = after /\ q.expected = file.revision
  BY <1>1, <1>2, Empty DEF Thread, Afters
<1>p. pc \in Points
  BY DEF Points
<1>4. r \in Thread /\ r.pc = pc /\ r.after = after /\ r.expected = file.revision
  BY <1>1, <1>3, <1>p DEF Thread
<1>5. /\ threads' = [threads EXCEPT ![t] = r] /\ calls_left' \in 0 .. MaxCalls
      /\ unreadable' \in 0 .. MaxUnreadable
      /\ file' = file /\ file_lock' = file_lock /\ order' = order /\ writing' = writing
      /\ tables' = tables /\ cache_epoch' = cache_epoch /\ pages' = pages /\ groups' = groups
      /\ next_epoch' = next_epoch /\ ranked_by' = ranked_by /\ restarts' = restarts
  BY <1>1, Limits, OrderAssumption DEF Start, Goes, caches, epochs
<1>6. RanksBy(r)
  BY <1>4 DEF RanksBy
<1>7. Keeps(t, r)
  BY <1>2, <1>4 DEF Keeps
<1>8. QED
  BY <1>4, <1>5, <1>6, <1>7, QuietKeeps

\* Every kind of call begins so.
LEMMA CallBegins ==
  ASSUME IInv, NEW t \in Threads, Call(t)
  PROVE  IInv'
<1>1. NoPlaces \in Places /\ SetsOf[t] \subseteq Places
  BY OrderAssumption
<1>2. QED
  BY <1>1, StartKeeps DEF Call, set_book_order, book_order_revision, ranked_page, collect_grouped

\* A private step is a quiet one.
LEMMA PrivateKeeps ==
  ASSUME IInv, NEW t \in Threads, NEW r \in Thread, Private,
         threads' = [threads EXCEPT ![t] = r], RanksBy(r), r.pc # "take",
         Readable => Keeps(t, r)
  PROVE  IInv'
<1>1. /\ file' = file /\ file_lock' = file_lock /\ order' = order /\ writing' = writing
      /\ tables' = tables /\ cache_epoch' = cache_epoch /\ pages' = pages /\ groups' = groups
      /\ next_epoch' = next_epoch /\ ranked_by' = ranked_by /\ restarts' = restarts
      /\ calls_left' \in 0 .. MaxCalls /\ unreadable' \in 0 .. MaxUnreadable
  BY Limits DEF Private, caches, epochs, limits
<1>2. QED
  BY <1>1, QuietKeeps

\* set_book_order reads the file under the lock file: what it will save is
\* the file's next revision.
LEMMA LoadKeeps ==
  ASSUME IInv, NEW t \in Threads, Load(t)
  PROVE  IInv'
<1>1. PICK f \in Thread : f = threads[t] /\ (Readable => Keeps(t, f)) /\ f.pc = "load"
  BY Its DEF Load, At
<1>2. PICK failed \in BOOLEAN :
        /\ CountRead(failed)
        /\ LET m == load(failed)
               next == [revision |-> m.revision + 1, places |-> f.places]
           IN  IF m.places # f.places
               THEN Goes(t, "save", [f EXCEPT !.mapping = next])
               ELSE Goes(t, "install", [f EXCEPT !.mapping = m])
  BY <1>1 DEF Load
<1>3. PICK m \in Mapping : m = load(failed) /\ (Readable => m = FileMapping)
  BY <1>2, ReadsFile
<1>4. PICK next : next = [revision |-> m.revision + 1, places |-> f.places]
  OBVIOUS
<1>5. next \in Mapping /\ next.revision = m.revision + 1
  BY <1>4, CallFields DEF Mapping
<1>6. PICK mapping \in Mapping, pc \in {"save", "install"} :
        /\ Goes(t, pc, [f EXCEPT !.mapping = mapping])
        /\ pc = "save" => mapping = next
        /\ pc = "install" => mapping = m
  BY <1>2, <1>3, <1>4, <1>5
<1>7. PICK q, r : q = [f EXCEPT !.mapping = mapping] /\ r = [q EXCEPT !.pc = pc]
  OBVIOUS
<1>8. q \in Thread /\ q.mapping = mapping /\ q.expected = f.expected /\ q.after = f.after
      /\ q.key = f.key
  BY <1>7 DEF Thread
<1>p. pc \in Points
  BY DEF Points
<1>9. /\ r \in Thread /\ r.pc = pc /\ r.mapping = mapping /\ r.expected = f.expected
      /\ r.after = f.after /\ r.key = f.key
  BY <1>7, <1>8, <1>p DEF Thread
<1>10. /\ threads' = [threads EXCEPT ![t] = r] /\ calls_left' \in 0 .. MaxCalls
       /\ unreadable' \in 0 .. MaxUnreadable
       /\ file' = file /\ file_lock' = file_lock /\ order' = order /\ writing' = writing
       /\ tables' = tables /\ cache_epoch' = cache_epoch /\ pages' = pages /\ groups' = groups
       /\ next_epoch' = next_epoch /\ ranked_by' = ranked_by /\ restarts' = restarts
  BY <1>2, <1>6, <1>7, Limits, ReadsFile DEF Load, Goes, caches, epochs
<1>11. RanksBy(r)
  BY <1>9 DEF RanksBy
<1>12. ASSUME Readable PROVE Keeps(t, r)
  <2>1. m = FileMapping /\ m.revision = file.revision
    BY <1>3, <1>12, StateFields DEF IInv
  <2>2. Keeps(t, f)
    BY <1>1, <1>12
  <2>3. QED
    BY <1>1, <1>5, <1>6, <1>9, <2>1, <2>2 DEF Keeps
<1>13. QED
  BY <1>9, <1>10, <1>11, <1>12, QuietKeeps

\* A refresh sees the stamp the file has, which is no older than the call.
LEMMA StatKeeps ==
  ASSUME IInv, NEW t \in Threads, Stat(t)
  PROVE  IInv'
<1>1. PICK f \in Thread : f = threads[t] /\ (Readable => Keeps(t, f)) /\ f.pc = "stat"
  BY Its DEF Stat, At
<1>2. PICK q, r : q = [f EXCEPT !.stamp = file.stamp] /\ r = [q EXCEPT !.pc = "compare"]
  OBVIOUS
<1>3. file.stamp \in Nat /\ file.revision \in Nat
  BY StateFields DEF IInv
<1>4. q \in Thread /\ q.stamp = file.stamp /\ q.expected = f.expected /\ q.after = f.after
      /\ q.key = f.key
  BY <1>2, <1>3 DEF Thread
<1>p. "compare" \in Points
  BY DEF Points
<1>5. /\ r \in Thread /\ r.pc = "compare" /\ r.stamp = file.stamp /\ r.expected = f.expected
      /\ r.after = f.after /\ r.key = f.key
  BY <1>2, <1>4, <1>p DEF Thread
<1>6. threads' = [threads EXCEPT ![t] = r] /\ Private
  BY <1>1, <1>2 DEF Stat, Goes
<1>7. RanksBy(r)
  BY <1>5 DEF RanksBy
<1>8. ASSUME Readable PROVE Keeps(t, r)
  <2>1. Keeps(t, f) /\ file.stamp = file.revision
    BY <1>1, <1>8 DEF IInv, InStep
  <2>2. QED
    BY <1>1, <1>3, <1>5, <2>1 DEF Keeps
<1>9. QED
  BY <1>5, <1>6, <1>7, <1>8, PrivateKeeps

\* An order with the stamp that was seen is no older than the call.
LEMMA CompareKeeps ==
  ASSUME IInv, NEW t \in Threads, Compare(t)
  PROVE  IInv'
<1>1. PICK f \in Thread : f = threads[t] /\ (Readable => Keeps(t, f)) /\ f.pc = "compare"
  BY Its DEF Compare, At
<1>2. PICK pc, r : /\ pc = IF f.stamp = order[E(t)].stamp THEN f.after ELSE "refresh"
                   /\ r = [f EXCEPT !.pc = pc]
  OBVIOUS
<1>3. f.after \in Afters /\ pc \in Afters \cup {"refresh"} /\ pc \in Points
  BY <1>2, CallFields DEF Points, Afters
<1>4. /\ r \in Thread /\ r.pc = pc /\ r.expected = f.expected /\ r.after = f.after
      /\ r.key = f.key
  BY <1>2, <1>3, Moved
<1>5. threads' = [threads EXCEPT ![t] = r] /\ Private
  BY <1>1, <1>2 DEF Compare, Goes
<1>6. RanksBy(r)
  BY <1>3, <1>4 DEF RanksBy, Afters
<1>7. ASSUME Readable PROVE Keeps(t, r)
  <2>1. Keeps(t, f) /\ order[E(t)].stamp <= order[E(t)].revision
    BY <1>1, <1>7, ItsEngine DEF IInv, InStep
  <2>2. /\ order[E(t)].stamp \in Nat /\ order[E(t)].revision \in Nat
        /\ f.stamp \in Nat /\ f.expected \in Nat
    BY Its, StateFields, CallFields
  <2>3. pc # "refresh" => f.expected <= order[E(t)].revision
    BY <1>1, <1>2, <2>1, <2>2 DEF Keeps
  <2>4. QED
    BY <1>1, <1>3, <1>4, <2>1, <2>3 DEF Keeps, Afters
<1>8. r.pc # "take"
  BY <1>3, <1>4 DEF Afters
<1>9. QED
  BY <1>4, <1>5, <1>6, <1>7, <1>8, PrivateKeeps

\* Under the lock of the engine a refresh reads a mapping that is neither
\* older than the engine's nor than the stamp it took first.
LEMMA ReadKeeps ==
  ASSUME IInv, NEW t \in Threads, Read(t)
  PROVE  IInv'
<1>1. PICK f \in Thread : f = threads[t] /\ (Readable => Keeps(t, f)) /\ f.pc = "read"
  BY Its DEF Read, At
<1>2. PICK failed \in BOOLEAN :
        /\ CountRead(failed)
        /\ Goes(t, "take", [f EXCEPT !.mapping = load(failed), !.blind = @ \/ failed])
  BY <1>1 DEF Read
<1>3. PICK m \in Mapping : m = load(failed) /\ (Readable => m = FileMapping)
  BY <1>2, ReadsFile
<1>4. PICK blind \in BOOLEAN : blind = (f.blind \/ failed)
  OBVIOUS
<1>5. PICK q, r : q = [f EXCEPT !.mapping = m, !.blind = blind] /\ r = [q EXCEPT !.pc = "take"]
  OBVIOUS
<1>6. /\ q \in Thread /\ q.mapping = m /\ q.expected = f.expected /\ q.after = f.after
      /\ q.key = f.key /\ q.stamp = f.stamp
  BY <1>5 DEF Thread
<1>p. "take" \in Points
  BY DEF Points
<1>7. /\ r \in Thread /\ r.pc = "take" /\ r.mapping = m /\ r.expected = f.expected
      /\ r.after = f.after /\ r.key = f.key /\ r.stamp = f.stamp
  BY <1>5, <1>6, <1>p DEF Thread
<1>8. q = [f EXCEPT !.mapping = load(failed), !.blind = @ \/ failed]
  BY <1>3, <1>4, <1>5
<1>9. /\ threads' = [threads EXCEPT ![t] = r] /\ calls_left' \in 0 .. MaxCalls
      /\ unreadable' \in 0 .. MaxUnreadable
      /\ file' = file /\ file_lock' = file_lock /\ order' = order /\ writing' = writing
      /\ tables' = tables /\ cache_epoch' = cache_epoch /\ pages' = pages /\ groups' = groups
      /\ next_epoch' = next_epoch /\ ranked_by' = ranked_by /\ restarts' = restarts
  BY <1>2, <1>5, <1>8, Limits, ReadsFile DEF Read, Goes, caches, epochs
<1>10. RanksBy(r)
  BY <1>7 DEF RanksBy
<1>11. ASSUME Readable PROVE Keeps(t, r) /\ r.mapping = FileMapping
  <2>1. m = FileMapping /\ m.revision = file.revision
    BY <1>3, <1>11, StateFields DEF IInv
  <2>2. Keeps(t, f) /\ file.stamp = file.revision /\ order[E(t)].revision <= file.revision
    BY <1>1, <1>11, ItsEngine DEF IInv, InStep
  <2>3. file.revision \in Nat
    BY StateFields DEF IInv
  <2>4. QED
    BY <1>1, <1>7, <2>1, <2>2, <2>3 DEF Keeps
<1>12. QED
  BY <1>7, <1>9, <1>10, <1>11, QuietKeeps

\* A search takes the mapping and its epoch together.
LEMMA ReadOrderKeeps ==
  ASSUME IInv, NEW t \in Threads, ReadOrder(t)
  PROVE  IInv'
<1>1. PICK f \in Thread : /\ f = threads[t] /\ (Readable => Keeps(t, f))
                          /\ f.pc \in {"order", "group_order"}
  BY Its DEF ReadOrder, At
<1>2. PICK e \in Engines : e = E(t)
  BY ItsEngine
<1>3. PICK q, r : /\ q = [f EXCEPT !.epoch = order[e].epoch, !.mapping = Held(e)]
                  /\ r = [q EXCEPT !.pc = "tables"]
  OBVIOUS
<1>4. /\ order[e].epoch \in Nat /\ Held(e) \in Mapping /\ order[e].epoch < next_epoch
      /\ ranked_by[order[e].epoch] = Held(e) /\ Held(e).revision = order[e].revision
  BY StateFields DEF IInv, Ranks, OrdersRanked
<1>5. /\ q \in Thread /\ q.epoch = order[e].epoch /\ q.mapping = Held(e)
      /\ q.expected = f.expected /\ q.after = f.after /\ q.key = f.key
  BY <1>3, <1>4 DEF Thread
<1>p. "tables" \in Points
  BY DEF Points
<1>6. /\ r \in Thread /\ r.pc = "tables" /\ r.epoch = order[e].epoch /\ r.mapping = Held(e)
      /\ r.expected = f.expected /\ r.after = f.after /\ r.key = f.key
  BY <1>3, <1>5, <1>p DEF Thread
<1>7. threads' = [threads EXCEPT ![t] = r] /\ Private
  BY <1>1, <1>2, <1>3 DEF ReadOrder, Goes
<1>8. RanksBy(r)
  BY <1>4, <1>6 DEF RanksBy
<1>9. ASSUME Readable PROVE Keeps(t, r)
  <2>1. Keeps(t, f)
    BY <1>1, <1>9
  <2>2. QED
    BY <1>1, <1>2, <1>4, <1>6, <2>1 DEF Keeps
<1>10. QED
  BY <1>6, <1>7, <1>8, <1>9, PrivateKeeps

\* The tables of an epoch are of its mapping, whoever built them.
LEMMA UseTablesKeeps ==
  ASSUME IInv, NEW t \in Threads, UseTables(t)
  PROVE  IInv'
<1>1. PICK f \in Thread : /\ f = threads[t] /\ (Readable => Keeps(t, f))
                          /\ RanksBy(f) /\ f.pc = "tables"
  BY Its DEF UseTables, At
<1>2. PICK e \in Engines : e = E(t)
  BY ItsEngine
<1>3. tables[e].epoch = f.epoch /\ tables[e].mapping = f.mapping
  BY <1>1, <1>2 DEF UseTables, IInv, Ranks, TablesRanked, RanksBy
<1>4. PICK q, r : q = [f EXCEPT !.mapping = f.mapping] /\ r = [q EXCEPT !.pc = "rank"]
  OBVIOUS
<1>p. "rank" \in Points
  BY DEF Points
<1>5. q \in Thread /\ q.mapping = f.mapping /\ q.epoch = f.epoch /\ q.key = f.key
      /\ q.expected = f.expected /\ q.after = f.after
  BY <1>4 DEF Thread
<1>6. /\ r \in Thread /\ r.pc = "rank" /\ r.mapping = f.mapping /\ r.epoch = f.epoch
      /\ r.key = f.key /\ r.expected = f.expected /\ r.after = f.after
  BY <1>4, <1>5, <1>p DEF Thread
<1>7. threads' = [threads EXCEPT ![t] = r] /\ Private
  BY <1>1, <1>2, <1>3, <1>4 DEF UseTables, Goes
<1>8. RanksBy(r)
  BY <1>1, <1>6 DEF RanksBy
<1>9. ASSUME Readable PROVE Keeps(t, r)
  <2>1. Keeps(t, f)
    BY <1>1, <1>9
  <2>2. QED
    BY <1>1, <1>6, <2>1 DEF Keeps
<1>10. QED
  BY <1>6, <1>7, <1>8, <1>9, PrivateKeeps

\* A cached page of the epoch was ranked by the mapping of the epoch.
LEMMA LookupKeeps ==
  ASSUME IInv, NEW t \in Threads, Lookup(t)
  PROVE  IInv'
<1>1. PICK f \in Thread : /\ f = threads[t] /\ (Readable => Keeps(t, f))
                          /\ RanksBy(f) /\ f.pc = "rank" /\ f.after # "group_order"
  BY Its DEF Lookup, At, Grouped
<1>2. PICK e \in Engines : e = E(t)
  BY ItsEngine
<1>3. CASE \E page \in pages[e] :
             /\ page.epoch = f.epoch
             /\ Goes(t, "done", [f EXCEPT !.mapping = page.mapping])
  <2>1. PICK page \in pages[e] :
          page.epoch = f.epoch /\ Goes(t, "done", [f EXCEPT !.mapping = page.mapping])
    BY <1>3
  <2>2. page.mapping = f.mapping
    BY <1>1, <2>1 DEF IInv, Ranks, PagesRanked, RanksBy
  <2>3. PICK q, r : q = [f EXCEPT !.mapping = f.mapping] /\ r = [q EXCEPT !.pc = "done"]
    OBVIOUS
  <2>p. "done" \in Points
    BY DEF Points
  <2>4. q \in Thread /\ q.mapping = f.mapping /\ q.key = f.key
        /\ q.expected = f.expected /\ q.after = f.after
    BY <2>3 DEF Thread
  <2>5. /\ r \in Thread /\ r.pc = "done" /\ r.mapping = f.mapping
        /\ r.key = f.key /\ r.expected = f.expected /\ r.after = f.after
    BY <2>3, <2>4, <2>p DEF Thread
  <2>6. threads' = [threads EXCEPT ![t] = r] /\ Private
    BY <2>1, <2>2, <2>3 DEF Lookup, Goes
  <2>7. RanksBy(r)
    BY <2>5 DEF RanksBy
  <2>8. ASSUME Readable PROVE Keeps(t, r)
    <3>1. Keeps(t, f)
      BY <1>1, <2>8
    <3>2. QED
      BY <1>1, <2>5, <3>1 DEF Keeps
  <2>9. QED
    BY <2>5, <2>6, <2>7, <2>8, PrivateKeeps
<1>4. CASE Goes(t, "store", [f EXCEPT !.key = f.epoch, !.cached = cache_epoch[e]])
  <2>1. PICK q, r : /\ q = [f EXCEPT !.key = f.epoch, !.cached = cache_epoch[e]]
                    /\ r = [q EXCEPT !.pc = "store"]
    OBVIOUS
  <2>2. cache_epoch[e] \in Nat /\ f.epoch \in Nat
    BY CallFields DEF IInv, TypeOK
  <2>p. "store" \in Points
    BY DEF Points
  <2>3. q \in Thread /\ q.mapping = f.mapping /\ q.epoch = f.epoch /\ q.key = f.epoch
        /\ q.expected = f.expected /\ q.after = f.after
    BY <2>1, <2>2 DEF Thread
  <2>4. /\ r \in Thread /\ r.pc = "store" /\ r.mapping = f.mapping /\ r.epoch = f.epoch
        /\ r.key = f.epoch /\ r.expected = f.expected /\ r.after = f.after
    BY <2>1, <2>3, <2>p DEF Thread
  <2>5. threads' = [threads EXCEPT ![t] = r] /\ Private
    BY <1>4, <2>1 DEF Lookup, Goes
  <2>6. RanksBy(r)
    BY <1>1, <2>4 DEF RanksBy
  <2>7. ASSUME Readable PROVE Keeps(t, r)
    <3>1. Keeps(t, f)
      BY <1>1, <2>7
    <3>2. QED
      BY <1>1, <2>4, <3>1 DEF Keeps
  <2>8. QED
    BY <2>4, <2>5, <2>6, <2>7, PrivateKeeps
<1>5. QED
  BY <1>1, <1>2, <1>3, <1>4 DEF Lookup

\* The key of a grouped page is of an order no older than the call.
LEMMA GroupKeyKeeps ==
  ASSUME IInv, NEW t \in Threads, GroupKey(t)
  PROVE  IInv'
<1>1. PICK f \in Thread : /\ f = threads[t] /\ (Readable => Keeps(t, f))
                          /\ f.pc = "group_key"
  BY Its DEF GroupKey, At
<1>2. PICK e \in Engines : e = E(t)
  BY ItsEngine
<1>3. PICK q, r : q = [f EXCEPT !.key = order[e].epoch] /\ r = [q EXCEPT !.pc = "group_lookup"]
  OBVIOUS
<1>4. /\ order[e].epoch \in Nat /\ order[e].epoch < next_epoch /\ order[e].revision \in Nat
      /\ ranked_by[order[e].epoch].revision = order[e].revision
  BY StateFields DEF IInv, Ranks, OrdersRanked
<1>p. "group_lookup" \in Points
  BY DEF Points
<1>5. q \in Thread /\ q.key = order[e].epoch /\ q.expected = f.expected /\ q.after = f.after
  BY <1>3, <1>4 DEF Thread
<1>6. /\ r \in Thread /\ r.pc = "group_lookup" /\ r.key = order[e].epoch
      /\ r.expected = f.expected /\ r.after = f.after
  BY <1>3, <1>5, <1>p DEF Thread
<1>7. threads' = [threads EXCEPT ![t] = r] /\ Private
  BY <1>1, <1>2, <1>3 DEF GroupKey, Goes
<1>8. RanksBy(r)
  BY <1>6 DEF RanksBy
<1>9. ASSUME Readable PROVE Keeps(t, r)
  <2>1. Keeps(t, f)
    BY <1>1, <1>9
  <2>2. QED
    BY <1>1, <1>2, <1>4, <1>6, <2>1 DEF Keeps
<1>10. QED
  BY <1>6, <1>7, <1>8, <1>9, PrivateKeeps

\* A cached group is no older than its key; without one the search will read
\* an order that is no older than the key either.
LEMMA GroupLookupKeeps ==
  ASSUME IInv, NEW t \in Threads, GroupLookup(t)
  PROVE  IInv'
<1>1. PICK f \in Thread : /\ f = threads[t] /\ (Readable => Keeps(t, f))
                          /\ f.pc = "group_lookup"
  BY Its DEF GroupLookup, At
<1>2. PICK e \in Engines : e = E(t)
  BY ItsEngine
<1>3. CASE \E page \in groups[e] :
             /\ page.epoch = f.key
             /\ Goes(t, "done", [f EXCEPT !.mapping = page.mapping])
  <2>1. PICK page \in groups[e] :
          page.epoch = f.key /\ Goes(t, "done", [f EXCEPT !.mapping = page.mapping])
    BY <1>3
  <2>2. page \in PageOf /\ page.mapping \in Mapping /\ page.mapping.revision \in Nat
    BY DEF IInv, TypeOK, PageOf, Mapping
  <2>3. PICK q, r : q = [f EXCEPT !.mapping = page.mapping] /\ r = [q EXCEPT !.pc = "done"]
    OBVIOUS
  <2>p. "done" \in Points
    BY DEF Points
  <2>4. q \in Thread /\ q.mapping = page.mapping /\ q.key = f.key
        /\ q.expected = f.expected /\ q.after = f.after
    BY <2>2, <2>3 DEF Thread
  <2>5. /\ r \in Thread /\ r.pc = "done" /\ r.mapping = page.mapping
        /\ r.key = f.key /\ r.expected = f.expected /\ r.after = f.after
    BY <2>3, <2>4, <2>p DEF Thread
  <2>6. threads' = [threads EXCEPT ![t] = r] /\ Private
    BY <2>1, <2>3 DEF GroupLookup, Goes
  <2>7. RanksBy(r)
    BY <2>5 DEF RanksBy
  <2>8. ASSUME Readable PROVE Keeps(t, r)
    <3>1. Keeps(t, f) /\ ranked_by[f.key].revision <= page.mapping.revision
      BY <1>1, <2>1, <2>8 DEF IInv, GroupsRanked
    <3>2. f.key < next_epoch /\ f.expected <= ranked_by[f.key].revision
      BY <1>1, <3>1 DEF Keeps
    <3>3. /\ f.expected \in Nat /\ f.key \in Nat /\ ranked_by[f.key].revision \in Nat
          /\ order[E(t)].revision \in Nat
      BY <3>2, CallFields, StateFields, Its
    <3>4. f.expected <= page.mapping.revision
      BY <2>2, <3>1, <3>2, <3>3
    <3>5. QED
      BY <1>1, <2>5, <3>1, <3>4 DEF Keeps
  <2>9. QED
    BY <2>5, <2>6, <2>7, <2>8, PrivateKeeps
<1>4. CASE Goes(t, "stat", [f EXCEPT !.after = "group_order", !.cached = cache_epoch[e]])
  <2>1. PICK q, r : /\ q = [f EXCEPT !.after = "group_order", !.cached = cache_epoch[e]]
                    /\ r = [q EXCEPT !.pc = "stat"]
    OBVIOUS
  <2>2. cache_epoch[e] \in Nat /\ "group_order" \in Afters /\ "stat" \in Points
    BY DEF IInv, TypeOK, Afters, Points
  <2>3. q \in Thread /\ q.key = f.key /\ q.expected = f.expected /\ q.after = "group_order"
    BY <2>1, <2>2 DEF Thread
  <2>4. /\ r \in Thread /\ r.pc = "stat" /\ r.key = f.key /\ r.expected = f.expected
        /\ r.after = "group_order"
    BY <2>1, <2>2, <2>3 DEF Thread
  <2>5. threads' = [threads EXCEPT ![t] = r] /\ Private
    BY <1>4, <2>1 DEF GroupLookup, Goes
  <2>6. RanksBy(r)
    BY <2>4 DEF RanksBy
  <2>7. ASSUME Readable PROVE Keeps(t, r)
    <3>1. Keeps(t, f)
      BY <1>1, <2>7
    <3>2. QED
      BY <1>1, <2>4, <3>1 DEF Keeps
  <2>8. QED
    BY <2>4, <2>5, <2>6, <2>7, PrivateKeeps
<1>5. QED
  BY <1>1, <1>2, <1>3, <1>4 DEF GroupLookup

----------------------------------------------------------------------------
(* The steps that change the caches or take locks.                         *)

\* What the steps below leave alone keeps its types.
LEMMA RestKeeps ==
  ASSUME IInv,
         file_lock' \in Threads \cup {NoThread},
         writing' \in [Engines -> Threads \cup {NoThread}],
         tables' \in [Engines -> [epoch : Nat, mapping : Mapping]],
         cache_epoch' \in [Engines -> Nat],
         pages' \in [Engines -> SUBSET PageOf], groups' \in [Engines -> SUBSET PageOf],
         UNCHANGED limits
  PROVE  RestTypes'
BY DEF IInv, TypeOK, RestTypes, limits

\* The types of the locks and the caches.
LEMMA Rest ==
  ASSUME IInv
  PROVE  /\ file_lock \in Threads \cup {NoThread}
         /\ writing \in [Engines -> Threads \cup {NoThread}]
         /\ tables \in [Engines -> [epoch : Nat, mapping : Mapping]]
         /\ cache_epoch \in [Engines -> Nat]
         /\ pages \in [Engines -> SUBSET PageOf] /\ groups \in [Engines -> SUBSET PageOf]
BY DEF IInv, TypeOK

\* The tables that are built are of the mapping of their epoch.
LEMMA BuildTablesKeeps ==
  ASSUME IInv, NEW t \in Threads, BuildTables(t)
  PROVE  IInv'
<1>1. PICK f \in Thread : /\ f = threads[t] /\ (Readable => Keeps(t, f))
                          /\ RanksBy(f) /\ f.pc = "tables"
  BY Its DEF BuildTables, At
<1>2. PICK e \in Engines : e = E(t)
  BY ItsEngine
<1>3. PICK r : r = [f EXCEPT !.pc = "rank"]
  OBVIOUS
<1>p. "rank" \in Points
  BY DEF Points
<1>4. /\ r \in Thread /\ r.pc = "rank" /\ r.mapping = f.mapping /\ r.epoch = f.epoch
      /\ r.key = f.key /\ r.expected = f.expected /\ r.after = f.after
  BY <1>3, <1>p DEF Thread
<1>5. PICK table \in [epoch : Nat, mapping : Mapping] :
        table = [epoch |-> f.epoch, mapping |-> f.mapping]
  BY CallFields
<1>6. /\ tables' = [tables EXCEPT ![e] = table] /\ threads' = [threads EXCEPT ![t] = r]
      /\ file' = file /\ file_lock' = file_lock /\ order' = order /\ writing' = writing
      /\ cache_epoch' = cache_epoch /\ pages' = pages /\ groups' = groups
      /\ next_epoch' = next_epoch /\ ranked_by' = ranked_by /\ UNCHANGED limits
  BY <1>1, <1>2, <1>3, <1>5 DEF BuildTables, Goes, epochs
<1>7. RestTypes'
  <2>1. tables' \in [Engines -> [epoch : Nat, mapping : Mapping]]
    BY <1>6, Rest
  <2>2. QED
    BY <1>6, <2>1, Rest, RestKeeps
<1>8. TablesRanked'
  <2>1. table.epoch < next_epoch /\ ranked_by[table.epoch] = table.mapping
    BY <1>1, <1>5 DEF RanksBy
  <2>2. \A d \in Engines : tables'[d] = tables[d] \/ tables'[d] = table
    BY <1>6, Rest
  <2>3. QED
    BY <1>6, <2>1, <2>2 DEF IInv, Ranks, TablesRanked
<1>9. PagesRanked' /\ (Readable => GroupsRanked')
  BY <1>6 DEF IInv, Ranks, PagesRanked, GroupsRanked
<1>10. RanksBy(r)
  BY <1>1, <1>4 DEF RanksBy
<1>11. ASSUME Readable PROVE Locks(t) /\ Keeps(t, r)'
  <2>1. Keeps(t, f)
    BY <1>1, <1>11
  <2>2. Keeps(t, r)
    BY <1>1, <1>4, <2>1 DEF Keeps
  <2>3. QED
    BY <1>6, <2>2 DEF Keeps, FileMapping, Locks
<1>12. QED
  BY <1>4, <1>6, <1>7, <1>8, <1>9, <1>10, <1>11, CallKeeps

\* The page that is stored was ranked by the mapping its key names.
LEMMA StoreKeeps ==
  ASSUME IInv, NEW t \in Threads, Store(t)
  PROVE  IInv'
<1>1. PICK f \in Thread : /\ f = threads[t] /\ (Readable => Keeps(t, f))
                          /\ RanksBy(f) /\ f.pc = "store"
  BY Its DEF Store, At
<1>2. PICK e \in Engines : e = E(t)
  BY ItsEngine
<1>3. PICK r : r = [f EXCEPT !.pc = "done"]
  OBVIOUS
<1>p. "done" \in Points
  BY DEF Points
<1>4. /\ r \in Thread /\ r.pc = "done" /\ r.mapping = f.mapping
      /\ r.key = f.key /\ r.expected = f.expected /\ r.after = f.after
  BY <1>3, <1>p DEF Thread
<1>5. PICK page : page = [epoch |-> f.key, cached |-> f.cached, mapping |-> f.mapping]
  OBVIOUS
<1>6. page \in PageOf /\ page.epoch = f.key /\ page.mapping = f.mapping
  BY <1>5, CallFields DEF PageOf
<1>7. /\ \/ pages' = [pages EXCEPT ![e] = @ \cup {page}]
         \/ pages' = pages
      /\ threads' = [threads EXCEPT ![t] = r] /\ tables' = tables
      /\ file' = file /\ file_lock' = file_lock /\ order' = order /\ writing' = writing
      /\ cache_epoch' = cache_epoch /\ groups' = groups
      /\ next_epoch' = next_epoch /\ ranked_by' = ranked_by /\ UNCHANGED limits
  BY <1>1, <1>2, <1>3, <1>5 DEF Store, Goes, epochs, Page
<1>8. RestTypes'
  <2>1. pages' \in [Engines -> SUBSET PageOf]
    BY <1>6, <1>7, Rest
  <2>2. QED
    BY <1>7, <2>1, Rest, RestKeeps
<1>9. PagesRanked'
  <2>1. page.epoch < next_epoch /\ ranked_by[page.epoch] = page.mapping
    BY <1>1, <1>6 DEF RanksBy
  <2>2. \A d \in Engines : pages'[d] \subseteq pages[d] \cup {page}
    BY <1>7, Rest
  <2>3. QED
    BY <1>7, <2>1, <2>2 DEF IInv, Ranks, PagesRanked
<1>10. TablesRanked' /\ (Readable => GroupsRanked')
  BY <1>7 DEF IInv, Ranks, TablesRanked, GroupsRanked
<1>11. RanksBy(r)
  BY <1>4 DEF RanksBy
<1>12. ASSUME Readable PROVE Locks(t) /\ Keeps(t, r)'
  <2>1. Keeps(t, f)
    BY <1>1, <1>12
  <2>2. Keeps(t, r)
    BY <1>1, <1>4, <2>1 DEF Keeps
  <2>3. QED
    BY <1>7, <2>2 DEF Keeps, FileMapping, Locks
<1>13. QED
  BY <1>4, <1>7, <1>8, <1>9, <1>10, <1>11, <1>12, CallKeeps

\* The group that is stored is no older than its key.
LEMMA GroupStoreKeeps ==
  ASSUME IInv, NEW t \in Threads, GroupStore(t)
  PROVE  IInv'
<1>1. PICK f \in Thread : /\ f = threads[t] /\ (Readable => Keeps(t, f))
                          /\ f.pc = "rank" /\ f.after = "group_order"
  BY Its DEF GroupStore, At, Grouped
<1>2. PICK e \in Engines : e = E(t)
  BY ItsEngine
<1>3. PICK r : r = [f EXCEPT !.pc = "done"]
  OBVIOUS
<1>p. "done" \in Points
  BY DEF Points
<1>4. /\ r \in Thread /\ r.pc = "done" /\ r.mapping = f.mapping
      /\ r.key = f.key /\ r.expected = f.expected /\ r.after = f.after
  BY <1>3, <1>p DEF Thread
<1>5. PICK page : page = [epoch |-> f.key, cached |-> f.cached, mapping |-> f.mapping]
  OBVIOUS
<1>6. page \in PageOf /\ page.epoch = f.key /\ page.mapping = f.mapping
  BY <1>5, CallFields DEF PageOf
<1>7. /\ groups' = [groups EXCEPT ![e] = @ \cup {page}]
      /\ threads' = [threads EXCEPT ![t] = r] /\ tables' = tables
      /\ file' = file /\ file_lock' = file_lock /\ order' = order /\ writing' = writing
      /\ cache_epoch' = cache_epoch /\ pages' = pages
      /\ next_epoch' = next_epoch /\ ranked_by' = ranked_by /\ UNCHANGED limits
  BY <1>1, <1>2, <1>3, <1>5 DEF GroupStore, Goes, epochs, Page
<1>8. RestTypes'
  <2>1. groups' \in [Engines -> SUBSET PageOf]
    BY <1>6, <1>7, Rest
  <2>2. QED
    BY <1>7, <2>1, Rest, RestKeeps
<1>9. ASSUME Readable PROVE GroupsRanked'
  <2>1. page.epoch < next_epoch /\ ranked_by[page.epoch].revision <= page.mapping.revision
    BY <1>1, <1>6, <1>9 DEF Keeps
  <2>2. \A d \in Engines : groups'[d] \subseteq groups[d] \cup {page}
    BY <1>7, Rest
  <2>3. QED
    BY <1>7, <1>9, <2>1, <2>2 DEF IInv, GroupsRanked
<1>10. TablesRanked' /\ PagesRanked'
  BY <1>7 DEF IInv, Ranks, TablesRanked, PagesRanked
<1>11. RanksBy(r)
  BY <1>4 DEF RanksBy
<1>12. ASSUME Readable PROVE Locks(t) /\ Keeps(t, r)'
  <2>1. Keeps(t, f)
    BY <1>1, <1>12
  <2>2. Keeps(t, r)
    BY <1>1, <1>4, <2>1 DEF Keeps
  <2>3. QED
    BY <1>7, <2>2 DEF Keeps, FileMapping, Locks
<1>13. QED
  BY <1>4, <1>7, <1>8, <1>9, <1>10, <1>11, <1>12, CallKeeps

\* Clearing the page cache of an engine leaves nothing to be wrong in it.
LEMMA Cleared ==
  ASSUME IInv, NEW e \in Engines, Clear(e)
  PROVE  /\ cache_epoch' \in [Engines -> Nat] /\ pages' \in [Engines -> SUBSET PageOf]
         /\ \A d \in Engines : pages'[d] \subseteq pages[d]
BY Rest DEF Clear

\* A refresh clears the page cache and goes on.
LEMMA ClearRefreshedKeeps ==
  ASSUME IInv, NEW t \in Threads, ClearRefreshed(t)
  PROVE  IInv'
<1>1. PICK f \in Thread : /\ f = threads[t] /\ (Readable => Keeps(t, f))
                          /\ f.pc = "clear_refreshed"
  BY Its DEF ClearRefreshed, At
<1>2. PICK e \in Engines : e = E(t)
  BY ItsEngine
<1>3. PICK r : r = [f EXCEPT !.pc = f.after]
  OBVIOUS
<1>p. f.after \in Afters /\ f.after \in Points
  BY CallFields DEF Points, Afters
<1>4. /\ r \in Thread /\ r.pc = f.after /\ r.key = f.key /\ r.expected = f.expected
      /\ r.after = f.after
  BY <1>3, <1>p DEF Thread
<1>5. /\ Clear(e) /\ threads' = [threads EXCEPT ![t] = r] /\ tables' = tables
      /\ file' = file /\ file_lock' = file_lock /\ order' = order /\ writing' = writing
      /\ groups' = groups
      /\ next_epoch' = next_epoch /\ ranked_by' = ranked_by /\ UNCHANGED limits
  BY <1>1, <1>2, <1>3 DEF ClearRefreshed, Goes, epochs
<1>6. RestTypes'
  BY <1>5, Cleared, Rest, RestKeeps
<1>7. PagesRanked'
  BY <1>5, Cleared DEF IInv, Ranks, PagesRanked
<1>8. TablesRanked' /\ (Readable => GroupsRanked')
  BY <1>5 DEF IInv, Ranks, TablesRanked, GroupsRanked
<1>9. RanksBy(r)
  BY <1>p, <1>4 DEF RanksBy, Afters
<1>10. ASSUME Readable PROVE Locks(t) /\ Keeps(t, r)'
  <2>1. Keeps(t, f)
    BY <1>1, <1>10
  <2>2. Keeps(t, r)
    BY <1>1, <1>p, <1>4, <2>1 DEF Keeps, Afters
  <2>3. QED
    BY <1>5, <2>2 DEF Keeps, FileMapping, Locks
<1>11. r.pc # "take"
  BY <1>p, <1>4 DEF Afters
<1>12. QED
  BY <1>4, <1>5, <1>6, <1>7, <1>8, <1>9, <1>10, <1>11, CallKeeps

\* A thread that takes a free lock takes it from nobody.
LEMMA LockKeeps ==
  ASSUME IInv, NEW t \in Threads, NEW r \in Thread, threads' = [threads EXCEPT ![t] = r],
         \/ writing[E(t)] = NoThread /\ writing' = [writing EXCEPT ![E(t)] = t]
         \/ writing' = writing,
         \/ file_lock = NoThread /\ file_lock' = t
         \/ file_lock' = file_lock,
         UNCHANGED <<file, order>>, UNCHANGED caches, UNCHANGED epochs, UNCHANGED limits,
         RanksBy(r), r.pc # "take", Readable => Keeps(t, r)'
  PROVE  IInv'
<1>1. NoThread \notin Threads /\ E(t) \in Engines
  BY OrderAssumption, ItsEngine
<1>2. /\ file' = file /\ order' = order /\ tables' = tables /\ cache_epoch' = cache_epoch
      /\ pages' = pages /\ groups' = groups
      /\ next_epoch' = next_epoch /\ ranked_by' = ranked_by
  BY DEF caches, epochs
<1>3. /\ file_lock' \in Threads \cup {NoThread}
      /\ writing' \in [Engines -> Threads \cup {NoThread}]
  BY <1>1, Rest
<1>4. RestTypes'
  BY <1>2, <1>3, Rest, RestKeeps
<1>5. TablesRanked' /\ PagesRanked' /\ (Readable => GroupsRanked')
  BY <1>2 DEF IInv, Ranks, TablesRanked, PagesRanked, GroupsRanked
<1>6. Locks(t)
  BY <1>1, Rest, ItsEngine DEF Locks
<1>7. QED
  BY <1>2, <1>4, <1>5, <1>6, CallKeeps

\* set_book_order locks its engine's order.
LEMMA LocalLockKeeps ==
  ASSUME IInv, NEW t \in Threads, LocalLock(t)
  PROVE  IInv'
<1>1. PICK f \in Thread : f = threads[t] /\ (Readable => Keeps(t, f)) /\ f.pc = "local_lock"
  BY Its DEF LocalLock, At
<1>2. PICK r : r = [f EXCEPT !.pc = "file_lock"]
  OBVIOUS
<1>p. "file_lock" \in Points
  BY DEF Points
<1>3. r \in Thread /\ r.pc = "file_lock" /\ r.key = f.key /\ r.expected = f.expected /\ r.after = f.after
  BY <1>2, <1>p DEF Thread
<1>4. /\ writing[E(t)] = NoThread /\ writing' = [writing EXCEPT ![E(t)] = t]
      /\ threads' = [threads EXCEPT ![t] = r] /\ file_lock' = file_lock
      /\ UNCHANGED <<file, order>> /\ UNCHANGED caches /\ UNCHANGED epochs /\ UNCHANGED limits
  BY <1>1, <1>2 DEF LocalLock, Goes, Unlocked
<1>5. RanksBy(r)
  BY <1>3 DEF RanksBy
<1>6. ASSUME Readable PROVE Keeps(t, r)'
  <2>1. Keeps(t, f) /\ writing'[E(t)] = t
    BY <1>1, <1>4, <1>6, Rest, ItsEngine
  <2>2. file' = file /\ order' = order /\ ranked_by' = ranked_by /\ next_epoch' = next_epoch
    BY <1>4 DEF epochs
  <2>3. QED
    BY <1>1, <1>3, <2>1, <2>2 DEF Keeps
<1>7. QED
  BY <1>3, <1>4, <1>5, <1>6, LockKeeps

\* set_book_order takes the lock file.
LEMMA FileLockKeeps ==
  ASSUME IInv, NEW t \in Threads, FileLock(t)
  PROVE  IInv'
<1>1. PICK f \in Thread : f = threads[t] /\ (Readable => Keeps(t, f)) /\ f.pc = "file_lock"
  BY Its DEF FileLock, At
<1>2. PICK r : r = [f EXCEPT !.pc = "load"]
  OBVIOUS
<1>p. "load" \in Points
  BY DEF Points
<1>3. r \in Thread /\ r.pc = "load" /\ r.key = f.key /\ r.expected = f.expected /\ r.after = f.after
  BY <1>2, <1>p DEF Thread
<1>4. /\ file_lock = NoThread /\ file_lock' = t /\ writing' = writing
      /\ threads' = [threads EXCEPT ![t] = r]
      /\ UNCHANGED <<file, order>> /\ UNCHANGED caches /\ UNCHANGED epochs /\ UNCHANGED limits
  BY <1>1, <1>2 DEF FileLock, Goes
<1>5. RanksBy(r)
  BY <1>3 DEF RanksBy
<1>6. ASSUME Readable PROVE Keeps(t, r)'
  <2>1. Keeps(t, f)
    BY <1>1, <1>6
  <2>2. file' = file /\ order' = order /\ ranked_by' = ranked_by /\ next_epoch' = next_epoch
    BY <1>4 DEF epochs
  <2>3. QED
    BY <1>1, <1>3, <1>4, <2>1, <2>2 DEF Keeps
<1>7. QED
  BY <1>3, <1>4, <1>5, <1>6, LockKeeps

\* A refresh locks its engine's order and takes the stamp before it reads.
LEMMA RefreshKeeps ==
  ASSUME IInv, NEW t \in Threads, Refresh(t)
  PROVE  IInv'
<1>1. PICK f \in Thread : f = threads[t] /\ (Readable => Keeps(t, f)) /\ f.pc = "refresh"
  BY Its DEF Refresh, At
<1>2. PICK q, r : q = [f EXCEPT !.stamp = file.stamp] /\ r = [q EXCEPT !.pc = "read"]
  OBVIOUS
<1>p. "read" \in Points /\ file.stamp \in Nat
  BY StateFields DEF Points, IInv
<1>3. q \in Thread /\ q.stamp = file.stamp /\ q.key = f.key /\ q.expected = f.expected
      /\ q.after = f.after
  BY <1>2, <1>p DEF Thread
<1>4. /\ r \in Thread /\ r.pc = "read" /\ r.stamp = file.stamp /\ r.key = f.key
      /\ r.expected = f.expected /\ r.after = f.after
  BY <1>2, <1>3, <1>p DEF Thread
<1>5. /\ writing[E(t)] = NoThread /\ writing' = [writing EXCEPT ![E(t)] = t]
      /\ threads' = [threads EXCEPT ![t] = r] /\ file_lock' = file_lock
      /\ UNCHANGED <<file, order>> /\ UNCHANGED caches /\ UNCHANGED epochs /\ UNCHANGED limits
  BY <1>1, <1>2 DEF Refresh, Goes, Unlocked
<1>6. RanksBy(r)
  BY <1>4 DEF RanksBy
<1>7. ASSUME Readable PROVE Keeps(t, r)'
  <2>1. Keeps(t, f) /\ writing'[E(t)] = t
    BY <1>1, <1>5, <1>7, Rest, ItsEngine
  <2>2. file' = file /\ order' = order /\ ranked_by' = ranked_by /\ next_epoch' = next_epoch
    BY <1>5 DEF epochs
  <2>3. QED
    BY <1>1, <1>p, <1>4, <2>1, <2>2 DEF Keeps
<1>8. QED
  BY <1>4, <1>5, <1>6, <1>7, LockKeeps

\* A call that returns gives back only its own locks.
LEMMA ReturnKeeps ==
  ASSUME IInv, NEW t \in Threads, Return(t), UNCHANGED <<file, order>>,
         \/ UNCHANGED <<cache_epoch, pages>>
         \/ Clear(E(t)),
         UNCHANGED <<tables, groups>>, UNCHANGED epochs, UNCHANGED limits
  PROVE  IInv'
<1>1. PICK r \in Thread : /\ r = IdleThread /\ r.pc = "idle" /\ r.after = "idle"
                          /\ r.expected = 0
  BY Empty
<1>2. E(t) \in Engines /\ NoThread \notin Threads
  BY ItsEngine, OrderAssumption
<1>3. /\ threads' = [threads EXCEPT ![t] = r] /\ tables' = tables
      /\ file' = file /\ order' = order /\ groups' = groups
      /\ next_epoch' = next_epoch /\ ranked_by' = ranked_by
  BY <1>1 DEF Return, epochs
<1>4. /\ cache_epoch' \in [Engines -> Nat] /\ pages' \in [Engines -> SUBSET PageOf]
      /\ \A d \in Engines : pages'[d] \subseteq pages[d]
  BY <1>2, Cleared, Rest
<1>5. /\ file_lock' \in Threads \cup {NoThread}
      /\ writing' \in [Engines -> Threads \cup {NoThread}]
      /\ \A d \in Engines : writing'[d] = writing[d] \/ writing[d] = t
  BY <1>2, Rest DEF Return
<1>6. RestTypes'
  BY <1>3, <1>4, <1>5, Rest, RestKeeps
<1>7. PagesRanked'
  BY <1>3, <1>4 DEF IInv, Ranks, PagesRanked
<1>8. TablesRanked' /\ (Readable => GroupsRanked')
  BY <1>3 DEF IInv, Ranks, TablesRanked, GroupsRanked
<1>9. RanksBy(r)
  BY <1>1 DEF RanksBy
<1>10. Locks(t)
  BY <1>5, ItsEngine DEF Locks, Return
<1>11. Keeps(t, r)'
  <2>1. file'.revision \in Nat
    BY <1>3, StateFields DEF IInv
  <2>2. QED
    BY <1>1, <2>1 DEF Keeps
<1>12. QED
  BY <1>1, <1>3, <1>6, <1>7, <1>8, <1>9, <1>10, <1>11, CallKeeps

\* The ways in which a call returns.
LEMMA ReturnsKeep ==
  ASSUME IInv, NEW t \in Threads,
         SetFails(t) \/ Unchanged(t) \/ ClearSet(t) \/ Revision(t) \/ Done(t)
  PROVE  IInv'
<1>1. /\ Return(t) /\ UNCHANGED <<file, order>> /\ UNCHANGED <<tables, groups>>
      /\ UNCHANGED epochs /\ UNCHANGED limits
      /\ UNCHANGED <<cache_epoch, pages>> \/ Clear(E(t))
  BY DEF SetFails, Unchanged, ClearSet, Revision, Done, caches
<1>2. QED
  BY <1>1, ReturnKeeps

----------------------------------------------------------------------------
(* The steps that change the file or the order of an engine.               *)

\* A new epoch stands for its mapping, the others for theirs.
LEMMA EpochAdded ==
  ASSUME IInv, NEW m \in Mapping, NewEpoch(m)
  PROVE  /\ Epochs /\ next_epoch' = next_epoch + 1 /\ next_epoch' \in Nat /\ next_epoch' >= 2
         /\ ranked_by' \in [0 .. next_epoch' - 1 -> Mapping]
         /\ ranked_by'[next_epoch] = m /\ ranked_by'[0] = Default
<1>1. /\ next_epoch \in Nat /\ next_epoch >= 2 /\ ranked_by[0] = Default
      /\ ranked_by \in [0 .. next_epoch - 1 -> Mapping]
  BY DEF IInv, TypeOK, Ranks
<1>2. DOMAIN ranked_by \cup {next_epoch} = 0 .. next_epoch
  BY <1>1
<1>3. next_epoch' = next_epoch + 1
  BY DEF NewEpoch
<1>4. ranked_by' = [k \in 0 .. next_epoch |-> IF k = next_epoch THEN m ELSE ranked_by[k]]
  BY <1>2 DEF NewEpoch
<1>5. \A k \in 0 .. next_epoch - 1 : k \in 0 .. next_epoch /\ k # next_epoch
  BY <1>1
<1>6. \A k \in 0 .. next_epoch - 1 : ranked_by'[k] = ranked_by[k]
  BY <1>4, <1>5
<1>7. 0 .. next_epoch' - 1 = 0 .. next_epoch
  BY <1>1, <1>3
<1>8. \A k \in 0 .. next_epoch : k # next_epoch => ranked_by[k] \in Mapping
  BY <1>1
<1>9. ranked_by' \in [0 .. next_epoch' - 1 -> Mapping]
  BY <1>4, <1>7, <1>8
<1>10. next_epoch \in 0 .. next_epoch /\ 0 \in 0 .. next_epoch - 1
  BY <1>1
<1>11. ranked_by'[next_epoch] = m /\ ranked_by'[0] = Default
  BY <1>1, <1>4, <1>6, <1>10
<1>12. Epochs
  <2>1. \A k \in Nat : k < next_epoch => k \in 0 .. next_epoch - 1
    BY <1>1
  <2>2. QED
    BY <1>1, <1>3, <1>6, <2>1 DEF Epochs
<1>13. QED
  BY <1>1, <1>3, <1>9, <1>11, <1>12

\* Tables and pages hold what their epochs stand for when epochs are added.
LEMMA CachesRanked ==
  ASSUME IInv, Epochs, next_epoch' \in Nat, tables' = tables, pages' = pages, groups' = groups
  PROVE  TablesRanked' /\ PagesRanked' /\ (Readable => GroupsRanked')
<1>1. next_epoch \in Nat
  BY StateFields DEF IInv
<1>2. \A k \in Nat : k < next_epoch => k < next_epoch' /\ ranked_by'[k] = ranked_by[k]
  BY <1>1 DEF Epochs
<1>3. \A e \in Engines : tables[e].epoch \in Nat
  BY Rest
<1>4. \A e \in Engines : \A page \in pages[e] \cup groups[e] : page.epoch \in Nat
  BY Rest DEF PageOf
<1>5. TablesRanked'
  BY <1>2, <1>3 DEF IInv, Ranks, TablesRanked
<1>6. PagesRanked'
  BY <1>2, <1>4 DEF IInv, Ranks, PagesRanked
<1>7. Readable => GroupsRanked'
  BY <1>2, <1>4 DEF IInv, GroupsRanked
<1>8. QED
  BY <1>5, <1>6, <1>7

\* An engine takes in a mapping under its lock, or only its stamp.
LEMMA OrderKeeps ==
  ASSUME IInv, NEW t \in Threads, NEW e \in Engines, e = E(t),
         NEW r \in Thread, NEW o \in Order, NEW m \in Mapping,
         threads' = [threads EXCEPT ![t] = r], order' = [order EXCEPT ![e] = o],
         NewEpoch(m), writing' = [writing EXCEPT ![e] = NoThread],
         UNCHANGED <<file, file_lock>>, UNCHANGED caches, UNCHANGED limits,
         \/ o.epoch = next_epoch /\ o.revision = m.revision /\ o.places = m.places
         \/ o.epoch = order[e].epoch /\ o.revision = order[e].revision /\ o.places = order[e].places,
         RanksBy(r), r.pc # "take",
         Readable => /\ writing[e] = t /\ order[e].revision <= o.revision
                     /\ o.revision <= file.revision /\ o.stamp <= o.revision
                     /\ m = FileMapping \/ (At(t, "take") /\ m = threads[t].mapping)
                     /\ Keeps(t, r)'
  PROVE  IInv'
<1>1. /\ Epochs /\ next_epoch' = next_epoch + 1 /\ next_epoch' \in Nat /\ next_epoch' >= 2
      /\ ranked_by' \in [0 .. next_epoch' - 1 -> Mapping]
      /\ ranked_by'[next_epoch] = m /\ ranked_by'[0] = Default
  BY EpochAdded
<1>2. /\ file' = file /\ file_lock' = file_lock /\ tables' = tables /\ cache_epoch' = cache_epoch
      /\ pages' = pages /\ groups' = groups
  BY DEF caches
<1>3. TypeOK
  BY DEF IInv
<1>4. order'[e] = o /\ \A d \in Engines \ {e} : order'[d] = order[d]
  BY <1>3 DEF TypeOK
<1>5. TypeOK'
  <2>1. writing' \in [Engines -> Threads \cup {NoThread}]
    BY Rest
  <2>2. RestTypes'
    BY <1>2, <2>1, Rest, RestKeeps
  <2>3. order' \in [Engines -> Order] /\ threads' \in [Threads -> Thread] /\ file' \in File
    BY <1>2, <1>3, TypeParts
  <2>4. QED
    BY <1>1, <2>2, <2>3 DEF TypeOK, RestTypes, Order, File
<1>6. OrdersRanked'
  <2>1. Held(e)' = [revision |-> o.revision, places |-> o.places]
    BY <1>4 DEF Held
  <2>2. m = [revision |-> m.revision, places |-> m.places]
    BY DEF Mapping
  <2>3. ASSUME NEW d \in Engines PROVE order[d].epoch < next_epoch /\ order[d].epoch < next_epoch'
                                   /\ ranked_by'[order[d].epoch] = Held(d)
    <3>1. order[d].epoch \in Nat /\ next_epoch \in Nat
      BY <1>3, StateFields
    <3>2. QED
      BY <1>1, <3>1 DEF IInv, Ranks, OrdersRanked, Epochs
  <2>4. ASSUME NEW d \in Engines, d # e
        PROVE  order'[d].epoch < next_epoch' /\ ranked_by'[order'[d].epoch] = Held(d)'
    <3>1. order'[d] = order[d]
      BY <1>4, <2>4
    <3>2. Held(d)' = Held(d)
      BY <3>1 DEF Held
    <3>3. QED
      BY <2>3, <3>1, <3>2
  <2>5. order'[e].epoch < next_epoch' /\ ranked_by'[order'[e].epoch] = Held(e)'
    <3>1. CASE o.epoch = next_epoch /\ o.revision = m.revision /\ o.places = m.places
      BY <1>1, <1>3, <1>4, <2>1, <2>2, <3>1, StateFields
    <3>2. CASE o.epoch = order[e].epoch /\ o.revision = order[e].revision /\ o.places = order[e].places
      <4>1. Held(e)' = Held(e)
        BY <2>1, <3>2 DEF Held
      <4>2. QED
        BY <1>4, <2>3, <3>2, <4>1
    <3>3. QED
      BY <3>1, <3>2
  <2>6. QED
    BY <2>4, <2>5 DEF OrdersRanked
<1>7. Ranks'
  BY <1>1, <1>2, <1>6, CachesRanked DEF Ranks
<1>8. RanksBy(r)'
  BY <1>1, <1>3, RanksByKeeps
<1>9. ASSUME Readable PROVE /\ Locks(t) /\ Onward(t)
                           /\ InStep' /\ GroupsRanked' /\ Named' /\ Keeps(t, r)'
  <2>1. Locks(t)
    BY <1>2, <1>9, Rest, ItsEngine DEF Locks
  <2>2. Onward(t)
    BY <1>2, <1>4, <1>9 DEF Onward
  <2>3. InStep'
    BY <1>2, <1>4, <1>9 DEF IInv, InStep
  <2>4. GroupsRanked'
    BY <1>1, <1>2, <1>9, CachesRanked
  <2>5. Named'
    <3>1. /\ Named /\ FileMapping.revision = file.revision /\ FileMapping.places = file.places
      BY <1>3, <1>9, StateFields DEF IInv
    <3>2. \/ o.revision = order[e].revision /\ o.places = order[e].places
          \/ o.revision = file.revision /\ o.places = file.places
          \/ /\ At(t, "take") /\ o.revision = threads[t].mapping.revision
             /\ o.places = threads[t].mapping.places
      BY <1>9, <3>1
    <3>3. \A d \in Engines :
            \/ order'[d].revision = order[d].revision /\ order'[d].places = order[d].places
            \/ order'[d].revision = file.revision /\ order'[d].places = file.places
            \/ \E u \in Threads : /\ At(u, "take")
                                  /\ order'[d].revision = threads[u].mapping.revision
                                  /\ order'[d].places = threads[u].mapping.places
      BY <1>4, <3>2
    <3>4. \A u \in Threads : At(u, "take")' => \/ threads'[u] = threads[u]
                                               \/ threads'[u].mapping = FileMapping
      BY <1>3 DEF TypeOK, At
    <3>5. QED
      BY <1>2, <1>3, <3>1, <3>3, <3>4, NamedKeeps
  <2>6. QED
    BY <1>9, <2>1, <2>2, <2>3, <2>4, <2>5
<1>10. QED
  BY <1>1, <1>5, <1>7, <1>8, <1>9, OneKeeps

\* set_book_order takes in what it stored while it holds both locks.
LEMMA InstallKeeps ==
  ASSUME IInv, NEW t \in Threads, Install(t)
  PROVE  IInv'
<1>1. PICK f \in Thread : f = threads[t] /\ (Readable => Keeps(t, f)) /\ f.pc = "install"
  BY Its DEF Install, At
<1>2. PICK e \in Engines : e = E(t)
  BY ItsEngine
<1>3. PICK m \in Mapping : m = f.mapping /\ m.revision \in Nat /\ m.places \in Places
  BY CallFields
<1>4. PICK o : o = State(m, file.stamp)
  OBVIOUS
<1>5. file.stamp \in Nat /\ next_epoch \in Nat /\ file.revision \in Nat
  BY StateFields DEF IInv
<1>6. /\ o \in Order /\ o.epoch = next_epoch /\ o.revision = m.revision /\ o.places = m.places
      /\ o.stamp = file.stamp
  BY <1>3, <1>4, <1>5 DEF State, Order
<1>7. PICK r : r = [f EXCEPT !.pc = "clear"]
  OBVIOUS
<1>p. "clear" \in Points
  BY DEF Points
<1>8. r \in Thread /\ r.pc = "clear" /\ r.key = f.key /\ r.expected = f.expected /\ r.after = f.after
  BY <1>7, <1>p DEF Thread
<1>9. /\ threads' = [threads EXCEPT ![t] = r] /\ order' = [order EXCEPT ![e] = o]
      /\ NewEpoch(m) /\ writing' = [writing EXCEPT ![e] = NoThread]
      /\ UNCHANGED <<file, file_lock>> /\ UNCHANGED caches /\ UNCHANGED limits
  BY <1>1, <1>2, <1>3, <1>4, <1>7 DEF Install, Goes
<1>10. RanksBy(r)
  BY <1>8 DEF RanksBy
<1>11. ASSUME Readable
       PROVE  /\ writing[e] = t /\ order[e].revision <= o.revision
              /\ o.revision <= file.revision /\ o.stamp <= o.revision
              /\ m = FileMapping /\ Keeps(t, r)'
  <2>1. Keeps(t, f) /\ file.stamp = file.revision /\ order[e].revision <= file.revision
    BY <1>1, <1>11 DEF IInv, InStep
  <2>2. m = FileMapping /\ m.revision = file.revision /\ writing[e] = t /\ file_lock = t
    BY <1>1, <1>2, <1>3, <2>1, StateFields DEF Keeps, IInv
  <2>3. /\ file' = file /\ file_lock' = file_lock /\ order'[e] = o
        /\ order[e].revision \in Nat
    BY <1>2, <1>9, StateFields DEF IInv, TypeOK
  <2>4. r.after = "group_order" =>
          r.key < next_epoch' /\ ranked_by'[r.key].revision <= order'[e].revision
    <3>1. /\ Epochs /\ next_epoch' = next_epoch + 1 /\ f.key \in Nat
          /\ f.key < next_epoch => ranked_by[f.key].revision \in Nat
      BY <1>9, EpochAdded, CallFields, StateFields DEF IInv
    <3>2. f.after = "group_order" =>
            f.key < next_epoch /\ ranked_by[f.key].revision <= order[e].revision
      BY <1>2, <2>1 DEF Keeps
    <3>3. QED
      BY <1>5, <1>6, <1>8, <2>1, <2>2, <2>3, <3>1, <3>2 DEF Epochs
  <2>5. Keeps(t, r)'
    BY <1>1, <1>2, <1>8, <2>1, <2>2, <2>3, <2>4 DEF Keeps
  <2>6. QED
    BY <1>5, <1>6, <2>1, <2>2, <2>5
<1>12. QED
  BY <1>2, <1>6, <1>8, <1>9, <1>10, <1>11, OrderKeeps

\* A refresh takes in what it read while it holds the lock of the engine.
LEMMA TakeKeeps ==
  ASSUME IInv, NEW t \in Threads, Take(t)
  PROVE  IInv'
<1>1. PICK f \in Thread : f = threads[t] /\ (Readable => Keeps(t, f)) /\ f.pc = "take"
  BY Its DEF Take, At
<1>2. PICK e \in Engines : e = E(t)
  BY ItsEngine
<1>3. PICK m \in Mapping : /\ m = f.mapping /\ m.revision \in Nat /\ m.places \in Places
                           /\ f.stamp \in Nat /\ f.after \in Afters
  BY CallFields
<1>4. PICK o : o = IF Held(e) = m THEN [order[e] EXCEPT !.stamp = f.stamp] ELSE State(m, f.stamp)
  OBVIOUS
<1>5. /\ next_epoch \in Nat /\ file.revision \in Nat /\ order[e] \in Order
      /\ order[e].revision \in Nat /\ Held(e).revision = order[e].revision
  BY StateFields DEF IInv
<1>6. /\ o \in Order /\ o.stamp = f.stamp /\ o.revision = m.revision
      /\ \/ o.epoch = next_epoch /\ o.revision = m.revision /\ o.places = m.places
         \/ o.epoch = order[e].epoch /\ o.revision = order[e].revision /\ o.places = order[e].places
  <2>1. CASE Held(e) = m
    <3>1. o = [order[e] EXCEPT !.stamp = f.stamp] /\ m.revision = order[e].revision
      BY <1>4, <1>5, <2>1
    <3>2. /\ o \in Order /\ o.stamp = f.stamp /\ o.epoch = order[e].epoch
          /\ o.revision = order[e].revision /\ o.places = order[e].places
      BY <1>3, <1>5, <3>1 DEF Order
    <3>3. QED
      BY <3>1, <3>2
  <2>2. CASE Held(e) # m
    <3>1. o = State(m, f.stamp)
      BY <1>4, <2>2
    <3>2. QED
      BY <1>3, <1>5, <3>1 DEF State, Order
  <2>3. QED
    BY <2>1, <2>2
<1>7. PICK pc \in Afters \cup {"clear_refreshed"} :
        pc = IF Held(e) = m THEN f.after ELSE "clear_refreshed"
  BY <1>3
<1>8. PICK r : r = [f EXCEPT !.pc = pc]
  OBVIOUS
<1>p. pc \in Points
  BY DEF Points, Afters
<1>9. r \in Thread /\ r.pc = pc /\ r.key = f.key /\ r.expected = f.expected /\ r.after = f.after
  BY <1>8, <1>p DEF Thread
<1>10. order' = [order EXCEPT ![e] = o]
  <2>1. CASE Held(e) = m
    BY <1>1, <1>2, <1>3, <1>4, <2>1 DEF Take
  <2>2. CASE Held(e) # m
    BY <1>1, <1>2, <1>3, <1>4, <2>2 DEF Take
  <2>3. QED
    BY <2>1, <2>2
<1>11. /\ threads' = [threads EXCEPT ![t] = r]
       /\ NewEpoch(m) /\ writing' = [writing EXCEPT ![e] = NoThread]
       /\ UNCHANGED <<file, file_lock>> /\ UNCHANGED caches /\ UNCHANGED limits
  BY <1>1, <1>2, <1>3, <1>7, <1>8 DEF Take, Goes
<1>12. RanksBy(r) /\ r.pc # "take"
  BY <1>9 DEF RanksBy, Afters
<1>13. ASSUME Readable
       PROVE  /\ writing[e] = t /\ order[e].revision <= o.revision
              /\ o.revision <= file.revision /\ o.stamp <= o.revision
              /\ At(t, "take") /\ m = threads[t].mapping /\ Keeps(t, r)'
  <2>1. Keeps(t, f)
    BY <1>1, <1>13
  <2>2. /\ writing[e] = t /\ order[e].revision <= m.revision /\ m.revision <= file.revision
        /\ f.stamp <= m.revision /\ f.expected <= m.revision /\ f.expected <= file.revision
    BY <1>1, <1>2, <1>3, <2>1 DEF Keeps
  <2>3. file' = file /\ order'[e] = o /\ order'[e].revision = m.revision
    BY <1>6, <1>10, <1>11 DEF IInv, TypeOK
  <2>4. r.after = "group_order" =>
          r.key < next_epoch' /\ ranked_by'[r.key].revision <= order'[e].revision
    <3>1. /\ Epochs /\ next_epoch' = next_epoch + 1 /\ f.key \in Nat
          /\ f.key < next_epoch => ranked_by[f.key].revision \in Nat
      BY <1>11, EpochAdded, CallFields, StateFields DEF IInv
    <3>2. f.after = "group_order" =>
            f.key < next_epoch /\ ranked_by[f.key].revision <= order[e].revision
      BY <1>2, <2>1 DEF Keeps
    <3>3. QED
      BY <1>3, <1>5, <1>9, <2>2, <2>3, <3>1, <3>2 DEF Epochs
  <2>5. Keeps(t, r)'
    BY <1>2, <1>7, <1>9, <2>2, <2>3, <2>4 DEF Keeps, Afters
  <2>6. QED
    BY <1>1, <1>3, <1>6, <2>2, <2>5 DEF At
<1>14. QED
  BY <1>2, <1>6, <1>9, <1>10, <1>11, <1>12, <1>13, OrderKeeps

\* A save makes the next revision of the file, under both locks.
LEMMA SaveKeeps ==
  ASSUME IInv, NEW t \in Threads, Save(t)
  PROVE  IInv'
<1>1. PICK f \in Thread : f = threads[t] /\ (Readable => Keeps(t, f)) /\ f.pc = "save"
  BY Its DEF Save, At
<1>2. PICK m \in Mapping : m = f.mapping /\ m.revision \in Nat /\ m.places \in Places
  BY CallFields
<1>3. /\ file.revision \in Nat /\ file.stamp \in Nat /\ file.places \in Places
      /\ f.expected \in Nat /\ f.key \in Nat
  BY StateFields, CallFields DEF IInv
<1>4. PICK r : r = [f EXCEPT !.pc = "install"]
  OBVIOUS
<1>p. "install" \in Points
  BY DEF Points
<1>5. /\ r \in Thread /\ r.pc = "install" /\ r.key = f.key /\ r.expected = f.expected
      /\ r.after = f.after /\ r.mapping = m
  BY <1>2, <1>4, <1>p DEF Thread
<1>6. /\ file' = [revision |-> m.revision, places |-> m.places, stamp |-> file.stamp + 1]
      /\ threads' = [threads EXCEPT ![t] = r]
      /\ file_lock' = file_lock /\ order' = order /\ writing' = writing
      /\ tables' = tables /\ cache_epoch' = cache_epoch /\ pages' = pages /\ groups' = groups
      /\ next_epoch' = next_epoch /\ ranked_by' = ranked_by /\ UNCHANGED limits
  BY <1>1, <1>2, <1>4 DEF Save, Goes, caches, epochs
<1>7. /\ file' \in File /\ file'.revision = m.revision /\ file'.places = m.places
      /\ file'.stamp = file.stamp + 1
  BY <1>2, <1>3, <1>6 DEF File
<1>8. TypeOK'
  <2>1. RestTypes'
    BY <1>6, Rest, RestKeeps
  <2>2. threads' \in [Threads -> Thread] /\ order' \in [Engines -> Order]
    BY <1>5, <1>6, TypeParts DEF IInv
  <2>3. next_epoch' \in Nat /\ ranked_by' \in [0 .. next_epoch' - 1 -> Mapping]
    BY <1>6, TypeParts DEF IInv
  <2>4. QED
    BY <1>7, <2>1, <2>2, <2>3 DEF TypeOK, RestTypes, Order, File
<1>9. Epochs
  BY <1>6, StateFields DEF Epochs, IInv
<1>10. Ranks'
  BY <1>6 DEF IInv, Ranks, OrdersRanked, TablesRanked, PagesRanked, Held
<1>11. RanksBy(r)'
  BY <1>5 DEF RanksBy
<1>12. ASSUME Readable
       PROVE  /\ Locks(t) /\ Onward(t)
              /\ InStep' /\ GroupsRanked' /\ Named' /\ Keeps(t, r)'
  <2>1. /\ Keeps(t, f) /\ file.stamp = file.revision
        /\ \A e \in Engines : order[e].stamp <= order[e].revision /\ order[e].revision <= file.revision
    BY <1>1, <1>12 DEF IInv, InStep
  <2>2. file_lock = t /\ writing[E(t)] = t /\ m.revision = file.revision + 1
    BY <1>1, <1>2, <2>1 DEF Keeps
  <2>3. Locks(t) /\ Onward(t)
    BY <1>6, <1>7, <2>2 DEF Locks, Onward
  <2>4. InStep'
    <3>1. \A e \in Engines : order[e].revision \in Nat
      BY StateFields DEF IInv
    <3>2. QED
      BY <1>3, <1>6, <1>7, <2>1, <2>2, <3>1 DEF InStep
  <2>5. GroupsRanked'
    BY <1>6, <1>12 DEF IInv, GroupsRanked
  <2>6. Named'
    <3>1. PICK name \in [Nat -> Places] :
            /\ file.places = name[file.revision]
            /\ \A e \in Engines : order[e].places = name[order[e].revision]
            /\ \A u \in Threads : At(u, "take") =>
                 threads[u].mapping.places = name[threads[u].mapping.revision]
      BY <1>12 DEF IInv, Named
    <3>2. PICK other \in [Nat -> Places] : other = [name EXCEPT ![m.revision] = m.places]
      BY <1>2, <3>1
    <3>3. /\ other[m.revision] = m.places
          /\ \A n \in Nat : n # m.revision => other[n] = name[n]
      BY <1>2, <3>1, <3>2
    <3>4. ASSUME NEW e \in Engines
          PROVE  order[e].revision \in Nat /\ order[e].revision # m.revision
      <4>1. order[e].revision \in Nat
        BY StateFields DEF IInv
      <4>2. order[e].revision <= file.revision
        BY <2>1
      <4>3. QED
        BY <1>3, <2>2, <4>1, <4>2
    <3>5. ASSUME NEW u \in Threads, At(u, "take")'
          PROVE  threads'[u].mapping.places = other[threads'[u].mapping.revision]
      <4>1. u # t /\ threads'[u] = threads[u]
        BY <1>5, <1>6, <3>5 DEF IInv, TypeOK, At
      <4>2. PICK q \in Thread : q = threads[u] /\ q.pc = "take" /\ Keeps(u, q)
        BY <1>12, <3>5, <4>1, Its DEF At
      <4>3. q.mapping.revision \in Nat /\ q.mapping.revision <= file.revision
        BY <4>2, CallFields DEF Keeps
      <4>4. q.mapping.revision # m.revision
        BY <1>3, <2>2, <4>3
      <4>5. q.mapping.places = name[q.mapping.revision]
        BY <3>1, <4>2 DEF At
      <4>6. QED
        BY <3>3, <4>1, <4>2, <4>3, <4>4, <4>5
    <3>6. \A e \in Engines : order'[e].places = other[order'[e].revision]
      BY <1>6, <3>1, <3>3, <3>4
    <3>7. file'.places = other[file'.revision]
      BY <1>7, <3>3
    <3>8. QED
      BY <3>2, <3>5, <3>6, <3>7 DEF Named
  <2>7. Keeps(t, r)'
    <3>1. r.mapping = FileMapping'
      BY <1>2, <1>5, <1>7 DEF FileMapping, Mapping
    <3>2. r.expected <= file'.revision
      BY <1>3, <1>5, <1>7, <2>1, <2>2 DEF Keeps
    <3>3. r.after = "group_order" =>
            r.key < next_epoch' /\ ranked_by'[r.key].revision <= order'[E(t)].revision
      BY <1>5, <1>6, <2>1 DEF Keeps
    <3>4. QED
      BY <1>5, <1>6, <2>2, <3>1, <3>2, <3>3 DEF Keeps
  <2>8. QED
    BY <2>3, <2>4, <2>5, <2>6, <2>7
<1>13. QED
  BY <1>5, <1>6, <1>8, <1>9, <1>10, <1>11, <1>12, OneKeeps

\* What an engine's restart leaves to the threads of the others.
LEMMA ApartKeeps ==
  ASSUME TypeOK, TypeOK', NEW u \in Threads, NEW r \in Thread, Keeps(u, r), Epochs,
         file' = file, order'[E(u)] = order[E(u)], writing'[E(u)] = writing[E(u)],
         file_lock = u => file_lock' = u
  PROVE  Keeps(u, r)'
<1>1. FileMapping' = FileMapping
  BY DEF FileMapping
<1>2. /\ r.key \in Nat /\ next_epoch \in Nat /\ next_epoch' \in Nat
      /\ r.key < next_epoch => r.key < next_epoch' /\ ranked_by'[r.key] = ranked_by[r.key]
  <2>1. next_epoch' \in Nat
    BY DEF TypeOK
  <2>2. QED
    BY <2>1, CallFields, StateFields DEF Epochs
<1>3. /\ r.pc = "group_lookup" => r.expected <= ranked_by'[r.key].revision
      /\ r.pc = "group_lookup" \/ r.after = "group_order" =>
           r.key < next_epoch' /\ ranked_by'[r.key].revision <= order'[E(u)].revision
      /\ r.after = "group_order" /\ r.pc \in {"tables", "rank"} =>
           ranked_by'[r.key].revision <= r.mapping.revision
  BY <1>2 DEF Keeps
<1>4. /\ r.expected <= file'.revision
      /\ r.pc \in {"load", "save", "install", "clear"} => file_lock' = u
      /\ r.pc \in {"file_lock", "load", "save", "install", "read", "take"} => writing'[E(u)] = u
      /\ r.pc = "save" => r.mapping.revision = file'.revision + 1
      /\ r.pc = "install" => r.mapping = FileMapping'
      /\ r.pc \in {"compare", "read"} => r.stamp <= file'.stamp
      /\ r.pc = "compare" => r.expected <= r.stamp
  BY <1>1 DEF Keeps
<1>5. /\ r.pc = "take" => /\ order'[E(u)].revision <= r.mapping.revision
                          /\ r.mapping.revision <= file'.revision
                          /\ r.stamp <= r.mapping.revision
                          /\ r.expected <= r.mapping.revision
      /\ r.pc \in {"clear_refreshed", "revision", "order", "group_key", "group_order"} =>
           r.expected <= order'[E(u)].revision
      /\ r.pc \in {"tables", "rank", "store", "done"} => r.expected <= r.mapping.revision
  BY DEF Keeps
<1>6. QED
  BY <1>3, <1>4, <1>5 DEF Keeps

\* An engine that is opened again takes the order from the file, and its
\* caches and its calls are gone.
LEMMA RestartKeeps ==
  ASSUME IInv, NEW e \in Engines, Restart(e)
  PROVE  IInv'
<1>1. TypeOK
  BY DEF IInv
<1>2. PICK m \in Mapping : /\ m = FileMapping /\ m.revision = file.revision
                           /\ m.places = file.places
  BY StateFields DEF IInv
<1>3. /\ file.revision \in Nat /\ file.stamp \in Nat /\ file.places \in Places
      /\ next_epoch \in Nat /\ Default \in Mapping
  BY StateFields, Empty DEF IInv
<1>4. PICK o : o = State(m, file.stamp)
  OBVIOUS
<1>5. /\ o \in Order /\ o.epoch = next_epoch /\ o.revision = file.revision
      /\ o.places = file.places /\ o.stamp = file.stamp
  BY <1>2, <1>3, <1>4 DEF State, Order
<1>6. /\ order' = [order EXCEPT ![e] = o] /\ NewEpoch(m)
      /\ tables' = [tables EXCEPT ![e] = [epoch |-> 0, mapping |-> Default]]
      /\ cache_epoch' = [cache_epoch EXCEPT ![e] = 0]
      /\ pages' = [pages EXCEPT ![e] = {}] /\ groups' = [groups EXCEPT ![e] = {}]
      /\ threads' = [t \in Threads |-> IF E(t) = e THEN IdleThread ELSE threads[t]]
      /\ writing' = [writing EXCEPT ![e] = NoThread]
      /\ file_lock' = IF \E t \in Threads : E(t) = e /\ t = file_lock
                      THEN NoThread ELSE file_lock
      /\ file' = file /\ calls_left' = calls_left /\ unreadable' = unreadable
      /\ restarts < MaxRestarts /\ restarts' = restarts + 1
  BY <1>2, <1>4 DEF Restart
<1>7. /\ Epochs /\ next_epoch' = next_epoch + 1 /\ next_epoch' \in Nat /\ next_epoch' >= 2
      /\ ranked_by' \in [0 .. next_epoch' - 1 -> Mapping]
      /\ ranked_by'[next_epoch] = m /\ ranked_by'[0] = Default
  BY <1>6, EpochAdded
<1>8. /\ order'[e] = o /\ \A d \in Engines \ {e} : order'[d] = order[d]
      /\ order' \in [Engines -> Order]
  BY <1>1, <1>5, <1>6, TypeParts
<1>9. /\ \A t \in Threads : E(t) = e => threads'[t] = IdleThread
      /\ \A t \in Threads : E(t) # e => threads'[t] = threads[t]
  BY <1>6
<1>10. TypeOK'
  <2>1. /\ file_lock' \in Threads \cup {NoThread}
        /\ writing' \in [Engines -> Threads \cup {NoThread}]
    BY <1>6, Rest
  <2>2. tables' \in [Engines -> [epoch : Nat, mapping : Mapping]]
    BY <1>3, <1>6, Rest
  <2>3. /\ cache_epoch' \in [Engines -> Nat]
        /\ pages' \in [Engines -> SUBSET PageOf] /\ groups' \in [Engines -> SUBSET PageOf]
    BY <1>6, Rest
  <2>4. /\ calls_left' \in 0 .. MaxCalls /\ unreadable' \in 0 .. MaxUnreadable
        /\ restarts' \in 0 .. MaxRestarts
    BY <1>1, <1>6, OrderAssumption DEF TypeOK
  <2>5. threads' \in [Threads -> Thread]
    BY <1>1, <1>6, Empty, StateFields
  <2>6. file' \in File
    BY <1>1, <1>6, TypeParts
  <2>7. QED
    BY <1>7, <1>8, <2>1, <2>2, <2>3, <2>4, <2>5, <2>6 DEF TypeOK, File, Order
<1>11. \A k \in Nat : k < next_epoch => k < next_epoch' /\ ranked_by'[k] = ranked_by[k]
  BY <1>3, <1>7 DEF Epochs
<1>12. OrdersRanked'
  <2>1. Held(e)' = m /\ order'[e].epoch = next_epoch
    BY <1>2, <1>5, <1>8 DEF Held, FileMapping
  <2>2. ASSUME NEW d \in Engines, d # e
        PROVE  order'[d].epoch < next_epoch' /\ ranked_by'[order'[d].epoch] = Held(d)'
    <3>1. order'[d] = order[d] /\ order[d].epoch \in Nat
      BY <1>1, <1>8, <2>2, StateFields
    <3>2. Held(d)' = Held(d)
      BY <3>1 DEF Held
    <3>3. QED
      BY <1>11, <3>1, <3>2 DEF IInv, Ranks, OrdersRanked
  <2>3. QED
    BY <1>3, <1>7, <2>1, <2>2 DEF OrdersRanked
<1>13. TablesRanked'
  <2>1. tables'[e].epoch = 0 /\ tables'[e].mapping = Default
    BY <1>6, Rest
  <2>2. \A d \in Engines \ {e} : tables'[d] = tables[d] /\ tables[d].epoch \in Nat
    BY <1>6, Rest
  <2>3. QED
    BY <1>7, <1>11, <2>1, <2>2 DEF IInv, Ranks, TablesRanked
<1>14. \A d \in Engines : /\ pages'[d] \subseteq pages[d] /\ groups'[d] \subseteq groups[d]
                          /\ \A page \in pages[d] \cup groups[d] : page.epoch \in Nat
  BY <1>6, Rest DEF PageOf
<1>15. PagesRanked'
  BY <1>11, <1>14 DEF IInv, Ranks, PagesRanked
<1>16. Ranks'
  BY <1>7, <1>12, <1>13, <1>15 DEF Ranks
<1>17. ASSUME NEW u \in Threads PROVE RanksBy(threads[u])'
  <2>1. CASE E(u) = e
    BY <1>9, <2>1, Empty DEF RanksBy
  <2>2. CASE E(u) # e
    <3>1. PICK q \in Thread : q = threads[u] /\ RanksBy(q)
      BY Its
    <3>2. RanksBy(q)'
      BY <1>1, <1>7, <3>1, RanksByKeeps
    <3>3. threads'[u] = q
      BY <1>9, <2>2, <3>1
    <3>4. QED
      BY <3>2, <3>3 DEF RanksBy
  <2>3. QED
    BY <2>1, <2>2
<1>18. ASSUME Readable PROVE InStep' /\ GroupsRanked' /\ Named'
  <2>1. InStep'
    BY <1>3, <1>5, <1>6, <1>8, <1>18 DEF IInv, InStep
  <2>2. GroupsRanked'
    BY <1>11, <1>14, <1>18 DEF IInv, GroupsRanked
  <2>3. \A d \in Engines :
          \/ order'[d].revision = order[d].revision /\ order'[d].places = order[d].places
          \/ order'[d].revision = file.revision /\ order'[d].places = file.places
    BY <1>5, <1>8
  <2>4. \A t \in Threads : At(t, "take")' => threads'[t] = threads[t]
    BY <1>9, Empty DEF At
  <2>5. Named
    BY <1>18 DEF IInv
  <2>6. Named'
    BY <1>1, <1>6, <2>3, <2>4, <2>5, NamedKeeps
  <2>7. QED
    BY <2>1, <2>2, <2>6
<1>19. ASSUME Readable, NEW u \in Threads PROVE Keeps(u, threads[u])'
  <2>1. CASE E(u) = e
    <3>1. threads'[u] = IdleThread
      BY <1>9, <2>1
    <3>2. QED
      BY <1>3, <1>6, <3>1, Empty DEF Keeps
  <2>2. CASE E(u) # e
    <3>1. PICK q \in Thread : q = threads[u] /\ Keeps(u, q)
      BY <1>19, Its
    <3>2. order'[E(u)] = order[E(u)] /\ writing'[E(u)] = writing[E(u)]
      BY <1>6, <1>8, <2>2, Rest, ItsEngine
    <3>3. file_lock = u => file_lock' = u
      BY <1>6, <2>2
    <3>4. Keeps(u, q)'
      BY <1>1, <1>6, <1>7, <1>10, <3>1, <3>2, <3>3, ApartKeeps
    <3>5. threads'[u] = q
      BY <1>9, <2>2, <3>1
    <3>6. QED
      BY <3>4, <3>5 DEF Keeps
  <2>3. QED
    BY <2>1, <2>2
<1>20. Readable' <=> Readable
  BY DEF Readable
<1>21. QED
  BY <1>10, <1>16, <1>17, <1>18, <1>19, <1>20 DEF IInv

----------------------------------------------------------------------------
(* The invariant holds.                                                    *)

\* It holds at first: nothing was set, and nobody is in a call.
LEMMA InitIInv == Init => IInv
<1> SUFFICES ASSUME Init PROVE IInv
  OBVIOUS
<1>1. /\ file = [revision |-> 0, places |-> NoPlaces, stamp |-> 0]
      /\ file_lock = NoThread
      /\ order = [e \in Engines |-> [revision |-> 0, places |-> NoPlaces, epoch |-> 1, stamp |-> 0]]
      /\ writing = [e \in Engines |-> NoThread]
      /\ tables = [e \in Engines |-> [epoch |-> 0, mapping |-> Default]]
      /\ cache_epoch = [e \in Engines |-> 0]
      /\ pages = [e \in Engines |-> {}] /\ groups = [e \in Engines |-> {}]
      /\ threads = [t \in Threads |-> IdleThread]
      /\ next_epoch = 2 /\ ranked_by = [k \in 0 .. 1 |-> Default]
      /\ calls_left = MaxCalls /\ unreadable = 0 /\ restarts = 0
  BY DEF Init
<1>2. TypeOK
  <2>1. NoPlaces \in Places /\ MaxCalls \in Nat /\ MaxUnreadable \in Nat /\ MaxRestarts \in Nat
    BY OrderAssumption
  <2>2. ranked_by \in [0 .. next_epoch - 1 -> Mapping] /\ next_epoch \in Nat
    BY <1>1, Empty
  <2>3. /\ file \in File /\ order \in [Engines -> Order]
        /\ threads \in [Threads -> Thread]
    BY <1>1, <2>1, Empty DEF File, Order
  <2>4. RestTypes
    BY <1>1, <2>1, Empty DEF RestTypes
  <2>5. QED
    BY <2>2, <2>3, <2>4 DEF TypeOK, RestTypes, File, Order
<1>3. Ranks
  <2>1. ranked_by[0] = Default /\ ranked_by[1] = Default
    BY <1>1
  <2>2. \A e \in Engines : order[e].epoch = 1 /\ Held(e) = Default
    BY <1>1 DEF Held, Default
  <2>3. QED
    BY <1>1, <2>1, <2>2 DEF Ranks, OrdersRanked, TablesRanked, PagesRanked
<1>4. ASSUME NEW t \in Threads PROVE RanksBy(threads[t]) /\ Keeps(t, threads[t])
  BY <1>1, Empty DEF RanksBy, Keeps
<1>5. InStep /\ GroupsRanked
  BY <1>1 DEF InStep, GroupsRanked
<1>6. Named
  <2>1. PICK name \in [Nat -> Places] : name = [n \in Nat |-> NoPlaces]
    BY OrderAssumption
  <2>2. name[0] = NoPlaces /\ \A t \in Threads : ~At(t, "take")
    BY <1>1, <2>1, Empty DEF At
  <2>3. QED
    BY <1>1, <2>2 DEF Named
<1>7. QED
  BY <1>2, <1>3, <1>4, <1>5, <1>6 DEF IInv

\* Every step preserves it.
LEMMA NextIInv ==
  ASSUME IInv, [Next]_vars
  PROVE  IInv'
<1>1. CASE UNCHANGED vars
  <2>1. /\ file' = file /\ file_lock' = file_lock /\ order' = order /\ writing' = writing
        /\ tables' = tables /\ cache_epoch' = cache_epoch /\ pages' = pages /\ groups' = groups
        /\ threads' = threads /\ next_epoch' = next_epoch /\ ranked_by' = ranked_by
        /\ calls_left' = calls_left /\ unreadable' = unreadable /\ restarts' = restarts
    BY <1>1 DEF vars
  <2>2. TypeOK' /\ Ranks' /\ \A t \in Threads : RanksBy(threads[t])'
    BY <2>1 DEF IInv, TypeOK, Ranks, OrdersRanked, TablesRanked, PagesRanked, Held, RanksBy
  <2>3. Readable => InStep' /\ GroupsRanked' /\ Named'
    BY <2>1 DEF IInv, InStep, GroupsRanked, Named, At
  <2>4. Readable => \A t \in Threads : Keeps(t, threads[t])'
    BY <2>1 DEF IInv, Keeps, FileMapping
  <2>5. Readable' <=> Readable
    BY DEF Readable
  <2>6. QED
    BY <2>2, <2>3, <2>4, <2>5 DEF IInv
<1>2. ASSUME NEW t \in Threads, Call(t) PROVE IInv'
  BY <1>2, CallBegins
<1>3. ASSUME NEW t \in Threads, Step(t) PROVE IInv'
  <2>1. CASE LocalLock(t) \/ FileLock(t) \/ Load(t) \/ Save(t) \/ Install(t) \/ Take(t)
    BY <2>1, LocalLockKeeps, FileLockKeeps, LoadKeeps, SaveKeeps, InstallKeeps, TakeKeeps
  <2>2. CASE Unchanged(t) \/ ClearSet(t) \/ Revision(t) \/ Done(t)
    BY <2>2, ReturnsKeep
  <2>3. CASE Stat(t) \/ Compare(t) \/ Refresh(t) \/ Read(t) \/ ClearRefreshed(t)
    BY <2>3, StatKeeps, CompareKeeps, RefreshKeeps, ReadKeeps, ClearRefreshedKeeps
  <2>4. CASE ReadOrder(t) \/ UseTables(t) \/ BuildTables(t) \/ Lookup(t) \/ Store(t)
    BY <2>4, ReadOrderKeeps, UseTablesKeeps, BuildTablesKeeps, LookupKeeps, StoreKeeps
  <2>5. CASE GroupKey(t) \/ GroupLookup(t) \/ GroupStore(t)
    BY <2>5, GroupKeyKeeps, GroupLookupKeeps, GroupStoreKeeps
  <2>6. QED
    BY <1>3, <2>1, <2>2, <2>3, <2>4, <2>5 DEF Step
<1>4. ASSUME NEW t \in Threads, SetFails(t) PROVE IInv'
  BY <1>4, ReturnsKeep
<1>5. ASSUME NEW e \in Engines, Restart(e) PROVE IInv'
  BY <1>5, RestartKeeps
<1>6. QED
  BY <1>1, <1>2, <1>3, <1>4, <1>5 DEF Next

\* The invariant holds in every state the engines reach.
THEOREM Inductive == Spec => []IInv
BY InitIInv, NextIInv, PTL DEF Spec

\* The state has its types, whatever files cannot be read.
THEOREM TypeCorrect == Spec => []TypeOK
<1>1. IInv => TypeOK
  BY DEF IInv
<1>2. QED
  BY <1>1, Inductive, PTL

\* What the page cache and the tables hold was ranked by the mapping their
\* epoch stands for, also when reads of the mapping file fail (ranked_page,
\* CachedOrderTables): whatever engines, threads, calls and restarts there are.
THEOREM Ranked == Spec => []RankedByItsEpoch
<1>1. IInv => RankedByItsEpoch
  BY DEF IInv, Ranks, TablesRanked, PagesRanked, RankedByItsEpoch
<1>2. QED
  BY <1>1, Inductive, PTL

\* While the mapping file can be read, a revision names one mapping, whichever
\* engines hold it (set_book_order under its lock file).
THEOREM NamesMapping ==
  ASSUME MaxUnreadable = 0
  PROVE  Spec => []RevisionNamesMapping
<1>1. ASSUME IInv PROVE RevisionNamesMapping
  <2>1. Named /\ TypeOK
    BY <1>1 DEF IInv, Readable
  <2>2. PICK name \in [Nat -> Places] :
          /\ file.places = name[file.revision]
          /\ \A e \in Engines : order[e].places = name[order[e].revision]
    BY <2>1 DEF Named
  <2>3. \A m \in {Held(e) : e \in Engines} \cup {FileMapping} : m.places = name[m.revision]
    BY <2>1, <2>2, StateFields
  <2>4. QED
    BY <2>3 DEF RevisionNamesMapping
<1>2. QED
  BY <1>1, Inductive, PTL

\* While the mapping file can be read, a sorted search ranks by a mapping no
\* older than the file's when the search began, also when its page comes from a
\* cache (set_book_order, ranked_page, group_cache_key).
THEOREM Sorted ==
  ASSUME MaxUnreadable = 0
  PROVE  Spec => []SortedByLastMapping
<1>1. ASSUME IInv PROVE SortedByLastMapping
  <2>1. ASSUME NEW t \in Threads, At(t, "done")
        PROVE  threads[t].mapping.revision >= threads[t].expected
    <3>1. PICK f \in Thread : f = threads[t] /\ Keeps(t, f) /\ f.pc = "done"
      BY <1>1, <2>1, Its DEF Readable, At
    <3>2. f.expected <= f.mapping.revision /\ f.expected \in Nat /\ f.mapping.revision \in Nat
      BY <3>1, CallFields DEF Keeps
    <3>3. QED
      BY <3>1, <3>2
  <2>2. QED
    BY <2>1 DEF SortedByLastMapping
<1>2. QED
  BY <1>1, Inductive, PTL

\* While the mapping file can be read, no engine goes back to an older mapping
\* (refresh_book_order under the engine's lock, set_book_order).
THEOREM NoneGoesBack ==
  ASSUME MaxUnreadable = 0
  PROVE  Spec => NeverGoesBack
<1>1. ASSUME IInv, [Next]_vars, NEW e \in Engines
      PROVE  order'[e].revision >= order[e].revision
  <2>1. /\ TypeOK /\ InStep /\ order[e].revision \in Nat /\ file.revision \in Nat
        /\ order[e].revision <= file.revision
    BY <1>1, StateFields DEF IInv, Readable, InStep
  <2>2. CASE order' = order
    BY <2>1, <2>2
  <2>3. ASSUME NEW t \in Threads, Install(t) PROVE order'[e].revision >= order[e].revision
    <3>1. PICK f \in Thread : f = threads[t] /\ Keeps(t, f) /\ f.pc = "install"
      BY <1>1, <2>3, Its DEF Readable, Install, At
    <3>2. f.mapping.revision = file.revision
      BY <2>1, <3>1, StateFields DEF Keeps
    <3>3. order' = [order EXCEPT ![E(t)] = State(f.mapping, file.stamp)]
      BY <2>3, <3>1 DEF Install
    <3>4. order'[e] = order[e] \/ order'[e].revision = file.revision
      BY <2>1, <3>2, <3>3 DEF State, TypeOK
    <3>5. QED
      BY <2>1, <3>4
  <2>4. ASSUME NEW t \in Threads, Take(t) PROVE order'[e].revision >= order[e].revision
    <3>1. PICK f \in Thread : f = threads[t] /\ Keeps(t, f) /\ f.pc = "take"
      BY <1>1, <2>4, Its DEF Readable, Take, At
    <3>2. \/ order' = [order EXCEPT ![E(t)].stamp = f.stamp]
          \/ order' = [order EXCEPT ![E(t)] = State(f.mapping, f.stamp)]
      BY <2>4, <3>1 DEF Take
    <3>3. \/ order'[e].revision = order[e].revision
          \/ e = E(t) /\ order'[e].revision = f.mapping.revision
      <4>1. PICK d \in Engines : d = E(t)
        BY ItsEngine
      <4>2. order[d] \in Order /\ order \in [Engines -> Order]
        BY <2>1, TypeParts
      <4>3. CASE order' = [order EXCEPT ![E(t)].stamp = f.stamp]
        BY <4>1, <4>2, <4>3 DEF Order
      <4>4. CASE order' = [order EXCEPT ![E(t)] = State(f.mapping, f.stamp)]
        BY <4>1, <4>2, <4>4 DEF State
      <4>5. QED
        BY <3>2, <4>3, <4>4
    <3>4. f.mapping.revision \in Nat /\ (e = E(t) => order[e].revision <= f.mapping.revision)
      BY <3>1, CallFields DEF Keeps
    <3>5. QED
      BY <2>1, <3>3, <3>4
  <2>5. ASSUME NEW d \in Engines, Restart(d) PROVE order'[e].revision >= order[e].revision
    <3>1. order' = [order EXCEPT ![d] = State(FileMapping, file.stamp)]
      BY <2>5 DEF Restart
    <3>2. order'[e] = order[e] \/ order'[e].revision = file.revision
      BY <2>1, <3>1, StateFields DEF State, TypeOK
    <3>3. QED
      BY <2>1, <3>2
  <2>6. \/ order' = order
        \/ \E t \in Threads : Install(t) \/ Take(t)
        \/ \E d \in Engines : Restart(d)
    <3>1. ASSUME NEW t \in Threads, Call(t) PROVE order' = order
      BY <3>1 DEF Call, set_book_order, book_order_revision, ranked_page, collect_grouped, Start
    <3>2. ASSUME NEW t \in Threads, Step(t), ~Install(t), ~Take(t) PROVE order' = order
      <4>1. CASE LocalLock(t) \/ FileLock(t) \/ Load(t) \/ Save(t) \/ Unchanged(t) \/ ClearSet(t)
        BY <4>1 DEF LocalLock, FileLock, Load, Save, Unchanged, ClearSet
      <4>2. CASE Stat(t) \/ Compare(t) \/ Refresh(t) \/ Read(t) \/ ClearRefreshed(t) \/ Revision(t)
        BY <4>2 DEF Stat, Compare, Refresh, Read, ClearRefreshed, Revision, Private
      <4>3. CASE ReadOrder(t) \/ UseTables(t) \/ BuildTables(t) \/ Lookup(t) \/ Store(t)
                 \/ GroupKey(t) \/ GroupLookup(t) \/ GroupStore(t) \/ Done(t)
        BY <4>3 DEF ReadOrder, UseTables, BuildTables, Lookup, Store, GroupKey, GroupLookup,
                    GroupStore, Done, Private
      <4>4. QED
        BY <3>2, <4>1, <4>2, <4>3 DEF Step
    <3>3. ASSUME NEW t \in Threads, SetFails(t) PROVE order' = order
      BY <3>3 DEF SetFails
    <3>4. CASE UNCHANGED vars
      BY <3>4 DEF vars
    <3>5. QED
      BY <1>1, <3>1, <3>2, <3>3, <3>4 DEF Next
  <2>7. QED
    BY <2>2, <2>3, <2>4, <2>5, <2>6
<1>2. ASSUME IInv, [Next]_vars PROVE [\A e \in Engines : order'[e].revision >= order[e].revision]_vars
  BY <1>1, <1>2
<1>3. QED
  BY <1>2, Inductive, PTL DEF Spec, NeverGoesBack
----------------------------------------------------------------------------
(* Nobody waits for good.                                                  *)

\* The points at which a thread asks for the lock of its engine's order.
Asking == {"local_lock", "compare", "refresh", "revision", "order", "group_order", "group_key"}

\* A call whose next step finds the lock it needs free.
CanStep(t) ==
  /\ ~At(t, "idle")
  /\ threads[t].pc \in Asking => Unlocked(E(t))
  /\ At(t, "file_lock") => file_lock = NoThread

\* Who holds the lock a thread asks for.
HolderFor(t) == IF At(t, "file_lock") THEN file_lock ELSE writing[E(t)]

\* A lock is held only by a thread at the work it is for.
HoldersWork ==
  /\ \A e \in Engines : writing[e] # NoThread =>
       /\ E(writing[e]) = e
       /\ threads[writing[e]].pc \in {"file_lock", "load", "save", "install", "read", "take"}
  /\ file_lock # NoThread => threads[file_lock].pc \in {"load", "save", "install", "clear"}

\* A call that cannot go on waits for a thread that can, or for one that only
\* waits for the lock file and for its holder, who can: the engine's lock comes
\* before the lock file for everyone who takes both.
WaitsEnd ==
  \A t \in Threads : ~At(t, "idle") /\ ~CanStep(t) =>
    LET u == HolderFor(t)
    IN  /\ u \in Threads
        /\ \/ CanStep(u)
           \/ At(u, "file_lock") /\ file_lock \in Threads /\ CanStep(file_lock)

\* The steps from a search's or a refresh's point to the end of its call; a
\* grouped search refreshes once more after it looked for its page.
PointsYet(pc) ==
  CASE pc = "idle" -> 0
    [] pc \in {"clear", "done", "revision"} -> 1
    [] pc \in {"install", "store"} -> 2
    [] pc \in {"save", "rank"} -> 3
    [] pc \in {"load", "tables"} -> 4
    [] pc \in {"file_lock", "order", "group_order"} -> 5
    [] pc \in {"local_lock", "clear_refreshed"} -> 6
    [] pc = "take" -> 7
    [] pc = "read" -> 8
    [] pc = "refresh" -> 9
    [] pc = "compare" -> 10
    [] pc = "stat" -> 11
    [] pc = "group_lookup" -> 12
    [] OTHER -> 13

\* The points of a refresh.
Refreshing == {"stat", "compare", "refresh", "read", "take", "clear_refreshed"}

\* The steps a call has yet to take, at most.
StepsYet(r) ==
  PointsYet(r.pc) + (IF r.after = "group_key" /\ r.pc \in Refreshing THEN 8 ELSE 0)

\* What a step does to the steps a thread's call has yet to take.
StepLess(t) ==
  /\ StepsYet(threads'[t]) \in 0 .. 19
  /\ Step(t) => StepsYet(threads'[t]) < StepsYet(threads[t])
  /\ ~Call(t) => StepsYet(threads'[t]) <= StepsYet(threads[t])

\* The value at each point.
LEMMA PointsTable ==
  ASSUME NEW pc
  PROVE  /\ PointsYet(pc) \in 0 .. 13
         /\ pc = "idle" => PointsYet(pc) = 0
         /\ pc \in {"clear", "done", "revision"} => PointsYet(pc) = 1
         /\ pc \in {"install", "store"} => PointsYet(pc) = 2
         /\ pc \in {"save", "rank"} => PointsYet(pc) = 3
         /\ pc \in {"load", "tables"} => PointsYet(pc) = 4
         /\ pc \in {"file_lock", "order", "group_order"} => PointsYet(pc) = 5
         /\ pc \in {"local_lock", "clear_refreshed"} => PointsYet(pc) = 6
         /\ pc = "take" => PointsYet(pc) = 7
         /\ pc = "read" => PointsYet(pc) = 8
         /\ pc = "refresh" => PointsYet(pc) = 9
         /\ pc = "compare" => PointsYet(pc) = 10
         /\ pc = "stat" => PointsYet(pc) = 11
         /\ pc = "group_lookup" => PointsYet(pc) = 12
         /\ pc = "group_key" => PointsYet(pc) = 13
<1>1. CASE pc = "idle"
  <2>1. PointsYet(pc) = 0
    BY <1>1 DEF PointsYet
  <2>2. QED
    BY <1>1, <2>1
<1>2. CASE pc \in {"clear", "done", "revision"}
  <2>1. PointsYet(pc) = 1
    BY <1>2 DEF PointsYet
  <2>2. QED
    BY <1>2, <2>1
<1>3. CASE pc \in {"install", "store"}
  <2>1. PointsYet(pc) = 2
    BY <1>3 DEF PointsYet
  <2>2. QED
    BY <1>3, <2>1
<1>4. CASE pc \in {"save", "rank"}
  <2>1. PointsYet(pc) = 3
    BY <1>4 DEF PointsYet
  <2>2. QED
    BY <1>4, <2>1
<1>5. CASE pc \in {"load", "tables"}
  <2>1. PointsYet(pc) = 4
    BY <1>5 DEF PointsYet
  <2>2. QED
    BY <1>5, <2>1
<1>6. CASE pc \in {"file_lock", "order", "group_order"}
  <2>1. PointsYet(pc) = 5
    BY <1>6 DEF PointsYet
  <2>2. QED
    BY <1>6, <2>1
<1>7. CASE pc \in {"local_lock", "clear_refreshed"}
  <2>1. PointsYet(pc) = 6
    BY <1>7 DEF PointsYet
  <2>2. QED
    BY <1>7, <2>1
<1>8. CASE pc = "take"
  <2>1. PointsYet(pc) = 7
    BY <1>8 DEF PointsYet
  <2>2. QED
    BY <1>8, <2>1
<1>9. CASE pc = "read"
  <2>1. PointsYet(pc) = 8
    BY <1>9 DEF PointsYet
  <2>2. QED
    BY <1>9, <2>1
<1>10. CASE pc = "refresh"
  <2>1. PointsYet(pc) = 9
    BY <1>10 DEF PointsYet
  <2>2. QED
    BY <1>10, <2>1
<1>11. CASE pc = "compare"
  <2>1. PointsYet(pc) = 10
    BY <1>11 DEF PointsYet
  <2>2. QED
    BY <1>11, <2>1
<1>12. CASE pc = "stat"
  <2>1. PointsYet(pc) = 11
    BY <1>12 DEF PointsYet
  <2>2. QED
    BY <1>12, <2>1
<1>13. CASE pc = "group_lookup"
  <2>1. PointsYet(pc) = 12
    BY <1>13 DEF PointsYet
  <2>2. QED
    BY <1>13, <2>1
<1>14. CASE pc \notin {"idle", "clear", "done", "revision", "install", "store",
                     "save", "rank", "load", "tables", "file_lock", "order",
                     "group_order", "local_lock", "clear_refreshed", "take", "read", "refresh",
                     "compare", "stat", "group_lookup"}
  <2>1. PointsYet(pc) = 13
    BY <1>14 DEF PointsYet
  <2>2. QED
    BY <1>14, <2>1
<1>15. QED
  BY <1>1, <1>2, <1>3, <1>4, <1>5, <1>6, <1>7, <1>8, <1>9, <1>10, <1>11, <1>12, <1>13, <1>14

\* A call has nineteen steps at most, and thirteen when it is not refreshing.
LEMMA YetTable ==
  ASSUME NEW r
  PROVE  /\ StepsYet(r) \in 0 .. 19
         /\ r.pc \notin Refreshing => StepsYet(r) = PointsYet(r.pc)
         /\ r.after # "group_key" => StepsYet(r) = PointsYet(r.pc)
         /\ r.pc \in Refreshing /\ r.after = "group_key" => StepsYet(r) = PointsYet(r.pc) + 8
<1>1. PointsYet(r.pc) \in 0 .. 13 /\ (r.pc \in Refreshing => PointsYet(r.pc) \in 0 .. 11)
  BY PointsTable DEF Refreshing
<1>2. QED
  BY <1>1 DEF StepsYet

\* Thread t goes on to pc, and the others stay where they are.
Arrives(t, pc, after) ==
  /\ threads'[t].pc = pc /\ threads'[t].after = after
  /\ \A u \in Threads \ {t} : threads'[u] = threads[u]

\* Whatever a thread takes along, it arrives where it goes.
LEMMA GoesTo ==
  ASSUME IInv, NEW t \in Threads, NEW pc, NEW rec, DOMAIN rec = DOMAIN threads[t],
         Goes(t, pc, rec)
  PROVE  Arrives(t, pc, rec.after)
<1>1. threads \in [Threads -> Thread] /\ threads[t] \in Thread
  BY DEF IInv, TypeOK
<1>2. PICK q : q = [rec EXCEPT !.pc = pc]
  OBVIOUS
<1>3. q.pc = pc /\ q.after = rec.after
  BY <1>1, <1>2 DEF Thread
<1>4. threads' = [threads EXCEPT ![t] = q]
  BY <1>2 DEF Goes
<1>5. QED
  BY <1>1, <1>3, <1>4 DEF Arrives

\* A call that returns leaves its thread idle, without its locks.
LEMMA Returned ==
  ASSUME IInv, NEW t \in Threads, Return(t)
  PROVE  /\ Arrives(t, "idle", "idle")
         /\ writing'[E(t)] # t /\ file_lock' # t
         /\ \A e \in Engines : writing'[e] \in {writing[e], NoThread}
         /\ file_lock' \in {file_lock, NoThread}
<1>1. threads \in [Threads -> Thread] /\ writing \in [Engines -> Threads \cup {NoThread}]
      /\ E(t) \in Engines /\ t # NoThread
  BY ItsEngine, OrderAssumption DEF IInv, TypeOK
<1>2. Arrives(t, "idle", "idle")
  BY <1>1 DEF Return, Arrives, IdleThread
<1>3. QED
  BY <1>1, <1>2 DEF Return

\* What was read goes along to where it is taken in.
LEMMA ReadLeads ==
  ASSUME IInv, NEW t \in Threads, Read(t)
  PROVE  Arrives(t, "take", threads[t].after)
<1>1. PICK f \in Thread : f = threads[t] /\ f.pc = "read"
  BY Its DEF Read, At
<1>2. PICK failed \in BOOLEAN :
        /\ CountRead(failed)
        /\ Goes(t, "take", [f EXCEPT !.mapping = load(failed), !.blind = @ \/ failed])
  BY <1>1 DEF Read
<1>3. PICK m, blind : m = load(failed) /\ blind = (f.blind \/ failed)
  OBVIOUS
<1>4. PICK rec : rec = [f EXCEPT !.mapping = m, !.blind = blind]
  OBVIOUS
<1>5. Goes(t, "take", rec)
  BY <1>2, <1>3, <1>4
<1>6. DOMAIN rec = DOMAIN threads[t] /\ rec.after = threads[t].after
  BY <1>1, <1>4 DEF Thread
<1>7. QED
  BY <1>5, <1>6, GoesTo

\* Where a step of a call leads.
LEMMA StepLeads ==
  ASSUME IInv, NEW t \in Threads, Step(t)
  PROVE  StepsYet(threads'[t]) < StepsYet(threads[t]) /\ \A u \in Threads \ {t} : threads'[u] = threads[u]
<1> DEFINE now == threads[t]
           next == threads'[t]
           Fewer(pc, after) == \A r : r.pc = pc /\ r.after = after => StepsYet(r) < StepsYet(now)
<1>1. now \in Thread /\ now.after \in Afters
  BY Its, CallFields
<1>2. ASSUME NEW pc, NEW after, Arrives(t, pc, after), Fewer(pc, after)
      PROVE  StepsYet(next) < StepsYet(now) /\ \A u \in Threads \ {t} : threads'[u] = threads[u]
  BY <1>2 DEF Arrives
<1> HIDE DEF Fewer
<1>3. ASSUME NEW rec, NEW pc, Goes(t, pc, rec), DOMAIN rec = DOMAIN now, Fewer(pc, rec.after)
      PROVE  StepsYet(next) < StepsYet(now) /\ \A u \in Threads \ {t} : threads'[u] = threads[u]
  BY <1>2, <1>3, GoesTo
<1>4. CASE LocalLock(t)
  <2>1. now.pc = "local_lock" /\ Goes(t, "file_lock", now)
    BY <1>4 DEF LocalLock, At
  <2>2. Fewer("file_lock", now.after)
    BY <2>1, YetTable, PointsTable DEF Fewer, Refreshing
  <2>3. QED
    BY <1>3, <2>1, <2>2
<1>5. CASE FileLock(t)
  <2>1. now.pc = "file_lock" /\ Goes(t, "load", now)
    BY <1>5 DEF FileLock, At
  <2>2. Fewer("load", now.after)
    BY <2>1, YetTable, PointsTable DEF Fewer, Refreshing
  <2>3. QED
    BY <1>3, <2>1, <2>2
<1>6. CASE Load(t)
  <2>a. PICK failed \in BOOLEAN :
          LET m == load(failed)
              later == [revision |-> m.revision + 1, places |-> now.places]
          IN  IF m.places # now.places
              THEN Goes(t, "save", [now EXCEPT !.mapping = later])
              ELSE Goes(t, "install", [now EXCEPT !.mapping = m])
    BY <1>6 DEF Load
  <2>b. PICK m, later :
          m = load(failed) /\ later = [revision |-> m.revision + 1, places |-> now.places]
    OBVIOUS
  <2>c. PICK saved, kept : /\ saved = [now EXCEPT !.mapping = later]
                           /\ kept = [now EXCEPT !.mapping = m]
    OBVIOUS
  <2>d. /\ DOMAIN saved = DOMAIN now /\ saved.after = now.after
        /\ DOMAIN kept = DOMAIN now /\ kept.after = now.after
    BY <1>1, <2>c DEF Thread
  <2>e. Goes(t, "save", saved) \/ Goes(t, "install", kept)
    BY <2>a, <2>b, <2>c
  <2>1. now.pc = "load"
    BY <1>6 DEF Load, At
  <2>2. PICK pc, rec :
          /\ pc \in {"save", "install"} /\ Goes(t, pc, rec)
          /\ DOMAIN rec = DOMAIN now /\ rec.after = now.after
    BY <2>d, <2>e
  <2>3. Fewer("save", now.after)
    BY <2>1, YetTable, PointsTable DEF Fewer, Refreshing
  <2>4. Fewer("install", now.after)
    BY <2>1, YetTable, PointsTable DEF Fewer, Refreshing
  <2>5. QED
    BY <1>3, <2>1, <2>2, <2>3, <2>4
<1>7. CASE Save(t)
  <2>1. now.pc = "save" /\ Goes(t, "install", now)
    BY <1>7 DEF Save, At
  <2>2. Fewer("install", now.after)
    BY <2>1, YetTable, PointsTable DEF Fewer, Refreshing
  <2>3. QED
    BY <1>3, <2>1, <2>2
<1>8. CASE Unchanged(t)
  <2>1. now.pc = "install" /\ Arrives(t, "idle", "idle")
    BY <1>8, Returned DEF Unchanged, At
  <2>2. Fewer("idle", "idle")
    BY <2>1, YetTable, PointsTable DEF Fewer, Refreshing
  <2>3. QED
    BY <1>2, <2>1, <2>2
<1>9. CASE Install(t)
  <2>1. now.pc = "install" /\ Goes(t, "clear", now)
    BY <1>9 DEF Install, At
  <2>2. Fewer("clear", now.after)
    BY <2>1, YetTable, PointsTable DEF Fewer, Refreshing
  <2>3. QED
    BY <1>3, <2>1, <2>2
<1>10. CASE ClearSet(t)
  <2>1. now.pc = "clear" /\ Arrives(t, "idle", "idle")
    BY <1>10, Returned DEF ClearSet, At
  <2>2. Fewer("idle", "idle")
    BY <2>1, YetTable, PointsTable DEF Fewer, Refreshing
  <2>3. QED
    BY <1>2, <2>1, <2>2
<1>11. CASE Stat(t)
  <2>1. PICK rec : /\ rec = [now EXCEPT !.stamp = file.stamp]
                   /\ now.pc = "stat" /\ Goes(t, "compare", rec)
    BY <1>11 DEF Stat, At
  <2>2. DOMAIN rec = DOMAIN now /\ rec.after = now.after
    BY <1>1, <2>1 DEF Thread
  <2>3. Fewer("compare", now.after)
    BY <2>1, YetTable, PointsTable DEF Fewer, Refreshing
  <2>4. QED
    BY <1>3, <2>1, <2>2, <2>3
<1>12. CASE Compare(t)
  <2>1. PICK pc \in Afters \cup {"refresh"} : now.pc = "compare" /\ Goes(t, pc, now) /\ pc \in {now.after, "refresh"}
    BY <1>1, <1>12 DEF Compare, At
  <2>2. Fewer(pc, now.after)
    <3>1. CASE pc = "refresh"
      BY <2>1, <3>1, YetTable, PointsTable DEF Fewer, Refreshing
    <3>2. CASE pc = now.after /\ now.after # "group_key"
      BY <1>1, <2>1, <3>2, YetTable, PointsTable DEF Fewer, Refreshing, Afters
    <3>3. CASE pc = now.after /\ now.after = "group_key"
      BY <2>1, <3>3, YetTable, PointsTable DEF Fewer, Refreshing
    <3>4. QED
      BY <2>1, <3>1, <3>2, <3>3
  <2>3. QED
    BY <1>3, <2>1, <2>2
<1>13. CASE Refresh(t)
  <2>1. PICK rec : /\ rec = [now EXCEPT !.stamp = file.stamp]
                   /\ now.pc = "refresh" /\ Goes(t, "read", rec)
    BY <1>13 DEF Refresh, At
  <2>2. DOMAIN rec = DOMAIN now /\ rec.after = now.after
    BY <1>1, <2>1 DEF Thread
  <2>3. Fewer("read", now.after)
    BY <2>1, YetTable, PointsTable DEF Fewer, Refreshing
  <2>4. QED
    BY <1>3, <2>1, <2>2, <2>3
<1>14. CASE Read(t)
  <2>1. now.pc = "read"
    BY <1>14 DEF Read, At
  <2>2. Arrives(t, "take", now.after)
    BY <1>14, ReadLeads
  <2>3. Fewer("take", now.after)
    BY <2>1, YetTable, PointsTable DEF Fewer, Refreshing
  <2>4. QED
    BY <1>2, <2>2, <2>3
<1>15. CASE Take(t)
  <2>1. PICK pc \in {now.after, "clear_refreshed"} : now.pc = "take" /\ Goes(t, pc, now)
    BY <1>15 DEF Take, At
  <2>2. Fewer(pc, now.after)
    <3>1. CASE pc = "clear_refreshed"
      BY <2>1, <3>1, YetTable, PointsTable DEF Fewer, Refreshing
    <3>2. CASE pc = now.after /\ now.after # "group_key"
      BY <1>1, <2>1, <3>2, YetTable, PointsTable DEF Fewer, Refreshing, Afters
    <3>3. CASE pc = now.after /\ now.after = "group_key"
      BY <2>1, <3>3, YetTable, PointsTable DEF Fewer, Refreshing
    <3>4. QED
      BY <2>1, <3>1, <3>2, <3>3
  <2>3. QED
    BY <1>3, <2>1, <2>2
<1>16. CASE ClearRefreshed(t)
  <2>1. PICK pc \in {now.after} : now.pc = "clear_refreshed" /\ Goes(t, pc, now)
    BY <1>16 DEF ClearRefreshed, At
  <2>2. Fewer(pc, now.after)
    <3>2. CASE pc = now.after /\ now.after # "group_key"
      BY <1>1, <2>1, <3>2, YetTable, PointsTable DEF Fewer, Refreshing, Afters
    <3>3. CASE pc = now.after /\ now.after = "group_key"
      BY <2>1, <3>3, YetTable, PointsTable DEF Fewer, Refreshing
    <3>4. QED
      BY <2>1, <3>2, <3>3
  <2>3. QED
    BY <1>3, <2>1, <2>2
<1>17. CASE Revision(t)
  <2>1. now.pc = "revision" /\ Arrives(t, "idle", "idle")
    BY <1>17, Returned DEF Revision, At
  <2>2. Fewer("idle", "idle")
    BY <2>1, YetTable, PointsTable DEF Fewer, Refreshing
  <2>3. QED
    BY <1>2, <2>1, <2>2
<1>18. CASE ReadOrder(t)
  <2>1. PICK rec : /\ rec = [now EXCEPT !.epoch = order[E(t)].epoch, !.mapping = Held(E(t))]
                   /\ now.pc \in {"order", "group_order"} /\ Goes(t, "tables", rec)
    BY <1>18 DEF ReadOrder, At
  <2>2. DOMAIN rec = DOMAIN now /\ rec.after = now.after
    BY <1>1, <2>1 DEF Thread
  <2>3. Fewer("tables", now.after)
    BY <2>1, YetTable, PointsTable DEF Fewer, Refreshing
  <2>4. QED
    BY <1>3, <2>1, <2>2, <2>3
<1>19. CASE UseTables(t)
  <2>1. PICK rec : /\ rec = [now EXCEPT !.mapping = tables[E(t)].mapping]
                   /\ now.pc = "tables" /\ Goes(t, "rank", rec)
    BY <1>19 DEF UseTables, At
  <2>2. DOMAIN rec = DOMAIN now /\ rec.after = now.after
    BY <1>1, <2>1 DEF Thread
  <2>3. Fewer("rank", now.after)
    BY <2>1, YetTable, PointsTable DEF Fewer, Refreshing
  <2>4. QED
    BY <1>3, <2>1, <2>2, <2>3
<1>20. CASE BuildTables(t)
  <2>1. now.pc = "tables" /\ Goes(t, "rank", now)
    BY <1>20 DEF BuildTables, At
  <2>2. Fewer("rank", now.after)
    BY <2>1, YetTable, PointsTable DEF Fewer, Refreshing
  <2>3. QED
    BY <1>3, <2>1, <2>2
<1>21. CASE Lookup(t)
  <2>1. now.pc = "rank"
    BY <1>21 DEF Lookup, At
  <2>2. CASE \E page \in pages[E(t)] : Goes(t, "done", [now EXCEPT !.mapping = page.mapping])
    <3>a. PICK page \in pages[E(t)] : Goes(t, "done", [now EXCEPT !.mapping = page.mapping])
      BY <2>2
    <3>1. PICK rec : rec = [now EXCEPT !.mapping = page.mapping] /\ Goes(t, "done", rec)
      BY <3>a
    <3>2. DOMAIN rec = DOMAIN now /\ rec.after = now.after
      BY <1>1, <3>1 DEF Thread
    <3>3. Fewer("done", now.after)
      BY <2>1, YetTable, PointsTable DEF Fewer, Refreshing
    <3>4. QED
      BY <1>3, <3>1, <3>2, <3>3
  <2>3. CASE Goes(t, "store", [now EXCEPT !.key = now.epoch, !.cached = cache_epoch[E(t)]])
    <3>1. PICK rec : /\ rec = [now EXCEPT !.key = now.epoch, !.cached = cache_epoch[E(t)]]
                     /\ Goes(t, "store", rec)
      BY <2>3
    <3>2. DOMAIN rec = DOMAIN now /\ rec.after = now.after
      BY <1>1, <3>1 DEF Thread
    <3>3. Fewer("store", now.after)
      BY <2>1, YetTable, PointsTable DEF Fewer, Refreshing
    <3>4. QED
      BY <1>3, <3>1, <3>2, <3>3
  <2>4. QED
    BY <1>21, <2>2, <2>3 DEF Lookup
<1>22. CASE Store(t)
  <2>1. now.pc = "store" /\ Goes(t, "done", now)
    BY <1>22 DEF Store, At
  <2>2. Fewer("done", now.after)
    BY <2>1, YetTable, PointsTable DEF Fewer, Refreshing
  <2>3. QED
    BY <1>3, <2>1, <2>2
<1>23. CASE GroupKey(t)
  <2>1. PICK rec : /\ rec = [now EXCEPT !.key = order[E(t)].epoch]
                   /\ now.pc = "group_key" /\ Goes(t, "group_lookup", rec)
    BY <1>23 DEF GroupKey, At
  <2>2. DOMAIN rec = DOMAIN now /\ rec.after = now.after
    BY <1>1, <2>1 DEF Thread
  <2>3. Fewer("group_lookup", now.after)
    BY <2>1, YetTable, PointsTable DEF Fewer, Refreshing
  <2>4. QED
    BY <1>3, <2>1, <2>2, <2>3
<1>24. CASE GroupLookup(t)
  <2>1. now.pc = "group_lookup"
    BY <1>24 DEF GroupLookup, At
  <2>2. CASE \E page \in groups[E(t)] : Goes(t, "done", [now EXCEPT !.mapping = page.mapping])
    <3>a. PICK page \in groups[E(t)] : Goes(t, "done", [now EXCEPT !.mapping = page.mapping])
      BY <2>2
    <3>1. PICK rec : rec = [now EXCEPT !.mapping = page.mapping] /\ Goes(t, "done", rec)
      BY <3>a
    <3>2. DOMAIN rec = DOMAIN now /\ rec.after = now.after
      BY <1>1, <3>1 DEF Thread
    <3>3. Fewer("done", now.after)
      BY <2>1, YetTable, PointsTable DEF Fewer, Refreshing
    <3>4. QED
      BY <1>3, <3>1, <3>2, <3>3
  <2>3. CASE Goes(t, "stat", [now EXCEPT !.after = "group_order", !.cached = cache_epoch[E(t)]])
    <3>1. PICK rec : /\ rec = [now EXCEPT !.after = "group_order", !.cached = cache_epoch[E(t)]]
                     /\ Goes(t, "stat", rec)
      BY <2>3
    <3>2. DOMAIN rec = DOMAIN now /\ rec.after = "group_order"
      BY <1>1, <3>1 DEF Thread
    <3>3. Fewer("stat", "group_order")
      BY <2>1, YetTable, PointsTable DEF Fewer, Refreshing
    <3>4. QED
      BY <1>3, <3>1, <3>2, <3>3
  <2>4. QED
    BY <1>24, <2>2, <2>3 DEF GroupLookup
<1>25. CASE GroupStore(t)
  <2>1. now.pc = "rank" /\ Goes(t, "done", now)
    BY <1>25 DEF GroupStore, At
  <2>2. Fewer("done", now.after)
    BY <2>1, YetTable, PointsTable DEF Fewer, Refreshing
  <2>3. QED
    BY <1>3, <2>1, <2>2
<1>26. CASE Done(t)
  <2>1. now.pc = "done" /\ Arrives(t, "idle", "idle")
    BY <1>26, Returned DEF Done, At
  <2>2. Fewer("idle", "idle")
    BY <2>1, YetTable, PointsTable DEF Fewer, Refreshing
  <2>3. QED
    BY <1>2, <2>1, <2>2
<1>27. QED
  BY <1>4, <1>5, <1>6, <1>7, <1>8, <1>9, <1>10, <1>11, <1>12, <1>13, <1>14, <1>15, <1>16, <1>17, <1>18, <1>19, <1>20, <1>21, <1>22, <1>23, <1>24, <1>25, <1>26 DEF Step

----------------------------------------------------------------------------
(* Who holds a lock is at work.                                            *)

\* The points at which a thread holds the engine's order, and the lock file.
Working == {"file_lock", "load", "save", "install", "read", "take"}
Filing == {"load", "save", "install", "clear"}

\* A step of t that takes a lock only for work of its own.
LocksFor(t) ==
  /\ \A u \in Threads \ {t} : threads'[u] = threads[u]
  /\ \A e \in Engines \ {E(t)} : writing'[e] \in {writing[e], NoThread}
  /\ writing'[E(t)] \in {writing[E(t)], NoThread, t}
  /\ writing'[E(t)] = t => threads'[t].pc \in Working
  /\ file_lock' \in {file_lock, NoThread, t}
  /\ file_lock' = t => threads'[t].pc \in Filing

\* After such a step holders are still at work.
LEMMA LocksFollow ==
  ASSUME IInv, HoldersWork, NEW t \in Threads, LocksFor(t)
  PROVE  HoldersWork'
<1>1. /\ file_lock \in Threads \cup {NoThread}
      /\ writing \in [Engines -> Threads \cup {NoThread}] /\ E(t) \in Engines
  BY ItsEngine DEF IInv, TypeOK
<1>2. ASSUME NEW e \in Engines, writing'[e] # NoThread
      PROVE  E(writing'[e]) = e /\ threads'[writing'[e]].pc \in Working
  <2>1. CASE writing'[e] = t
    <3>1. e = E(t)
      BY <1>1, <1>2, <2>1 DEF LocksFor, HoldersWork
    <3>2. QED
      BY <2>1, <3>1 DEF LocksFor
  <2>2. CASE writing'[e] # t
    <3>1. writing'[e] = writing[e]
      BY <1>2, <2>2 DEF LocksFor
    <3>2. writing[e] \in Threads \ {t}
      BY <1>1, <1>2, <2>2, <3>1
    <3>3. E(writing[e]) = e /\ threads[writing[e]].pc \in Working
      BY <1>2, <3>1 DEF HoldersWork, Working
    <3>4. QED
      BY <3>1, <3>2, <3>3 DEF LocksFor
  <2>3. QED
    BY <2>1, <2>2
<1>3. ASSUME file_lock' # NoThread
      PROVE  threads'[file_lock'].pc \in Filing
  <2>1. CASE file_lock' = t
    BY <2>1 DEF LocksFor
  <2>2. CASE file_lock' # t
    <3>1. file_lock' = file_lock /\ file_lock \in Threads \ {t}
      BY <1>1, <1>3, <2>2 DEF LocksFor
    <3>2. file_lock # NoThread
      BY <1>3, <3>1
    <3>3. threads[file_lock].pc \in Filing
      BY <3>2 DEF HoldersWork, Filing
    <3>4. threads'[file_lock] = threads[file_lock]
      BY <3>1 DEF LocksFor
    <3>5. QED
      BY <3>1, <3>3, <3>4
  <2>3. QED
    BY <2>1, <2>2
<1>4. QED
  BY <1>2, <1>3 DEF HoldersWork, Working, Filing, E

\* What a thread holds says where it is.
LEMMA HoldsAt ==
  ASSUME IInv, HoldersWork, NEW t \in Threads
  PROVE  /\ writing[E(t)] = t => threads[t].pc \in Working
         /\ file_lock = t => threads[t].pc \in Filing
  BY ItsEngine, OrderAssumption DEF HoldersWork, Working, Filing

\* A step that takes no lock and goes on from a point where it held none.
LEMMA FreeStep ==
  ASSUME IInv, HoldersWork, NEW t \in Threads, threads[t].pc \notin Working \cup Filing,
         writing' = writing, file_lock' = file_lock,
         \A u \in Threads \ {t} : threads'[u] = threads[u]
  PROVE  LocksFor(t)
  BY HoldsAt DEF LocksFor

\* A call that returns gives back what it held.
LEMMA ReturnLocks ==
  ASSUME IInv, NEW t \in Threads, Return(t)
  PROVE  LocksFor(t)
<1>1. Arrives(t, "idle", "idle") /\ E(t) \in Engines
  BY Returned, ItsEngine
<1>2. QED
  BY <1>1, Returned DEF LocksFor, Arrives

\* Every step of a call takes a lock only for its work.
LEMMA StepLocks ==
  ASSUME IInv, HoldersWork, NEW t \in Threads, Step(t)
  PROVE  LocksFor(t)
<1> DEFINE now == threads[t]
<1>1. /\ \A u \in Threads \ {t} : threads'[u] = threads[u]
      /\ E(t) \in Engines /\ t # NoThread
      /\ writing \in [Engines -> Threads \cup {NoThread}]
  BY StepLeads, ItsEngine, OrderAssumption DEF IInv, TypeOK
<1>2. CASE Unchanged(t) \/ ClearSet(t) \/ Revision(t) \/ Done(t)
  BY <1>2, ReturnLocks DEF Unchanged, ClearSet, Revision, Done
<1>3. CASE Stat(t) \/ Compare(t) \/ ClearRefreshed(t) \/ ReadOrder(t) \/ UseTables(t)
           \/ BuildTables(t) \/ Lookup(t) \/ Store(t) \/ GroupKey(t) \/ GroupLookup(t)
           \/ GroupStore(t)
  <2>1. writing' = writing /\ file_lock' = file_lock
    BY <1>3 DEF Stat, Compare, ClearRefreshed, ReadOrder, UseTables, BuildTables, Lookup,
                Store, GroupKey, GroupLookup, GroupStore, Private
  <2>2. now.pc \in {"stat", "compare", "clear_refreshed", "order", "group_order", "tables",
                    "rank", "store", "group_key", "group_lookup"}
    BY <1>3 DEF Stat, Compare, ClearRefreshed, ReadOrder, UseTables, BuildTables, Lookup,
                Store, GroupKey, GroupLookup, GroupStore, At
  <2>3. now.pc \notin Working \cup Filing
    BY <2>2 DEF Working, Filing
  <2>4. QED
    BY <1>1, <2>1, <2>3, FreeStep
<1>4. CASE LocalLock(t) \/ Refresh(t)
  <2>1. now.pc \in {"local_lock", "refresh"}
    BY <1>4 DEF LocalLock, Refresh, At
  <2>2. file_lock' = file_lock /\ file_lock # t
    BY <1>4, <2>1, HoldsAt DEF LocalLock, Refresh, Filing
  <2>3. writing' = [writing EXCEPT ![E(t)] = t]
    BY <1>4 DEF LocalLock, Refresh
  <2>4. threads'[t].pc \in Working
    <3>1. CASE LocalLock(t)
      <4>1. Goes(t, "file_lock", now)
        BY <3>1 DEF LocalLock
      <4>2. Arrives(t, "file_lock", now.after)
        BY <4>1, GoesTo
      <4>3. QED
        BY <4>2 DEF Arrives, Working
    <3>2. CASE Refresh(t)
      <4>1. PICK rec : rec = [now EXCEPT !.stamp = file.stamp] /\ Goes(t, "read", rec)
        BY <3>2 DEF Refresh
      <4>2. DOMAIN rec = DOMAIN now
        BY <4>1
      <4>3. Arrives(t, "read", rec.after)
        BY <4>1, <4>2, GoesTo
      <4>4. QED
        BY <4>3 DEF Arrives, Working
    <3>3. QED
      BY <1>4, <3>1, <3>2
  <2>5. QED
    BY <1>1, <2>2, <2>3, <2>4 DEF LocksFor
<1>5. CASE FileLock(t) \/ Save(t)
  <2>1. PICK pc \in {"load", "install"} : Goes(t, pc, now)
    BY <1>5 DEF FileLock, Save
  <2>2. threads'[t].pc \in {"load", "install"}
    BY <2>1, GoesTo DEF Arrives
  <2>3. writing' = writing /\ file_lock' \in {file_lock, t}
    BY <1>5 DEF FileLock, Save
  <2>4. QED
    BY <1>1, <2>2, <2>3 DEF LocksFor, Working, Filing
<1>6. CASE Load(t)
  <2>1. threads'[t].pc \in {"save", "install"}
    <3>1. PICK failed \in BOOLEAN :
            LET m == load(failed)
                later == [revision |-> m.revision + 1, places |-> now.places]
            IN  IF m.places # now.places
                THEN Goes(t, "save", [now EXCEPT !.mapping = later])
                ELSE Goes(t, "install", [now EXCEPT !.mapping = m])
      BY <1>6 DEF Load
    <3>2. PICK m, later :
            m = load(failed) /\ later = [revision |-> m.revision + 1, places |-> now.places]
      OBVIOUS
    <3>3. PICK saved, kept : /\ saved = [now EXCEPT !.mapping = later]
                             /\ kept = [now EXCEPT !.mapping = m]
      OBVIOUS
    <3>4. DOMAIN saved = DOMAIN now /\ DOMAIN kept = DOMAIN now
      BY <3>3
    <3>5. Goes(t, "save", saved) \/ Goes(t, "install", kept)
      BY <3>1, <3>2, <3>3
    <3>6. Arrives(t, "save", saved.after) \/ Arrives(t, "install", kept.after)
      BY <3>4, <3>5, GoesTo
    <3>7. QED
      BY <3>6 DEF Arrives
  <2>2. writing' = writing /\ file_lock' = file_lock
    BY <1>6 DEF Load
  <2>3. QED
    BY <1>1, <2>1, <2>2 DEF LocksFor, Working, Filing
<1>7. CASE Install(t)
  <2>1. Goes(t, "clear", now)
    BY <1>7 DEF Install
  <2>2. threads'[t].pc = "clear"
    BY <2>1, GoesTo DEF Arrives
  <2>3. writing' = [writing EXCEPT ![E(t)] = NoThread] /\ file_lock' = file_lock
    BY <1>7 DEF Install
  <2>4. QED
    BY <1>1, <2>2, <2>3 DEF LocksFor, Filing
<1>8. CASE Read(t)
  <2>3. threads'[t].pc = "take"
    BY <1>8, ReadLeads DEF Arrives
  <2>4. now.pc = "read" /\ writing' = writing /\ file_lock' = file_lock
    BY <1>8 DEF Read, At
  <2>5. file_lock # t
    BY <2>4, HoldsAt DEF Filing
  <2>6. QED
    BY <1>1, <2>3, <2>4, <2>5 DEF LocksFor, Working
<1>9. CASE Take(t)
  <2>1. now.pc = "take" /\ file_lock' = file_lock /\ writing' = [writing EXCEPT ![E(t)] = NoThread]
    BY <1>9 DEF Take, At
  <2>2. file_lock # t
    BY <2>1, HoldsAt DEF Filing
  <2>3. QED
    BY <1>1, <2>1, <2>2 DEF LocksFor
<1>10. QED
  BY <1>2, <1>3, <1>4, <1>5, <1>6, <1>7, <1>8, <1>9 DEF Step

\* A call begins without a lock.
LEMMA CallLocks ==
  ASSUME IInv, HoldersWork, NEW t \in Threads, Call(t)
  PROVE  LocksFor(t)
<1>1. PICK pc, after, places : Start(t, pc, after, places)
  BY DEF Call, set_book_order, book_order_revision, ranked_page, collect_grouped
<1>2. /\ threads[t].pc = "idle" /\ writing' = writing /\ file_lock' = file_lock
      /\ \A u \in Threads \ {t} : threads'[u] = threads[u]
  BY <1>1 DEF Start, At, Goes, IInv, TypeOK
<1>3. QED
  BY <1>2, FreeStep DEF Working, Filing

\* A restart gives back what the threads of its engine held.
LEMMA RestartLocks ==
  ASSUME IInv, HoldersWork, NEW e \in Engines, Restart(e)
  PROVE  HoldersWork'
<1>1. /\ file_lock \in Threads \cup {NoThread} /\ NoThread \notin Threads
      /\ writing \in [Engines -> Threads \cup {NoThread}]
  BY OrderAssumption DEF IInv, TypeOK
<1>2. /\ \A u \in Threads : E(u) # e => threads'[u] = threads[u]
      /\ writing'[e] = NoThread /\ \A d \in Engines \ {e} : writing'[d] = writing[d]
      /\ file_lock' = file_lock \/ file_lock' = NoThread
      /\ \A t \in Threads : E(t) = e => file_lock' # t
  BY <1>1 DEF Restart
<1>3. ASSUME NEW d \in Engines, writing'[d] # NoThread
      PROVE  E(writing'[d]) = d /\ threads'[writing'[d]].pc \in Working
  <2>1. d # e /\ writing'[d] = writing[d] /\ writing[d] \in Threads
    BY <1>1, <1>2, <1>3
  <2>2. E(writing[d]) = d /\ threads[writing[d]].pc \in Working
    BY <1>3, <2>1 DEF HoldersWork, Working
  <2>3. QED
    BY <1>2, <2>1, <2>2
<1>4. ASSUME file_lock' # NoThread
      PROVE  threads'[file_lock'].pc \in Filing
  <2>1. file_lock' = file_lock /\ file_lock \in Threads /\ E(file_lock) # e
    BY <1>1, <1>2, <1>4
  <2>2. threads[file_lock].pc \in Filing
    BY <1>4, <2>1 DEF HoldersWork, Filing
  <2>3. QED
    BY <1>2, <2>1, <2>2
<1>5. QED
  BY <1>3, <1>4 DEF HoldersWork, Working, Filing, E

\* Every step keeps the holders at work.
LEMMA NextHolders ==
  ASSUME IInv, HoldersWork, [Next]_vars
  PROVE  HoldersWork'
<1>1. ASSUME NEW t \in Threads, Call(t) PROVE HoldersWork'
  BY <1>1, CallLocks, LocksFollow
<1>2. ASSUME NEW t \in Threads, Step(t) PROVE HoldersWork'
  BY <1>2, StepLocks, LocksFollow
<1>3. ASSUME NEW t \in Threads, SetFails(t) PROVE HoldersWork'
  <2>1. Return(t)
    BY <1>3 DEF SetFails
  <2>2. QED
    BY <2>1, ReturnLocks, LocksFollow
<1>4. ASSUME NEW e \in Engines, Restart(e) PROVE HoldersWork'
  BY <1>4, RestartLocks
<1>5. CASE UNCHANGED vars
  BY <1>5 DEF vars, HoldersWork, E
<1>6. QED
  BY <1>1, <1>2, <1>3, <1>4, <1>5 DEF Next

\* Who holds an engine's order or the lock file is in the call that needs it.
THEOREM HoldersInvariant == Spec => [](IInv /\ HoldersWork)
<1>1. Init => HoldersWork
  BY OrderAssumption DEF Init, HoldersWork
<1>2. IInv /\ HoldersWork /\ [Next]_vars => HoldersWork'
  BY NextHolders
<1>3. QED
  BY <1>1, <1>2, Inductive, PTL DEF Spec

\* No call waits for good, however many engines, threads and calls there are
\* and whatever reads fail: who holds the lock it waits for can go on, or waits
\* for the lock file only, whose holder can (set_book_order takes the engine's
\* lock and then the lock file, refresh_book_order the engine's lock alone).
THEOREM NeverDeadlocked == Spec => []WaitsEnd
<1>1. ASSUME IInv, HoldersWork PROVE WaitsEnd
  <2> SUFFICES ASSUME NEW t \in Threads, ~At(t, "idle"), ~CanStep(t)
               PROVE  /\ HolderFor(t) \in Threads
                      /\ \/ CanStep(HolderFor(t))
                         \/ /\ At(HolderFor(t), "file_lock")
                            /\ file_lock \in Threads /\ CanStep(file_lock)
    BY DEF WaitsEnd
  <2>1. /\ file_lock \in Threads \cup {NoThread} /\ E(t) \in Engines
        /\ writing \in [Engines -> Threads \cup {NoThread}]
    BY <1>1, ItsEngine DEF IInv, TypeOK
  <2>2. ASSUME file_lock # NoThread PROVE file_lock \in Threads /\ CanStep(file_lock)
    <3>1. file_lock \in Threads /\ threads[file_lock].pc \in {"load", "save", "install", "clear"}
      BY <1>1, <2>1, <2>2 DEF HoldersWork
    <3>2. QED
      BY <3>1 DEF CanStep, At, Asking
  <2>3. CASE At(t, "file_lock")
    <3>1. file_lock # NoThread
      BY <2>3 DEF CanStep, At, Asking
    <3>2. QED
      BY <2>2, <2>3, <3>1 DEF HolderFor
  <2>4. CASE ~At(t, "file_lock")
    <3>1. writing[E(t)] # NoThread
      BY <2>4 DEF CanStep, Unlocked
    <3>2. PICK u \in Threads : u = HolderFor(t) /\ u = writing[E(t)]
      BY <2>1, <2>4, <3>1 DEF HolderFor
    <3>3. threads[u].pc \in {"file_lock", "load", "save", "install", "read", "take"}
      BY <1>1, <2>1, <3>1, <3>2 DEF HoldersWork
    <3>4. CASE threads[u].pc = "file_lock" /\ file_lock # NoThread
      BY <2>2, <3>2, <3>4 DEF At
    <3>5. CASE threads[u].pc # "file_lock" \/ file_lock = NoThread
      <4>1. CanStep(u)
        BY <3>3, <3>5 DEF CanStep, At, Asking
      <4>2. QED
        BY <3>2, <4>1
    <3>6. QED
      BY <3>4, <3>5
  <2>5. QED
    BY <2>3, <2>4
<1>2. QED
  BY <1>1, HoldersInvariant, PTL

\* What a step does to the calls of all the threads.
CallsShrink == \A t \in Threads : StepLess(t)

\* A step that is no call's beginning leaves no thread more to do.
LEMMA OthersShrink ==
  ASSUME IInv, [Next]_vars, NEW t \in Threads, ~Call(t), ~Step(t)
  PROVE  StepsYet(threads'[t]) <= StepsYet(threads[t])
<1>1. threads \in [Threads -> Thread] /\ StepsYet(threads[t]) \in 0 .. 19
  BY YetTable DEF IInv, TypeOK
<1>2. CASE threads'[t] = threads[t]
  BY <1>1, <1>2
<1>3. CASE threads'[t] = IdleThread
  <2>1. StepsYet(threads'[t]) = 0
    BY <1>3, YetTable, PointsTable, Empty DEF Refreshing
  <2>2. QED
    BY <1>1, <2>1
<1>4. ASSUME NEW u \in Threads, Call(u) PROVE threads'[t] = threads[t]
  <2>1. PICK pc, after, places : Start(u, pc, after, places)
    BY <1>4 DEF Call, set_book_order, book_order_revision, ranked_page, collect_grouped
  <2>2. u # t
    BY <1>4
  <2>3. QED
    BY <1>1, <2>1, <2>2 DEF Start, Goes
<1>5. ASSUME NEW u \in Threads, Step(u) PROVE threads'[t] = threads[t]
  <2>1. u # t
    BY <1>5
  <2>2. QED
    BY <1>5, <2>1, StepLeads
<1>6. ASSUME NEW u \in Threads, SetFails(u) PROVE threads'[t] \in {threads[t], IdleThread}
  BY <1>1, <1>6 DEF SetFails, Return
<1>7. ASSUME NEW e \in Engines, Restart(e) PROVE threads'[t] \in {threads[t], IdleThread}
  BY <1>7 DEF Restart
<1>8. CASE UNCHANGED vars
  BY <1>2, <1>8 DEF vars
<1>9. QED
  BY <1>2, <1>3, <1>4, <1>5, <1>6, <1>7, <1>8 DEF Next

\* Every call ends within nineteen steps of its own: each of them is one fewer,
\* and no step of another thread, no failure and no restart adds one. With the
\* theorem above, what a call needs to return is that threads that can go on do.
THEOREM StepsFewer == Spec => [][CallsShrink]_vars
<1>1. IInv /\ [Next]_vars => CallsShrink
  <2> SUFFICES ASSUME IInv, [Next]_vars, NEW t \in Threads PROVE StepLess(t)
    BY DEF CallsShrink
  <2>1. StepsYet(threads[t]) \in 0 .. 19 /\ StepsYet(threads'[t]) \in 0 .. 19
    BY YetTable
  <2>2. CASE Step(t)
    <3>1. StepsYet(threads'[t]) < StepsYet(threads[t])
      BY <2>2, StepLeads
    <3>2. QED
      BY <2>1, <3>1 DEF StepLess
  <2>3. CASE ~Step(t)
    <3>1. ~Call(t) => StepsYet(threads'[t]) <= StepsYet(threads[t])
      BY <2>3, OthersShrink
    <3>2. QED
      BY <2>1, <2>3, <3>1 DEF StepLess
  <2>4. QED
    BY <2>2, <2>3
<1>2. QED
  BY <1>1, Inductive, PTL DEF Spec
=============================================================================
