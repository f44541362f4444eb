------------------------------ MODULE VectorSet ------------------------------
(* The vector set of the semantic search on disk (search_engine.rs): installs *)
(* and compactions of several processes, each of which expands its segment    *)
(* beside a lock file, waits for the sidecar's lock of the set, flips the     *)
(* generation and moves the open session onto it, while sessions open and     *)
(* close, searches plan by a view of the set, processes die, and files that   *)
(* should be removed stay.                                                    *)
(*                                                                           *)
(* The sidecar is another repository: what it does under its lock is one step *)
(* that succeeds or not. There is one set, and all paths name it.             *)
EXTENDS Naturals, FiniteSets

CONSTANTS
  Calls,                    \* threads of the application, a call at a time each
  Processes,
  ProcessOf(_),             \* the process of a call
  NoCall,
  EXPANSION_LOCK_ATTEMPTS,
  MaxGeneration,            \* bound: generations of the set
  MaxCalls,                 \* bound: calls begun
  MaxNames,                 \* bound: expansions begun, each with its own name
  MaxCrashes,               \* bound: processes that die
  MaxStays                  \* bound: files that do not open or cannot be removed

ASSUME VectorSetAssumption ==
  /\ \A c \in Calls : ProcessOf(c) \in Processes
  /\ NoCall \notin Calls
  /\ EXPANSION_LOCK_ATTEMPTS \in Nat \ {0}
  /\ MaxGeneration \in Nat \ {0} /\ {MaxCalls, MaxNames, MaxCrashes, MaxStays} \subseteq Nat

VARIABLES
  generation,  \* of the set, the live one
  set_lock,    \* the call that holds the sidecar's lock of the set
  locks,       \* the expansions whose lock file is on disk
  segments,    \* the expansions whose segment is
  old,         \* the segments that are an hour old
  held,        \* the call that locks the lock file of each expansion
  work,        \* VECTOR_SET_WORK: the call of each process that works on the set
  session,     \* the generation each process's open session serves
  view,        \* semantic_set_view: the generation of the view kept
  planning,    \* the generation a running search of each process plans by
  pc,          \* where each call is
  name,        \* the expansion it makes or cleans
  todo,        \* the lock files its cleanup has listed and not looked at
  strays,      \* the segments it has listed without one and not looked at
  attempts,    \* the lock files it has created
  installed,   \* the generation it has installed
  loaded,      \* the generation it has loaded
  abandoned,   \* the expansions whose process died (history)
  unremoved,   \* those a file of which could not be removed (history)
  debris,      \* what each cleanup began to clean and nothing befell (history)
  calls_left,
  names_left,
  crashes_left,
  stays_left

memory == <<work, session, view, planning>>
incoming == <<locks, segments, old, held>>
disk == <<generation, set_lock, incoming>>
removals == <<unremoved, debris, stays_left>>
bounds == <<abandoned, removals, calls_left, names_left, crashes_left>>
lists == <<todo, strays>>
locals == <<lists, attempts, installed, loaded>>
vars == <<disk, memory, pc, name, locals, bounds>>

None == 0      \* no session, no view, no expansion
Names == 1 .. MaxNames

Init ==
  /\ generation = 1 /\ set_lock = NoCall
  /\ locks = {} /\ segments = {} /\ old = {} /\ held = [n \in Names |-> NoCall]
  /\ work = [p \in Processes |-> NoCall]
  /\ session = [p \in Processes |-> None]
  /\ view = [p \in Processes |-> None]
  /\ planning = [p \in Processes |-> None]
  /\ pc = [c \in Calls |-> "idle"] /\ name = [c \in Calls |-> None]
  /\ todo = [c \in Calls |-> {}] /\ strays = [c \in Calls |-> {}] /\ attempts = [c \in Calls |-> 0]
  /\ installed = [c \in Calls |-> None] /\ loaded = [c \in Calls |-> None]
  /\ abandoned = {} /\ unremoved = {} /\ debris = [c \in Calls |-> {}]
  /\ calls_left = MaxCalls /\ names_left = MaxNames
  /\ crashes_left = MaxCrashes /\ stays_left = MaxStays

Goes(c, from, to) == pc[c] = from /\ pc' = [pc EXCEPT ![c] = to]
Begins(c, to) ==
  /\ calls_left > 0 /\ calls_left' = calls_left - 1
  /\ Goes(c, "idle", to)
  /\ UNCHANGED <<name, locals, abandoned, removals, names_left, crashes_left>>
Holder(c) == held[name[c]]

\* Files of an expansion are removed as well as can be: what cannot be, stays.
Stays(n) ==
  /\ stays_left > 0 /\ stays_left' = stays_left - 1
  /\ debris' = [c \in Calls |-> debris[c] \ {n}]
Remove(files, n) ==
  \/ files' = files \ {n} /\ UNCHANGED removals
  \/ n \in files /\ UNCHANGED files /\ Stays(n) /\ unremoved' = unremoved \cup {n}

----------------------------------------------------------------------------
(* An install or a compaction.                                              *)

\* Mutant of take: a second one of the process is not refused.
take_shared(c, compressed) ==
  /\ Begins(c, IF compressed THEN "listing" ELSE "waiting")
  /\ work' = [work EXCEPT ![ProcessOf(c)] = c]
  /\ UNCHANGED <<disk, session, view, planning>>

\* A compaction, and a release that is not compressed, expand nothing.
take(c, compressed) ==
  /\ work[ProcessOf(c)] = NoCall
  /\ Begins(c, IF compressed THEN "listing" ELSE "waiting")
  /\ work' = [work EXCEPT ![ProcessOf(c)] = c]
  /\ UNCHANGED <<disk, session, view, planning>>

\* What lies there and nobody is at, for a cleanup to remove (history).
Lying == {n \in locks \cup (old \ locks) : \A c \in Calls : name[c] # n}

\* The folder is read while others create and remove files in it: a segment may
\* be listed whose lock file was not there yet.
List(c) ==
  /\ Goes(c, "listing", "listing_segments")
  /\ todo' = [todo EXCEPT ![c] = locks]
  /\ debris' = [debris EXCEPT ![c] = Lying]
  /\ UNCHANGED <<disk, memory, name, strays, attempts, installed, loaded>>
  /\ UNCHANGED <<abandoned, unremoved, stays_left, calls_left, names_left, crashes_left>>

ListSegments(c) ==
  /\ Goes(c, "listing_segments", "cleaning")
  /\ strays' = [strays EXCEPT ![c] = segments \ todo[c]]
  /\ UNCHANGED <<disk, memory, name, todo, attempts, installed, loaded, bounds>>

\* The folder cannot be made, or cannot be read, which is no reason not to install.
ListFails(c) ==
  /\ Goes(c, "listing", "returning") \/ Goes(c, "listing", "creating")
  /\ UNCHANGED <<disk, memory, name, locals, bounds>>

\* A lock file that is gone, or does not open, is passed over.
OpenLock(c) ==
  /\ pc[c] = "cleaning"
  /\ \E n \in todo[c] :
       /\ todo' = [todo EXCEPT ![c] = @ \ {n}]
       /\ \/ /\ n \in locks
             /\ Goes(c, "cleaning", "trying") /\ name' = [name EXCEPT ![c] = n]
             /\ UNCHANGED removals
          \/ n \notin locks /\ UNCHANGED <<pc, name, removals>>
          \/ n \in locks /\ Stays(n) /\ UNCHANGED <<pc, name, unremoved>>
  /\ UNCHANGED <<disk, memory, strays, attempts, installed, loaded>>
  /\ UNCHANGED <<abandoned, calls_left, names_left, crashes_left>>

\* A lock file that is locked is an expansion still running.
TryLock(c) ==
  /\ \/ /\ Goes(c, "trying", "removing")
        /\ Holder(c) = NoCall
        /\ held' = [held EXCEPT ![name[c]] = c]
        /\ UNCHANGED name
     \/ /\ Goes(c, "trying", "cleaning")
        /\ Holder(c) # NoCall
        /\ name' = [name EXCEPT ![c] = None]
        /\ UNCHANGED held
  /\ UNCHANGED <<generation, set_lock, locks, segments, old, memory, locals, bounds>>

\* Mutant of RemoveSegment: the segment stays and the lock file that marks it goes.
RemoveNoSegment(c) ==
  /\ Goes(c, "removing", "unmarking")
  /\ UNCHANGED <<disk, memory, name, locals, bounds>>

\* The segment goes before the lock file that marks it, or stays.
RemoveSegment(c) ==
  /\ Goes(c, "removing", "unmarking")
  /\ Remove(segments, name[c])
  /\ old' = old \cap segments'
  /\ UNCHANGED <<generation, set_lock, locks, held, memory, name, locals>>
  /\ UNCHANGED <<abandoned, calls_left, names_left, crashes_left>>

\* The lock file goes also when the segment stayed.
RemoveLock(c) ==
  /\ Goes(c, "unmarking", "cleaning")
  /\ Remove(locks, name[c])
  /\ held' = [held EXCEPT ![name[c]] = NoCall]
  /\ name' = [name EXCEPT ![c] = None]
  /\ UNCHANGED <<generation, set_lock, segments, old, memory, locals>>
  /\ UNCHANGED <<abandoned, calls_left, names_left, crashes_left>>

\* An hour is longer than an install or a cleanup is at an expansion.
GrowOld(n) ==
  /\ n \in segments \ old /\ \A c \in Calls : name[c] # n
  /\ old' = old \cup {n}
  /\ UNCHANGED <<generation, set_lock, locks, segments, held, memory, pc, name, locals, bounds>>

\* Mutant of RemoveStray: how old the segment is is not looked at.
RemoveStrayAnyAge(c) ==
  /\ pc[c] = "cleaning"
  /\ \E n \in strays[c] :
       /\ strays' = [strays EXCEPT ![c] = @ \ {n}]
       /\ Remove(segments, n) /\ old' = old \cap segments'
  /\ UNCHANGED <<generation, set_lock, locks, held, memory, pc, name, todo, attempts, installed, loaded>>
  /\ UNCHANGED <<abandoned, calls_left, names_left, crashes_left>>

\* A segment listed without its lock file goes once it is old: it may be one
\* that is being written.
RemoveStray(c) ==
  /\ pc[c] = "cleaning"
  /\ \E n \in strays[c] :
       /\ strays' = [strays EXCEPT ![c] = @ \ {n}]
       /\ IF n \in old
          THEN Remove(segments, n) /\ old' = old \cap segments'
          ELSE UNCHANGED <<segments, old, removals>>
  /\ UNCHANGED <<generation, set_lock, locks, held, memory, pc, name, todo, attempts, installed, loaded>>
  /\ UNCHANGED <<abandoned, calls_left, names_left, crashes_left>>

Cleaned(c) ==
  /\ todo[c] = {} /\ strays[c] = {}
  /\ Goes(c, "cleaning", "creating")
  /\ UNCHANGED <<disk, memory, name, locals, bounds>>

CreateLock(c) ==
  /\ names_left > 0 /\ names_left' = names_left - 1
  /\ Goes(c, "creating", "locking")
  /\ name' = [name EXCEPT ![c] = names_left]
  /\ attempts' = [attempts EXCEPT ![c] = @ + 1]
  /\ locks' = locks \cup {names_left}
  /\ UNCHANGED <<generation, set_lock, segments, old, held, memory, lists, installed, loaded>>
  /\ UNCHANGED <<abandoned, removals, calls_left, crashes_left>>

\* The download is not read, or no lock file can be created.
CreateFails(c) ==
  /\ Goes(c, "creating", "returning")
  /\ UNCHANGED <<disk, memory, name, locals, bounds>>

\* Mutant of LockIt: that the lock file is still there is not looked at.
LockUnlooked(c) ==
  /\ Goes(c, "locking", "expanding") /\ Holder(c) = NoCall
  /\ held' = [held EXCEPT ![name[c]] = c]
  /\ UNCHANGED <<generation, set_lock, locks, segments, old, memory, name, locals, bounds>>

\* A lock file another's cleanup took, or removed, is given up for a new one; one
\* that cannot be locked is given up.
LockIt(c) ==
  /\ \/ /\ Goes(c, "locking", "expanding")
        /\ Holder(c) = NoCall /\ name[c] \in locks
        /\ held' = [held EXCEPT ![name[c]] = c]
        /\ UNCHANGED <<name, locks, removals>>
     \/ /\ Goes(c, "locking",
                IF attempts[c] = EXPANSION_LOCK_ATTEMPTS THEN "returning" ELSE "creating")
        /\ Holder(c) # NoCall \/ name[c] \notin locks
        /\ Remove(locks, name[c])
        /\ name' = [name EXCEPT ![c] = None]
        /\ UNCHANGED held
     \/ /\ Goes(c, "locking", "returning")
        /\ Remove(locks, name[c])
        /\ name' = [name EXCEPT ![c] = None]
        /\ UNCHANGED held
  /\ UNCHANGED <<generation, set_lock, segments, old, memory, locals>>
  /\ UNCHANGED <<abandoned, calls_left, names_left, crashes_left>>

CreateSegment(c) ==
  /\ Goes(c, "expanding", "writing")
  /\ segments' = segments \cup {name[c]}
  /\ UNCHANGED <<generation, set_lock, locks, old, held, memory, name, locals, bounds>>

Written(c) ==
  /\ Goes(c, "writing", "waiting")
  /\ UNCHANGED <<disk, memory, name, locals, bounds>>

Dropping(c) == IF name[c] = None THEN "returning" ELSE "dropping"

\* Mutant of Fail: the lock file of a failed expansion stays.
FailUnmarked(c) ==
  /\ Goes(c, "writing", "returning")
  /\ UNCHANGED <<disk, memory, name, locals, bounds>>

\* Cancelled, or the segment does not expand, or there is no room for it.
Fail(c) ==
  /\ \/ Goes(c, "expanding", "unlocking") \/ Goes(c, "writing", "dropping")
  /\ UNCHANGED <<disk, memory, name, locals, bounds>>

LockSet(c) ==
  /\ set_lock = NoCall
  /\ Goes(c, "waiting", "installing")
  /\ set_lock' = c
  /\ UNCHANGED <<generation, incoming, memory, name, locals, bounds>>

\* waiting_for_set_lock: the lock is held for a second, or the call is cancelled.
SetBusy(c) ==
  /\ set_lock # NoCall
  /\ Goes(c, "waiting", Dropping(c))
  /\ UNCHANGED <<disk, memory, name, locals, bounds>>

\* The sidecar moves the segment into the set and flips the generation.
install_package(c) ==
  /\ generation < MaxGeneration
  /\ name[c] # None => name[c] \in segments
  /\ Goes(c, "installing", IF name[c] = None THEN "reloading" ELSE "dropping")
  /\ generation' = generation + 1 /\ set_lock' = NoCall
  /\ segments' = segments \ {name[c]}
  /\ installed' = [installed EXCEPT ![c] = generation']
  /\ UNCHANGED <<locks, old, held, memory, name, lists, attempts, loaded, bounds>>

\* The set stands at the release or past it already: nothing changes, and the
\* session is moved all the same.
AlreadyApplied(c) ==
  /\ Goes(c, "installing", IF name[c] = None THEN "reloading" ELSE "dropping")
  /\ set_lock' = NoCall
  /\ installed' = [installed EXCEPT ![c] = generation]
  /\ UNCHANGED <<generation, incoming, memory, name, lists, attempts, loaded, bounds>>

\* A release it refuses, a cancel, or nothing to compact.
Refused(c) ==
  /\ Goes(c, "installing", Dropping(c))
  /\ set_lock' = NoCall
  /\ UNCHANGED <<generation, incoming, memory, name, locals, bounds>>

\* As well as can be, too; an install has moved its segment away.
DropSegment(c) ==
  /\ Goes(c, "dropping", "unlocking")
  /\ Remove(segments, name[c])
  /\ UNCHANGED <<generation, set_lock, locks, old, held, memory, name, locals>>
  /\ UNCHANGED <<abandoned, calls_left, names_left, crashes_left>>

DropLock(c) ==
  /\ Goes(c, "unlocking", IF installed[c] = None THEN "returning" ELSE "reloading")
  /\ Remove(locks, name[c])
  /\ held' = [held EXCEPT ![name[c]] = NoCall]
  /\ name' = [name EXCEPT ![c] = None]
  /\ UNCHANGED <<generation, set_lock, segments, old, memory, locals>>
  /\ UNCHANGED <<abandoned, calls_left, names_left, crashes_left>>

reload_open_vectors(c) ==
  /\ LET p == ProcessOf(c)
     IN  \/ /\ session[p] = None
            /\ Goes(c, "reloading", "returning") /\ UNCHANGED view
         \/ /\ session[p] # None
            /\ Goes(c, "reloading", "loading") /\ view' = [view EXCEPT ![p] = None]
  /\ UNCHANGED <<disk, work, session, planning, name, locals, bounds>>

\* The sidecar loads the live generation, and the session serves it from then.
Load(c) ==
  /\ Goes(c, "loading", "swapping")
  /\ loaded' = [loaded EXCEPT ![c] = generation]
  /\ UNCHANGED <<disk, memory, name, lists, attempts, installed, bounds>>

Swap(c) ==
  /\ Goes(c, "swapping", "returning")
  /\ session' = [session EXCEPT ![ProcessOf(c)] = loaded[c]]
  /\ UNCHANGED <<disk, work, view, planning, name, locals, bounds>>

\* The new generation does not load, and the session serves the one it had.
LoadFails(c) ==
  /\ Goes(c, "loading", "returning")
  /\ UNCHANGED <<disk, memory, name, locals, bounds>>

Return(c) ==
  /\ Goes(c, "returning", "idle")
  /\ attempts' = [attempts EXCEPT ![c] = 0] /\ debris' = [debris EXCEPT ![c] = {}]
  /\ installed' = [installed EXCEPT ![c] = None] /\ loaded' = [loaded EXCEPT ![c] = None]
  /\ work' = [work EXCEPT ![ProcessOf(c)] = IF @ = c THEN NoCall ELSE @]
  /\ UNCHANGED <<disk, session, view, planning, name, lists>>
  /\ UNCHANGED <<abandoned, unremoved, stays_left, calls_left, names_left, crashes_left>>

----------------------------------------------------------------------------
(* Sessions, searches and the death of a process.                           *)

\* A second session is refused; opening may clean up under the set's lock.
open_semantic_artifact(c) ==
  /\ session[ProcessOf(c)] = None
  /\ Begins(c, "opening")
  /\ set_lock' \in {set_lock} \cup (IF set_lock = NoCall THEN {c} ELSE {})
  /\ UNCHANGED <<generation, incoming, memory>>

Opened(c) ==
  /\ \/ Goes(c, "opening", "storing") /\ loaded' = [loaded EXCEPT ![c] = generation]
     \/ Goes(c, "opening", "returning") /\ UNCHANGED loaded
  /\ set_lock' = IF set_lock = c THEN NoCall ELSE set_lock
  /\ UNCHANGED <<generation, incoming, memory, name, lists, attempts, installed, bounds>>

\* Another call may have opened a session while this one was loading.
Store(c) ==
  /\ Goes(c, "storing", "returning")
  /\ session' = [session EXCEPT ![ProcessOf(c)] = IF @ = None THEN loaded[c] ELSE @]
  /\ UNCHANGED <<disk, work, view, planning, name, locals, bounds>>

CallsOf(p) == {c \in Calls : ProcessOf(c) = p}

\* The engine is borrowed for it alone.
disable_semantic(p) ==
  /\ session[p] # None /\ planning[p] = None
  /\ \A c \in CallsOf(p) : pc[c] = "idle"
  /\ session' = [session EXCEPT ![p] = None]
  /\ view' = [view EXCEPT ![p] = None]
  /\ UNCHANGED <<disk, work, planning, pc, name, locals, bounds>>

\* A search reads the generation it plans by ...
plan_semantic_scan(p) ==
  /\ session[p] # None /\ planning[p] = None
  /\ planning' = [planning EXCEPT ![p] = session[p]]
  /\ UNCHANGED <<disk, work, session, view, pc, name, locals, bounds>>

\* Mutant of semantic_set_view: that the set has moved on is not looked at.
semantic_set_view_any(p) ==
  /\ planning[p] # None
  /\ view' = [view EXCEPT ![p] = planning[p]]
  /\ planning' = [planning EXCEPT ![p] = None]
  /\ UNCHANGED <<disk, work, session, pc, name, locals, bounds>>

\* ... and takes the view of it that is kept, or opens it while it is live.
semantic_set_view(p) ==
  /\ planning[p] # None
  /\ view' = [view EXCEPT ![p] = IF planning[p] \in {@, generation} THEN planning[p] ELSE None]
  /\ planning' = [planning EXCEPT ![p] = None]
  /\ UNCHANGED <<disk, work, session, pc, name, locals, bounds>>

\* The locks of a process go with it, its files stay.
Crash(p) ==
  /\ crashes_left > 0 /\ crashes_left' = crashes_left - 1
  /\ \E c \in CallsOf(p) : pc[c] # "idle"
  /\ set_lock' = IF set_lock \in CallsOf(p) THEN NoCall ELSE set_lock
  /\ held' = [n \in Names |-> IF held[n] \in CallsOf(p) THEN NoCall ELSE held[n]]
  /\ LET left == {name[c] : c \in CallsOf(p)} \ {None}
     IN  /\ abandoned' = abandoned \cup left
         /\ debris' = [c \in Calls |-> IF ProcessOf(c) = p THEN {} ELSE debris[c] \ left]
  /\ LET Lost(of, none) == [c \in Calls |-> IF ProcessOf(c) = p THEN none ELSE of[c]]
     IN  /\ pc' = Lost(pc, "idle") /\ name' = Lost(name, None)
         /\ todo' = Lost(todo, {}) /\ strays' = Lost(strays, {}) /\ attempts' = Lost(attempts, 0)
         /\ installed' = Lost(installed, None) /\ loaded' = Lost(loaded, None)
  /\ work' = [work EXCEPT ![p] = NoCall]
  /\ session' = [session EXCEPT ![p] = None]
  /\ view' = [view EXCEPT ![p] = None]
  /\ planning' = [planning EXCEPT ![p] = None]
  /\ UNCHANGED <<generation, locks, segments, old, unremoved, stays_left, calls_left, names_left>>

Next ==
  \/ \E c \in Calls :
       \/ \E compressed \in BOOLEAN : take(c, compressed)
       \/ List(c) \/ ListFails(c) \/ ListSegments(c) \/ OpenLock(c) \/ TryLock(c)
       \/ RemoveSegment(c) \/ RemoveLock(c) \/ RemoveStray(c) \/ Cleaned(c)
       \/ CreateLock(c) \/ CreateFails(c) \/ LockIt(c) \/ CreateSegment(c)
       \/ Written(c) \/ Fail(c) \/ LockSet(c) \/ SetBusy(c)
       \/ install_package(c) \/ AlreadyApplied(c) \/ Refused(c) \/ DropSegment(c) \/ DropLock(c)
       \/ reload_open_vectors(c) \/ Load(c) \/ LoadFails(c) \/ Swap(c) \/ Return(c)
       \/ open_semantic_artifact(c) \/ Opened(c) \/ Store(c)
  \/ \E n \in Names : GrowOld(n)
  \/ \E p \in Processes :
       disable_semantic(p) \/ plan_semantic_scan(p) \/ semantic_set_view(p) \/ Crash(p)

Spec == Init /\ [][Next]_vars

----------------------------------------------------------------------------
(* Properties.                                                              *)

\* The state has its types, and the set's lock and an expansion's have one
\* holder, which is at the work they are for (VectorSetWork, Expansion).
TypeOK ==
  /\ generation \in 1 .. MaxGeneration
  /\ set_lock # NoCall => pc[set_lock] \in {"installing", "opening"}
  /\ locks \subseteq Names /\ segments \subseteq Names
  /\ \A n \in Names : held[n] # NoCall => name[held[n]] = n
  /\ \A p \in Processes :
       /\ {session[p], view[p], planning[p]} \subseteq 0 .. generation
       /\ \A c \in CallsOf(p) : installed[c] # None => work[p] = c

\* No cleanup of another install, in any process, takes the files of one that
\* runs: not in the instant before its lock file is locked, nor after its
\* segment is written (expand_segment, remove_abandoned_expansions).
ExpansionKept ==
  \A c \in Calls :
    pc[c] \in {"writing", "waiting", "installing"} /\ name[c] # None =>
      name[c] \in locks \cap segments /\ Holder(c) = c

\* What an install expanded is gone when it returns, installed or not: only a
\* dead process and a removal that failed leave files (install_semantic_vectors:
\* "both are gone").
NothingLeft ==
  \A n \in locks \cup segments :
    n \in abandoned \cup unremoved \/ \E c \in Calls : name[c] = n

\* A cleanup that is over has removed all the files that lay there when it began
\* and nobody was at, old segments without lock files among them, but for those
\* another cleanup is at, failed to remove or died at: what a process dies of is
\* not left for good (remove_abandoned_expansions).
DebrisCleared ==
  \A c \in Calls : pc[c] \notin {"listing_segments", "cleaning", "trying", "removing", "unmarking"} =>
    \A n \in debris[c] \cap (locks \cup segments) : \E d \in Calls : name[d] = n

\* Only a removal that failed leaves a segment without its lock file: a process
\* that dies between any two steps of an expansion or of a cleanup does not
\* (Expansion, remove_abandoned_expansions).
SegmentMarked == segments \ locks \subseteq unremoved

\* A search that planned by the generation an install has since moved the session
\* off does not bring that generation's view back, which would keep its segments
\* from being removed (forget_set_view, SetView::open).
ViewNotBroughtBack ==
  [][\A p \in Processes : view'[p] \in {None, view[p]} \/ view'[p] >= session'[p]]_vars

\* An open session is never moved back to an older generation, although it is
\* loaded and stored in two steps while other processes install.
SessionNeverGoesBack ==
  [][\A p \in Processes :
       session[p] # None /\ session'[p] # None => session'[p] >= session[p]]_vars
=============================================================================
