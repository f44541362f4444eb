----------------------------- MODULE SearchCaches -----------------------------
(* What a search computes from the index's dictionary and keeps: display       *)
(* patterns and highlight term sets (highlight_cache.rs), and the term sets    *)
(* queries are built from (SearchEngine::materialize_term_set). Each cache has *)
(* a gate that lets one request at a time compute a key; computing a pattern   *)
(* or a highlight term set asks for a term set. The words of a search are      *)
(* materialized on the thread pool, and so are the scans of every term set.    *)
(*                                                                             *)
(* The model is one request of each kind over one word, so a key is the        *)
(* generation of the index it is for.                                          *)
EXTENDS Naturals, SequencesExt

CONSTANTS
  Callers,         \* threads of the application, a search at a time each
  Workers,         \* threads of the pool
  Requests,        \* the kinds of request of each caller
  MaxGeneration,   \* bound: generations of the index's reader
  MaxRequests,     \* bound: requests of all the callers
  MaxReleases,     \* bound: calls of release_memory
  MaxFaults        \* bound: requests cancelled and scans that fail

ASSUME SearchCachesAssumption ==
  /\ Callers \cap Workers = {}
  /\ Requests \in [Callers -> SUBSET {"patterns", "term_sets", "terms", "words"}]
  /\ MaxGeneration \in Nat \ {0} /\ {MaxRequests, MaxReleases, MaxFaults} \subseteq Nat

VARIABLES
  generation,  \* of the searcher the reader gives
  epoch,       \* HighlightCache::epoch and SearchEngine::memory_epoch
  kept,        \* the entries of each cache
  gates,       \* WorkGate: the work of each key, by cache
  busy,        \* the work somebody is at (Work::busy)
  stack,       \* what each thread is in, the innermost last
  pool,        \* the tasks no thread of the pool has taken
  releasing,   \* how far release_memory has come
  cancelled,   \* the callers whose request is cancelled
  answers,     \* what each caller was last answered (history)
  requests_left,
  releases_left,
  faults_left

caches == <<generation, epoch, kept, releasing>>
bounds == <<requests_left, releases_left, faults_left>>
vars == <<caches, gates, busy, stack, pool, cancelled, answers, bounds>>

Threads == Callers \cup Workers
Caches == {"patterns", "term_sets", "terms"}
EpochOf(cache) == IF cache = "terms" THEN "memory" ELSE "highlight"
None == 0
NoOwner == <<>>

\* A call begins: of a cache, of a search over its words, or of a scan. Its owner
\* is the call that waits for it. A highlight's caller reads the searcher first
\* and then the epoch, a term set the epoch and then its own searcher.
Call(cache, owner) ==
  [cache |-> cache, owner |-> owner, work |-> None, waits |-> FALSE,
   key |-> IF cache = "terms" THEN None ELSE generation,
   epoch |-> IF cache = "terms" THEN epoch["memory"] ELSE 0,
   failed |-> FALSE, snapshot |-> None,
   pc |-> IF cache \in Caches THEN "reading" ELSE "running"]

NoAnswer == [snapshot |-> None, asked |-> None, cut |-> FALSE]

Init ==
  /\ generation = 1 /\ releasing = 0
  /\ epoch = [e \in {"highlight", "memory"} |-> 0]
  /\ kept = [x \in Caches |-> {}] /\ gates = [x \in Caches |-> {}] /\ busy = {}
  /\ stack = [t \in Threads |-> <<>>] /\ pool = {}
  /\ cancelled = {} /\ answers = [c \in Callers |-> NoAnswer]
  /\ requests_left = MaxRequests /\ releases_left = MaxReleases /\ faults_left = MaxFaults

Top(t) == Last(stack[t])
In(t, pc) == stack[t] # <<>> /\ Top(t).pc = pc
WithTop(t, call) == [stack EXCEPT ![t] = Front(@) \o <<call>>]
Calls == UNION {{t} \X DOMAIN stack[t] : t \in Threads}
Is(p) == stack[p[1]][p[2]]

\* The flag of a request is of the caller's own thread: on the pool there is none.
Cancelled(t) == t \in cancelled
Fault == faults_left > 0 /\ faults_left' = faults_left - 1

\* Mutant of Freed: an error leaves the gate taken.
FreedAnswered(call, failed) == IF failed THEN busy ELSE busy \ {call.work}

\* Dropping Working frees the gate, whatever the computation came to.
Freed(call, failed) == busy \ {call.work}

\* The innermost call of t ends: whoever waits for it goes on, and a request is
\* answered unless it failed.
Ends(t, failed, snapshot, cut) ==
  LET call == Top(t)
      o == call.owner
      popped == [stack EXCEPT ![t] = Front(@)]
  IN  /\ busy' = Freed(call, failed)
      /\ IF o = NoOwner
         THEN /\ stack' = popped /\ cancelled' = cancelled \ {t}
              /\ answers' = IF failed THEN answers ELSE
                   [answers EXCEPT ![t] = [snapshot |-> snapshot, asked |-> call.key, cut |-> cut]]
         ELSE /\ stack' = [popped EXCEPT ![o[1]][o[2]] =
                   [@ EXCEPT !.waits = FALSE, !.failed = failed, !.snapshot = snapshot]]
              /\ UNCHANGED <<cancelled, answers>>

----------------------------------------------------------------------------
(* A request.                                                               *)

Begin(c, cache) ==
  /\ stack[c] = <<>> /\ requests_left > 0 /\ cache \in Requests[c]
  /\ stack' = [stack EXCEPT ![c] = <<Call(cache, NoOwner)>>]
  /\ answers' = [answers EXCEPT ![c] = NoAnswer]
  /\ requests_left' = requests_left - 1
  /\ UNCHANGED <<caches, gates, busy, pool, cancelled, releases_left, faults_left>>

Read(t) ==
  /\ In(t, "reading")
  /\ stack' = WithTop(t,
       IF Top(t).cache = "terms" THEN [Top(t) EXCEPT !.pc = "looking", !.key = generation]
       ELSE [Top(t) EXCEPT !.pc = "looking", !.epoch = epoch["highlight"]])
  /\ UNCHANGED <<caches, gates, busy, pool, cancelled, answers, bounds>>

\* Mutant of Found: by the request alone.
FoundAny(call) == kept[call.cache]

Found(call) == {e \in kept[call.cache] : e.key = call.key}

\* A pattern is kept only as long as somebody uses its matcher.
Missing(call) == Found(call) = {} \/ call.cache = "patterns"
Answer(t) == \E e \in Found(Top(t)) : Ends(t, FALSE, e.snapshot, e.cut)

\* The cache is looked at before the gate and inside it.
Look(t) ==
  /\ In(t, "looking")
  /\ \/ Answer(t)
     \/ /\ Missing(Top(t)) /\ stack' = WithTop(t, [Top(t) EXCEPT !.pc = "queueing"])
        /\ UNCHANGED <<busy, cancelled, answers>>
  /\ UNCHANGED <<caches, gates, pool, bounds>>

Held == {Is(p).work : p \in Calls} \ {None}

\* The first work no gate knows, a new one of each entry.
NewWork ==
  LET known == {g.work : g \in UNION {gates[x] : x \in Caches}}
  IN  Min((1 .. Cardinality(known) + 1) \ known)

\* Mutant of Idle: the work somebody is at is given up.
AlwaysIdle(cache) == gates[cache]

\* The work only the gate knows.
Idle(cache) == {g \in gates[cache] : g.work \notin Held}

Enter(t) ==
  /\ In(t, "queueing")
  /\ LET call == Top(t)
         live == gates[call.cache] \ Idle(call.cache)
         same == {g \in live : g.key = call.key}
         mine == IF same = {} THEN [key |-> call.key, work |-> NewWork]
                 ELSE CHOOSE g \in same : TRUE
     IN  /\ gates' = [gates EXCEPT ![call.cache] = live \cup {mine}]
         /\ stack' = WithTop(t, [call EXCEPT !.pc = "waiting", !.work = mine.work])
  /\ UNCHANGED <<caches, busy, pool, cancelled, answers, bounds>>

\* It waits until nobody is at the work, looking at its flag as it does.
Take(t) ==
  /\ In(t, "waiting") /\ ~Cancelled(t) /\ Top(t).work \notin busy
  /\ busy' = busy \cup {Top(t).work}
  /\ stack' = WithTop(t, [Top(t) EXCEPT !.pc = "inside"])
  /\ UNCHANGED <<caches, gates, pool, cancelled, answers, bounds>>

\* Giving up a wait leaves the work to whoever is at it.
Refused(t) ==
  /\ In(t, "waiting") /\ Cancelled(t)
  /\ LET call == Top(t)
     IN  IF call.owner = NoOwner
         THEN stack' = [stack EXCEPT ![t] = <<>>] /\ cancelled' = cancelled \ {t}
         ELSE /\ stack' = [stack EXCEPT ![t] = <<[@[1] EXCEPT !.waits = FALSE, !.failed = TRUE]>>]
              /\ UNCHANGED cancelled
  /\ UNCHANGED <<caches, gates, busy, pool, answers, bounds>>

\* A term set is computed by scans on the pool, a highlight from a term set.
Compute(t) ==
  /\ In(t, "inside")
  /\ LET call == Top(t)
         me == <<t, Len(stack[t])>>
         waiting == WithTop(t, [call EXCEPT !.pc = "joining", !.waits = TRUE])
     IN  \/ Answer(t) /\ UNCHANGED pool
         \/ Missing(call) /\ call.cache = "terms" /\ Cancelled(t) /\ Ends(t, TRUE, None, FALSE) /\ UNCHANGED pool
         \/ /\ Missing(call) /\ call.cache = "terms" /\ ~Cancelled(t)
            /\ stack' = waiting /\ pool' = pool \cup {[cache |-> "scan", owner |-> me]}
            /\ UNCHANGED <<busy, cancelled, answers>>
         \/ /\ Missing(call) /\ call.cache # "terms"
            /\ stack' = [waiting EXCEPT ![t] = Append(@, Call("terms", me))]
            /\ UNCHANGED <<pool, busy, cancelled, answers>>
  /\ UNCHANGED <<caches, gates, bounds>>

\* A search of several words materializes them on the pool.
Spread(c) ==
  /\ In(c, "running") /\ Top(c).cache = "words"
  /\ stack' = WithTop(c, [Top(c) EXCEPT !.pc = "joining", !.waits = TRUE, !.key = generation])
  /\ pool' = pool \cup {[cache |-> "terms", owner |-> <<c, 1>>]}
  /\ UNCHANGED <<caches, gates, busy, cancelled, answers, bounds>>

\* Which thread that has nothing to do takes a task makes no difference.
FirstIdle(w) == w = CHOOSE v \in Workers : stack[v] = <<>>

\* A thread of the pool that waits for a task of its own runs it, or, when
\* another thread took that one, any other.
Steal(w) ==
  /\ \E task \in pool :
       /\ \/ stack[w] = <<>> /\ FirstIdle(w)
          \/ /\ In(w, "joining") /\ Top(w).waits
             /\ \/ task.owner = <<w, Len(stack[w])>>
                \/ \A own \in pool : own.owner # <<w, Len(stack[w])>>
       /\ pool' = pool \ {task}
       /\ stack' = [stack EXCEPT ![w] = Append(@, Call(task.cache, task.owner))]
  /\ UNCHANGED <<caches, gates, busy, cancelled, answers, bounds>>

\* A scan fails when the index cannot be read, or by the flag of its caller.
Scan(w) ==
  /\ In(w, "running") /\ Top(w).cache = "scan"
  /\ LET o == Top(w).owner
     IN  \/ Ends(w, FALSE, Is(o).key, FALSE) /\ UNCHANGED faults_left
         \/ Ends(w, TRUE, None, FALSE) /\ IF Cancelled(o[1]) THEN UNCHANGED faults_left ELSE Fault
  /\ UNCHANGED <<caches, gates, pool, requests_left, releases_left>>

\* Mutant of Fresh: the epoch is not looked at.
FreshAlways(call) == TRUE

\* Nothing released the memory since the computation began.
Fresh(call) == epoch[EpochOf(call.cache)] = call.epoch

\* It is kept, unless it is too large, and others make room for it.
Keep(call, snapshot, cut) ==
  \/ /\ Fresh(call)
     /\ \E left \in SUBSET {e \in kept[call.cache] : e.key # call.key} :
          kept' = [kept EXCEPT ![call.cache] = left \cup
                     {[key |-> call.key, epoch |-> call.epoch, snapshot |-> snapshot, cut |-> cut]}]
  \/ UNCHANGED kept

\* Mutant of Checked: what was computed is taken as it is.
CheckedNever(t) == TRUE

\* check_current: what was computed for a cancelled request is not its answer.
Checked(t) == ~Cancelled(t)

Fails(t) == Ends(t, TRUE, None, FALSE) /\ UNCHANGED kept
Computed(t, snapshot, cut) ==
  \/ ~Checked(t) /\ Fails(t)
  \/ Checked(t) /\ Keep(Top(t), snapshot, cut) /\ Ends(t, FALSE, snapshot, cut)

\* What it waited for is there. A pattern whose terms failed is of the query
\* alone; any other call fails with what it called.
Joined(t) ==
  /\ In(t, "joining") /\ ~Top(t).waits
  /\ LET call == Top(t)
     IN  \/ call.cache \in Caches /\ ~call.failed /\ Computed(t, call.snapshot, FALSE)
         \/ call.cache = "patterns" /\ call.failed /\ Computed(t, call.key, Cancelled(t))
         \/ call.cache \in {"term_sets", "terms"} /\ call.failed /\ Fails(t)
         \/ /\ call.cache = "words" /\ Ends(t, call.failed, call.snapshot, FALSE)
            /\ UNCHANGED kept
  /\ UNCHANGED <<generation, epoch, releasing, gates, pool, bounds>>

----------------------------------------------------------------------------
(* What happens meanwhile.                                                  *)

Cancel(c) ==
  /\ stack[c] # <<>> /\ c \notin cancelled /\ Fault
  /\ cancelled' = cancelled \cup {c}
  /\ UNCHANGED <<caches, gates, busy, stack, pool, answers, requests_left, releases_left>>

\* The reader follows a commit in the background.
Reload ==
  /\ generation < MaxGeneration /\ generation' = generation + 1
  /\ UNCHANGED <<epoch, kept, releasing, gates, busy, stack, pool, cancelled, answers, bounds>>

\* A commit of this engine is alone with it.
Commit ==
  /\ \A c \in Callers : stack[c] = <<>>
  /\ releasing = 0 /\ generation < MaxGeneration /\ generation' = generation + 1
  /\ epoch' = [epoch EXCEPT !["highlight"] = @ + 1]
  /\ kept' = [kept EXCEPT !["term_sets"] = {}, !["patterns"] = {}]
  /\ gates' = [x \in Caches |-> IF x = "terms" THEN gates[x] ELSE gates[x] \ Idle(x)]
  /\ UNCHANGED <<releasing, busy, stack, pool, cancelled, answers, bounds>>

\* The steps of release_memory, and the caches each is about.
Releases == <<{"memory"}, {"highlight"}, {"term_sets"}, {"patterns"},
              {"term_sets", "patterns"}, {"terms"}, {"terms"}>>
Bumps == {1, 2}
Clears == {3, 4, 6}

Release ==
  LET step == releasing + 1
      About(x) == x \in Releases[step]
  IN  /\ IF releasing = 0 THEN releases_left > 0 /\ releases_left' = releases_left - 1
         ELSE UNCHANGED releases_left
      /\ releasing' = step % Len(Releases)
      /\ epoch' = [e \in DOMAIN epoch |-> IF About(e) THEN epoch[e] + 1 ELSE epoch[e]]
      /\ kept' = [x \in Caches |-> IF step \in Clears /\ About(x) THEN {} ELSE kept[x]]
      /\ gates' = [x \in Caches |-> IF step \notin Clears /\ About(x) THEN gates[x] \ Idle(x) ELSE gates[x]]
      /\ UNCHANGED <<generation, busy, stack, pool, cancelled, answers, requests_left, faults_left>>

----------------------------------------------------------------------------
Step(t) ==
  \/ Read(t) \/ Look(t) \/ Enter(t) \/ Take(t) \/ Refused(t) \/ Compute(t) \/ Joined(t)
  \/ t \in Callers /\ Spread(t)
  \/ t \in Workers /\ (Steal(t) \/ Scan(t))

Next ==
  \/ \E t \in Threads : Step(t)
  \/ \E c \in Callers : Cancel(c) \/ \E cache \in Requests[c] : Begin(c, cache)
  \/ Reload \/ Commit \/ Release

Spec == Init /\ [][Next]_vars

\* Threads and the pool's threads are scheduled; a wait at a gate is woken.
FairSpec == Spec /\ \A t \in Threads : WF_vars(Step(t))

----------------------------------------------------------------------------
(* Properties.                                                              *)

\* The values the caches, the gates and the calls may have; work somebody is at
\* is held by a call (WorkGate, Working).
TypeOK ==
  /\ generation \in 1 .. MaxGeneration /\ releasing \in 0 .. Len(Releases) - 1
  /\ \A x \in Caches : /\ \A e \in kept[x] : e.key \in 1 .. generation
                       /\ \A g \in gates[x] : g.key \in 1 .. generation /\ g.work # None
  /\ busy \subseteq Held /\ cancelled \subseteq Callers
  /\ \A task \in pool : Is(task.owner).waits

Inside(call) == call.pc \in {"inside", "joining"} /\ call.cache \in Caches

\* "Concurrent requests share one computation per key" (highlight_cache.rs:6):
\* no two calls are inside the gate for the same key of a cache, although the
\* gate forgets keys at every entry and when memory is released (WorkGate::enter,
\* clear_idle).
SingleFlight ==
  \A p, q \in Calls :
    Inside(Is(p)) /\ Inside(Is(q)) /\ Is(p).cache = Is(q).cache /\ Is(p).key = Is(q).key => p = q

\* What was computed from before a release or a commit is not kept after it: an
\* entry of an older epoch is one the release under way has yet to clear
\* (HighlightCache::clear, release_memory, the epochs).
KeptIsCurrent ==
  \A x \in Caches : \A e \in kept[x] :
    \/ e.epoch = epoch[EpochOf(x)]
    \/ \E step \in Clears : x \in Releases[step] /\ releasing \in 1 .. step - 1

\* A pattern without its terms because its request was cancelled is neither
\* kept for others nor answered (check_current after compute in
\* HighlightCache::pattern; compute_index_highlight_pattern goes on without
\* the terms it could not get).
NothingCutKept ==
  /\ \A x \in Caches : \A e \in kept[x] : ~e.cut
  /\ \A c \in Callers : ~answers[c].cut

\* "a commit is never served an older snapshot" (highlight_cache.rs:5): what is
\* kept and what is answered are of the generation asked for or a newer one.
NeverOlder ==
  /\ \A x \in Caches : \A e \in kept[x] : e.snapshot >= e.key
  /\ \A c \in Callers : answers[c].snapshot >= answers[c].asked

\* Every request comes back, whether computations fail, are cancelled or are
\* joined by others (WorkGate::enter, Working::drop).
RequestsReturn == []<>(\A c \in Callers : stack[c] = <<>>)

\* "stops all of them" (lexical_cancellation.rs:6): a cancelled request ends.
CancelledStops == []<>(cancelled = {})
=============================================================================
