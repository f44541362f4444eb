------------------------ MODULE LexicalCancellation ------------------------
(* Lexical searches cancelled by the request id of their caller: the       *)
(* registry of lexical_cancellation.rs, and the calls that run under it.   *)
(*                                                                         *)
(* The flag of a request is shared (an Arc) by its registry entry and its  *)
(* calls, so flags have identities: an entry that was forgotten and made   *)
(* again holds another flag.  A call runs on its own thread and looks at   *)
(* its flag at the points where the code does; the registry is behind one  *)
(* mutex, so begin, cancel and end are each one step.  All the calls ask   *)
(* for the same page of the same snapshot, so that what one of them stores *)
(* in the page cache is what the next one is served.                       *)
EXTENDS Naturals, FiniteSets, Sequences

CONSTANTS
  Ids,         \* the request ids
  NoId,        \* the calls that cannot be cancelled carry none
  Calls,       \* the threads that search
  Flags,       \* the identities of AtomicBool flags
  NoFlag,
  REMEMBERED,  \* cancelled ids with no call running that are kept
  Segments,    \* per segment, the blocks of CHECK_EVERY documents in it
  Events       \* the events a stream has for its caller

ASSUME RegistryAssumption ==
  /\ NoId \notin Ids /\ NoFlag \notin Flags
  /\ IsFiniteSet(Calls)
  /\ REMEMBERED \in Nat \ {0}

ASSUME SearchAssumption ==
  /\ Segments \in Seq(Nat) /\ Segments # <<>>
  /\ Events \in Nat \ {0}

VARIABLES
  entries,     \* Registry::entries
  remembered,  \* Registry::remembered
  raised,      \* the flags that hold true
  calls,       \* the state of every call
  cache,       \* what the page cache holds for the page
  told,        \* the calls whose id was cancelled while they ran (history)
  late         \* per call, the events it sent after that (history)

registry == <<entries, remembered, raised>>
vars == <<entries, remembered, raised, calls, cache, told, late>>

Entry == [flag : Flags \cup {NoFlag}, running : Nat]
Absent == [flag |-> NoFlag, running |-> 0]

Kinds == {"page", "stream"}
Phases == {"idle", "begun", "preparing", "ranking", "segment", "scanning",
           "storing", "ranked", "hydrating", "checking", "adding",
           "finishing", "answered", "leaving"}
Call == [phase : Phases, id : Ids \cup {NoId}, flag : Flags \cup {NoFlag},
         kind : Kinds, segment : 1 .. Len(Segments), left : Nat, whole : BOOLEAN, sent : Nat]
Idle == [phase |-> "idle", id |-> NoId, flag |-> NoFlag, kind |-> "page",
         segment |-> 1, left |-> 0, whole |-> TRUE, sent |-> 0]

Running(c) == calls[c].phase # "idle"
Raised(c) == calls[c].flag \in raised
FlagsInUse == {entries[i].flag : i \in Ids} \cup {calls[c].flag : c \in Calls}

Init ==
  /\ entries = [i \in Ids |-> Absent]
  /\ remembered = <<>>
  /\ raised = {}
  /\ calls = [c \in Calls |-> Idle]
  /\ cache = "none"
  /\ told = {}
  /\ late = [c \in Calls |-> 0]

----------------------------------------------------------------------------
(* The registry.                                                           *)

\* The entry of an id, made with a flag of its own when there is none.
entry(i, flag) == IF entries[i] # Absent
                  THEN entries[i]
                  ELSE [flag |-> flag, running |-> 0]

\* The flag a new entry gets: one that nothing points to, lowered.
NewFlag == CHOOSE flag \in Flags \ FlagsInUse : TRUE
CanAllocate == Flags \ FlagsInUse # {}

\* Mutant of Evicted: an evicted id goes although a call of it runs.
EvictedRunning(es, old) == [es EXCEPT ![old] = Absent]

Evicted(es, old) ==
  IF es[old].running = 0 THEN [es EXCEPT ![old] = Absent] ELSE es

\* remembered never holds more than REMEMBERED, so the loop pops once.
remember(es, i) ==
  LET queue == Append(remembered, i)
  IN  IF Len(queue) > REMEMBERED
      THEN /\ remembered' = Tail(queue)
           /\ entries' = Evicted(es, Head(queue))
      ELSE /\ remembered' = queue
           /\ entries' = es

begin(c, i, kind) ==
  /\ ~Running(c) /\ CanAllocate
  /\ LET e == entry(i, NewFlag)
     IN  /\ entries' = [entries EXCEPT ![i] = [e EXCEPT !.running = @ + 1]]
         /\ raised' = raised \cap FlagsInUse
         /\ calls' = [calls EXCEPT ![c] =
              [Idle EXCEPT !.phase = "begun", !.id = i, !.flag = e.flag, !.kind = kind]]
  /\ UNCHANGED <<remembered, cache, told, late>>

begin_untagged(c, kind) ==
  /\ ~Running(c)
  /\ calls' = [calls EXCEPT ![c] = [Idle EXCEPT !.phase = "begun", !.kind = kind]]
  /\ UNCHANGED <<registry, cache, told, late>>

cancel(i) ==
  /\ CanAllocate
  /\ LET e == entry(i, NewFlag)
         made == [entries EXCEPT ![i] = e]
         first == e.flag \notin raised \cap FlagsInUse
     IN  /\ raised' = (raised \cap FlagsInUse) \cup {e.flag}
         /\ IF first /\ e.running = 0
            THEN remember(made, i)
            ELSE entries' = made /\ UNCHANGED remembered
  /\ told' = told \cup {c \in Calls : Running(c) /\ calls[c].id = i}
  /\ UNCHANGED <<calls, cache, late>>

\* Mutant of end: a cancelled entry is kept without being remembered.
end_unremembered(i) ==
  LET left == [entries EXCEPT ![i].running = @ - 1]
  IN  /\ entries' = IF left[i].running = 0 /\ left[i].flag \notin raised
                    THEN [left EXCEPT ![i] = Absent]
                    ELSE left
      /\ UNCHANGED remembered

end(i) ==
  LET left == [entries EXCEPT ![i].running = @ - 1]
  IN  IF entries[i] = Absent \/ left[i].running > 0
      THEN /\ entries' = IF entries[i] = Absent THEN entries ELSE left
           /\ UNCHANGED remembered
      ELSE IF left[i].flag \in raised
      THEN remember(left, i)
      ELSE /\ entries' = [left EXCEPT ![i] = Absent]
           /\ UNCHANGED remembered

----------------------------------------------------------------------------
(* A call, from LexicalRequest::scope to its drop.                         *)

Moves(c, from, call) ==
  /\ calls[c].phase = from
  /\ calls' = [calls EXCEPT ![c] = call]

To(c, phase) == [calls[c] EXCEPT !.phase = phase]

\* A look at the flag between two phases.
Look(c, from, phase) ==
  Moves(c, from, To(c, IF Raised(c) THEN "leaving" ELSE phase))

scope(c) ==
  /\ Look(c, "begun", "preparing")
  /\ UNCHANGED <<registry, cache, told, late>>

\* Where the code may look, or may not: expanding terms, filling in results.
GiveUp(c) ==
  /\ Raised(c)
  /\ \E from \in {"preparing", "hydrating", "checking"} :
       Moves(c, from, To(c, "leaving"))
  /\ UNCHANGED <<registry, cache, told, late>>

\* The query is built; run_search looks once more, a stream does not.
Prepared(c) ==
  /\ IF calls[c].kind = "page"
     THEN Look(c, "preparing", "ranking")
     ELSE Moves(c, "preparing", To(c, "ranking"))
  /\ UNCHANGED <<registry, cache, told, late>>

\* ranked_page finds the page in the cache ...
Cached(c) ==
  /\ cache # "none"
  /\ Moves(c, "ranking", [To(c, "ranked") EXCEPT !.whole = (cache = "whole")])
  /\ UNCHANGED <<registry, cache, told, late>>

\* ... or searches the index, one segment after another.
weight(c) ==
  /\ cache = "none"
  /\ Look(c, "ranking", "segment")
  /\ UNCHANGED <<registry, cache, told, late>>

scorer(c) ==
  /\ Moves(c, "segment",
       IF Raised(c) THEN To(c, "leaving")
       ELSE [To(c, "scanning") EXCEPT !.left = Segments[calls[c].segment]])
  /\ UNCHANGED <<registry, cache, told, late>>

\* Mutant of Block: the scorer that stopped repeats its document.
BlockRepeated(c) ==
  /\ calls[c].left > 0
  /\ Moves(c, "scanning",
       IF Raised(c) THEN calls[c] ELSE [calls[c] EXCEPT !.left = @ - 1])
  /\ UNCHANGED <<registry, cache, told, late>>

\* The scorer looks before each block; once cancelled it says it is done.
Block(c) ==
  /\ calls[c].left > 0
  /\ Moves(c, "scanning",
       IF Raised(c) THEN [calls[c] EXCEPT !.left = 0, !.whole = FALSE]
       ELSE [calls[c] EXCEPT !.left = @ - 1])
  /\ UNCHANGED <<registry, cache, told, late>>

NextSegment(c) ==
  IF calls[c].segment = Len(Segments)
  THEN To(c, "storing")
  ELSE [To(c, "segment") EXCEPT !.segment = @ + 1]

\* Mutant of SegmentDone: a segment that was cut short is taken for done.
SegmentTrusted(c) ==
  /\ calls[c].left = 0
  /\ Moves(c, "scanning", NextSegment(c))
  /\ UNCHANGED <<registry, cache, told, late>>

\* for_each ends with a look, so a cut segment fails the search.
SegmentDone(c) ==
  /\ calls[c].left = 0
  /\ Moves(c, "scanning", IF Raised(c) THEN To(c, "leaving") ELSE NextSegment(c))
  /\ UNCHANGED <<registry, cache, told, late>>

\* The page is stored, unless the cache was cleared since the search began.
Store(c) ==
  /\ Moves(c, "storing", To(c, "ranked"))
  /\ cache' \in {cache, IF calls[c].whole THEN "whole" ELSE "part"}
  /\ UNCHANGED <<registry, told, late>>

\* An empty page needs no filling in, and a stream of one sends nothing.
Ranked(c) ==
  /\ \E phase \in {"finishing", IF calls[c].kind = "page" THEN "hydrating" ELSE "adding"} :
       Look(c, "ranked", phase)
  /\ UNCHANGED <<registry, cache, told, late>>

\* A page is filled in whole; a stream chunk by chunk, each sent by itself.
Hydrated(c) ==
  /\ Moves(c, "hydrating", To(c, "finishing"))
  /\ UNCHANGED <<registry, cache, told, late>>

\* Mutant of ChunkBuilt: the next chunk is sent without a look.
ChunkUnchecked(c) ==
  /\ Moves(c, "checking", To(c, "adding"))
  /\ UNCHANGED <<registry, cache, told, late>>

ChunkBuilt(c) ==
  /\ Look(c, "checking", "adding")
  /\ UNCHANGED <<registry, cache, told, late>>

\* sink.add; an empty page or a caller that closed the stream ends it.
Add(c) ==
  /\ \/ /\ calls[c].sent + 1 < Events
        /\ Moves(c, "adding", [To(c, "checking") EXCEPT !.sent = @ + 1])
     \/ Moves(c, "adding", [To(c, "finishing") EXCEPT !.sent = @ + 1])
  /\ late' = [late EXCEPT ![c] = IF c \in told THEN @ + 1 ELSE @]
  /\ UNCHANGED <<registry, cache, told>>

finish(c) ==
  /\ Look(c, "finishing", "answered")
  /\ UNCHANGED <<registry, cache, told, late>>

\* The request is dropped: the call is no longer one of its id.
Leave(c) ==
  /\ \E from \in {"answered", "leaving"} : Moves(c, from, Idle)
  /\ IF calls[c].id = NoId THEN UNCHANGED <<entries, remembered>> ELSE end(calls[c].id)
  /\ told' = told \ {c}
  /\ late' = [late EXCEPT ![c] = 0]
  /\ UNCHANGED <<raised, cache>>

\* A commit clears the cache, and other searches evict the page.
Uncache ==
  /\ cache # "none"
  /\ cache' = "none"
  /\ UNCHANGED <<registry, calls, told, late>>

Step(c) ==
  \/ scope(c) \/ GiveUp(c) \/ Prepared(c) \/ Cached(c) \/ weight(c)
  \/ scorer(c) \/ Block(c) \/ SegmentDone(c) \/ Store(c) \/ Ranked(c)
  \/ Hydrated(c) \/ ChunkBuilt(c) \/ Add(c) \/ finish(c) \/ Leave(c)

Next ==
  \/ \E i \in Ids : cancel(i)
  \/ \E c \in Calls, kind \in Kinds :
       \/ \E i \in Ids : begin(c, i, kind)
       \/ begin_untagged(c, kind)
  \/ \E c \in Calls : Step(c)
  \/ Uncache

Spec == Init /\ [][Next]_vars

Fairness == \A c \in Calls : WF_vars(Step(c))

FairSpec == Spec /\ Fairness

----------------------------------------------------------------------------
(* Properties.                                                             *)

\* The state has its types, and no more ids are remembered than there is
\* room for (Registry, LexicalRequest).
TypeOK ==
  /\ entries \in [Ids -> Entry]
  /\ remembered \in Seq(Ids) /\ Len(remembered) <= REMEMBERED
  /\ raised \subseteq Flags
  /\ calls \in [Calls -> Call]
  /\ cache \in {"none", "whole", "part"}
  /\ told \subseteq Calls
  /\ late \in [Calls -> Nat]

\* A cancel reaches every call of its id that runs, although the id's entry
\* may have been evicted and made again around it (Registry::remember,
\* LexicalCancellations::cancel).
CancelReaches == \A c \in told : Raised(c)

\* An id with no call running takes memory only while it is cancelled and
\* remembered, so the registry is bounded (LexicalCancellations::end).
NothingLeaks ==
  \A i \in Ids :
    entries[i] # Absent /\ entries[i].running = 0 =>
      /\ entries[i].flag \in raised
      /\ \E k \in 1 .. Len(remembered) : remembered[k] = i

\* What a cancelled scan found before it stopped is neither handed out nor
\* kept for another search (CancellableWeight, LexicalRequest::finish).
OnlyWholePages ==
  /\ cache # "part"
  /\ \A c \in Calls : calls[c].phase \in {"adding", "answered"} => calls[c].whole

\* A stream sends at most the one event it had already looked for when the
\* cancel returned (run_search_stream_with_counts).
OneEventAfterCancel == \A c \in Calls : late[c] <= 1

\* A cancelled call ends (DocSet::advance, the looks between the phases).
CancelledEnds == \A c \in Calls : []<>(c \in told => ~Running(c))
=============================================================================
