--------------------------- MODULE SemanticSession ---------------------------
(* The pages of a semantic search (semantic_session.rs, search_semantic).   *)
(* A session keeps a search's results in the order shown. A page that needs *)
(* more results than the session holds fuses a wider window, which ranks    *)
(* again whatever no page has shown. Sessions are kept by a key, and are    *)
(* forgotten when the vectors they were computed from change.               *)
(*                                                                         *)
(* The model is one query at one index content and one page size: another   *)
(* is another key, and pushes these sessions out (Evict).                   *)
EXTENDS Naturals, SequencesExt

Free == "free"      \* nobody holds the session's mutex
NoSession == 0

CONSTANTS
  Clients,                   \* views of the application, a call at a time each
  Lines,
  NoGroup,
  PageSize,
  Ranked(_, _, _),           \* the sidecar: results by vectors, window, failure
  Complete(_, _, _),         \* whether neither half had more than the window
  MAX_SEMANTIC_CANDIDATE_WINDOW,
  MaxCalls,                  \* bound: the searches of all the clients
  MaxChanges,                \* bound: calls that change the vectors
  MaxFaults                  \* bound: those, and searches that fail, are
                             \* cancelled or lose their session

ASSUME SessionAssumption ==
  /\ {PageSize, MAX_SEMANTIC_CANDIDATE_WINDOW} \subseteq Nat \ {0}
  /\ {MaxCalls, MaxChanges, MaxFaults} \subseteq Nat
  /\ Free \notin Clients

\* A result: its line, the lines grouped under it, its group, whether the line
\* has gone from the index, and the vectors that ranked it (history).
Item == [line : Lines, siblings : SUBSET Lines, group : Lines \cup {NoGroup},
         stale : BOOLEAN, version : 1 .. MaxChanges + 1]

ASSUME SidecarAssumption ==
  \A version \in 1 .. MaxChanges + 1, failed \in BOOLEAN :
    \A window \in 1 .. MAX_SEMANTIC_CANDIDATE_WINDOW :
      /\ Ranked(version, window, failed) \in Seq(Item)
      /\ \A item \in Range(Ranked(version, window, failed)) : item.version = version
      /\ Complete(version, window, failed) \in BOOLEAN

VARIABLES
  vectors,    \* the vectors searched, by their version
  generation, \* the generation an installed set says they are of
  epoch,      \* SemanticSessions::epoch
  change,     \* how far a call that changes the vectors has come
  settled,    \* the vectors the last such call left (history)
  kept,       \* SemanticSessions::sessions: pairs of a key and a session
  sessions,   \* every session made, kept or not
  calls,
  views,      \* what each client shows, and which sessions it came from
  calls_left,
  faults_left

environment == <<vectors, generation, epoch, change, settled>>
vars == <<environment, kept, sessions, calls, views, calls_left, faults_left>>

\* What a session holds of a result and of `entries`: their lines with those
\* under them, and their groups.
Holds(e) == {e.line} \cup e.siblings
Held(entries) == UNION {Holds(e) : e \in Range(entries)}
Groups(entries) == {e.group : e \in Range(entries)} \ {NoGroup}

Session == [entries |-> <<>>, dropped |-> {}, seen |-> {}, seen_groups |-> {},
            shown |-> 0, window |-> 0, exhausted |-> FALSE, fallback |-> FALSE,
            lock |-> Free]

Additions == [entries |-> <<>>, seen |-> {}, groups |-> {}, dropped |-> {},
              reopened |-> FALSE, held_seen |-> {}, held_groups |-> {}]

IdleCall == [pc |-> "idle", offset |-> 0, generation |-> 0, epoch |-> 0,
             session |-> NoSession, restarted |-> FALSE, additions |-> Additions,
             window |-> 0, exhausted |-> FALSE, fallback |-> FALSE, began |-> 0]

NoView == [entries |-> <<>>, page |-> {}, sessions |-> {}, began |-> 0]

Init ==
  /\ vectors = 1 /\ generation = 1 /\ epoch = 0 /\ settled = 1 /\ change = "none"
  /\ kept = {} /\ sessions = <<>>
  /\ calls = [c \in Clients |-> IdleCall]
  /\ views = [c \in Clients |-> NoView]
  /\ calls_left = MaxCalls /\ faults_left = MaxFaults

----------------------------------------------------------------------------
(* A session.                                                              *)

reopen(s) ==
  IF s.shown = Len(s.entries) THEN Additions
  ELSE LET shown == SubSeq(s.entries, 1, s.shown)
       IN  [Additions EXCEPT !.reopened = TRUE,
              !.held_seen = s.dropped \cup Held(shown), !.held_groups = Groups(shown)]

\* Mutant of leaves: a result goes only with its line.
leaves_line(a, e) == e.line \notin a.seen

leaves(a, e) ==
  /\ e.line \notin a.seen /\ e.siblings \cap a.seen = {}
  /\ e.group \notin a.groups

\* The results no page has shown and no expansion took again.
Unshown(s, a) ==
  LET unshown[n \in 0 .. Len(s.entries)] ==
        IF n <= s.shown THEN <<>>
        ELSE unshown[n - 1] \o (IF leaves(a, s.entries[n]) THEN <<s.entries[n]>> ELSE <<>>)
  IN  unshown[Len(s.entries)]

len_with(s, a) ==
  IF a.reopened THEN s.shown + Len(a.entries) + Len(Unshown(s, a))
  ELSE Len(s.entries) + Len(a.entries)

admits(s, a, item) ==
  /\ item.line \notin a.seen \cup (IF a.reopened THEN a.held_seen ELSE s.seen)
  /\ item.group \notin a.groups \cup (IF a.reopened THEN a.held_groups ELSE s.seen_groups)

\* Mutant of take: a stale line is a result like the others.
take_stale(a, item) ==
  [a EXCEPT !.seen = @ \cup Holds(item), !.groups = @ \cup ({item.group} \ {NoGroup}),
            !.entries = Append(@, item)]

\* A stale line is never shown, nor are the lines grouped under it.
take(a, item) ==
  IF item.stale
  THEN [a EXCEPT !.seen = @ \cup Holds(item), !.dropped = @ \cup Holds(item)]
  ELSE [a EXCEPT !.seen = @ \cup Holds(item), !.groups = @ \cup ({item.group} \ {NoGroup}),
                 !.entries = Append(@, item)]

\* What expansions can have found: `reopened`, they admit by what is held.
AnyAdditions ==
  [entries : Seq(Item), seen : SUBSET Lines, groups : SUBSET (Lines \cup {NoGroup}),
   dropped : SUBSET Lines, reopened : BOOLEAN, held_seen : SUBSET Lines,
   held_groups : SUBSET (Lines \cup {NoGroup})]

\* A result of a window, which the additions take if they and the session lack it.
Offered(s, item) ==
  [a \in AnyAdditions |-> IF admits(s, a, item) THEN take(a, item) ELSE a]

Taken(s, a, items) ==
  LET taken[n \in 0 .. Len(items)] ==
        IF n = 0 THEN a ELSE Offered(s, items[n])[taken[n - 1]]
  IN  taken[Len(items)]

\* Mutant of commit: the session goes on with what it had seen.
commit_seen(s, a) ==
  [s EXCEPT !.entries = SubSeq(s.entries, 1, IF a.reopened THEN s.shown ELSE Len(s.entries))
                          \o a.entries,
            !.seen = @ \cup a.seen, !.seen_groups = @ \cup a.groups,
            !.dropped = @ \cup a.dropped]

commit(s, a) ==
  LET old == IF a.reopened THEN SubSeq(s.entries, 1, s.shown) ELSE s.entries
      unshown == IF a.reopened THEN Unshown(s, a) ELSE <<>>
  IN  [s EXCEPT
        !.entries = old \o a.entries \o unshown,
        !.seen = (IF a.reopened THEN a.held_seen ELSE @) \cup a.seen \cup Held(unshown),
        !.seen_groups = (IF a.reopened THEN a.held_groups ELSE @)
                          \cup a.groups \cup Groups(unshown),
        !.dropped = @ \cup a.dropped]

page(s, offset) ==
  SubSeq(s.entries, offset + 1, Min({offset + PageSize, Len(s.entries)}))

\* Mutant of show: the results before the page count as shown, the page's not.
show_before(s, offset) == [s EXCEPT !.shown = Max({@, Min({offset, Len(s.entries)})})]

show(s, offset) ==
  IF offset < Len(s.entries)
  THEN [s EXCEPT !.shown = Max({@, Min({offset + PageSize, Len(s.entries)})})]
  ELSE s

----------------------------------------------------------------------------
(* A search.                                                               *)

At(c, pc) == calls[c].pc = pc
SessionOf(c) == sessions[calls[c].session]
Fault == faults_left > 0 /\ faults_left' = faults_left - 1
Move(c, call) == calls' = [calls EXCEPT ![c] = call]

\* A new search, the next page, or a page asked again; the vectors' generation
\* is read first.
search_semantic(c, offset) ==
  /\ At(c, "idle") /\ calls_left > 0
  /\ offset <= Len(views[c].entries) /\ offset % PageSize = 0
  /\ Move(c, [IdleCall EXCEPT !.pc = "keyed", !.offset = offset,
                              !.generation = generation, !.began = settled])
  /\ calls_left' = calls_left - 1
  /\ UNCHANGED <<environment, kept, sessions, views, faults_left>>

Key(c) == <<calls[c].generation, calls[c].epoch>>

\* The epoch completes the key, and the kept sessions are looked at by it.
get(c) ==
  /\ At(c, "keyed")
  /\ LET found == {k[2] : k \in {k \in kept : k[1] = <<calls[c].generation, epoch>>}}
         none == found = {}
     IN  Move(c, [calls[c] EXCEPT
            !.epoch = epoch,
            !.session = IF none THEN NoSession ELSE CHOOSE i \in found : TRUE,
            !.pc = IF ~none /\ calls[c].offset = 0 THEN "filtering" ELSE "locking",
            !.restarted = none /\ calls[c].offset > 0,
            !.offset = IF none THEN 0 ELSE @])
  /\ UNCHANGED <<environment, kept, sessions, views, calls_left, faults_left>>

\* A first page of a session whose semantic half failed is searched again.
filter(c) ==
  /\ At(c, "filtering") /\ SessionOf(c).lock = Free
  /\ Move(c, [calls[c] EXCEPT !.pc = "locking",
                !.session = IF SessionOf(c).fallback THEN NoSession ELSE @])
  /\ UNCHANGED <<environment, kept, sessions, views, calls_left, faults_left>>

wanted(c) == calls[c].offset + PageSize + 1

lock(c) ==
  /\ At(c, "locking")
  /\ LET new == calls[c].session = NoSession
         i == IF new THEN Len(sessions) + 1 ELSE calls[c].session
         s == IF new THEN Session ELSE SessionOf(c)
         more == Len(s.entries) < wanted(c) /\ ~s.exhausted
     IN  /\ s.lock = Free
         /\ sessions' = IF new THEN Append(sessions, [s EXCEPT !.lock = c])
                        ELSE [sessions EXCEPT ![i].lock = c]
         /\ Move(c, [calls[c] EXCEPT !.pc = "expanding", !.session = i,
                       !.additions = IF more THEN reopen(s) ELSE Additions,
                       !.window = s.window, !.exhausted = s.exhausted,
                       !.fallback = s.fallback])
  /\ UNCHANGED <<environment, kept, views, calls_left, faults_left>>

Lacks(c) ==
  len_with(SessionOf(c), calls[c].additions) < wanted(c) /\ ~calls[c].exhausted

\* Mutant of Wider: as wide as the page needs, however wide the last one was.
WiderByPage(offset, window) ==
  Min({2 * (offset + PageSize) + 1, MAX_SEMANTIC_CANDIDATE_WINDOW})

Wider(offset, window) ==
  Min({Max({2 * (offset + PageSize) + 1, 2 * window}), MAX_SEMANTIC_CANDIDATE_WINDOW})

Exhausted(window, failed) ==
  Complete(vectors, window, failed) \/ window >= MAX_SEMANTIC_CANDIDATE_WINDOW

\* One wider window, by the vectors as they are now; its semantic half may fail.
expand_semantic_session(c, failed) ==
  /\ At(c, "expanding") /\ Lacks(c)
  /\ LET call == calls[c]
         window == Wider(call.offset, call.window)
     IN  Move(c, [call EXCEPT
            !.window = window, !.exhausted = Exhausted(window, failed),
            !.fallback = failed,
            !.additions = Taken(SessionOf(c), @, Ranked(vectors, window, failed))])
  /\ IF failed THEN Fault ELSE UNCHANGED faults_left
  /\ UNCHANGED <<environment, kept, sessions, views, calls_left>>

\* Mutant of put: by the key as it is when the session is kept.
put_now(c) ==
  {k \in kept : k[1] # <<generation, epoch>>} \cup {<<<<generation, epoch>>, calls[c].session>>}

put(c) == {k \in kept : k[1] # Key(c)} \cup {<<Key(c), calls[c].session>>}

\* What a client shows after a page came: a first page replaces all of it.
Shows(v, call, entries) ==
  LET first == call.offset = 0
      old == IF first THEN <<>> ELSE v.entries
  IN  [entries |-> SubSeq(old, 1, call.offset) \o entries
                     \o SubSeq(old, call.offset + Len(entries) + 1, Len(old)),
       page |-> Range(entries),
       sessions |-> {call.session} \cup (IF first THEN {} ELSE v.sessions),
       began |-> call.began]

\* The additions are committed, the session is kept and the page shown, which
\* stays so when painting the page fails.
Serve(c) ==
  /\ At(c, "expanding") /\ ~Lacks(c)
  /\ LET call == calls[c]
         s == commit(SessionOf(c), call.additions)
     IN  /\ sessions' = [sessions EXCEPT ![call.session] =
              [show(s, call.offset) EXCEPT !.window = call.window, !.lock = Free,
                 !.exhausted = call.exhausted, !.fallback = call.fallback]]
         /\ \/ /\ views' = [views EXCEPT ![c] = Shows(@, call, page(s, call.offset))]
               /\ UNCHANGED faults_left
            \/ Fault /\ UNCHANGED views
  /\ kept' = put(c)
  /\ Move(c, IdleCall)
  /\ UNCHANGED <<environment, calls_left>>

\* A cancelled search, or one that fails, leaves its session as it was.
GiveUp(c) ==
  /\ ~At(c, "idle")
  /\ sessions' = IF At(c, "expanding") THEN [sessions EXCEPT ![calls[c].session].lock = Free]
                 ELSE sessions
  /\ Move(c, IdleCall)
  /\ Fault
  /\ UNCHANGED <<environment, kept, views, calls_left>>

----------------------------------------------------------------------------
(* The other calls.                                                        *)

\* A set installed over the open one, or books embedded into a set built on
\* the device, which has no generation.
ChangeVectors(installed) ==
  /\ change = "none" /\ vectors <= MaxChanges
  /\ vectors' = vectors + 1
  /\ generation' = IF installed THEN generation + 1 ELSE generation
  /\ change' = "changed"
  /\ Fault
  /\ UNCHANGED <<epoch, settled, kept, sessions, calls, views, calls_left>>

\* InvalidateOnDrop: the epoch first, then the sessions.
invalidate ==
  \/ /\ change = "changed"
     /\ epoch' = epoch + 1 /\ change' = "counted" /\ settled' = vectors
     /\ UNCHANGED <<vectors, generation, kept, sessions, calls, views, calls_left, faults_left>>
  \/ /\ change = "counted"
     /\ kept' = {} /\ change' = "none"
     /\ UNCHANGED <<vectors, generation, epoch, settled, sessions, calls, views, calls_left, faults_left>>

\* Ten idle minutes, or the sessions of other searches.
Evict ==
  /\ \E k \in kept : kept' = kept \ {k}
  /\ Fault
  /\ UNCHANGED <<environment, sessions, calls, views, calls_left>>

Step(c) ==
  \/ get(c) \/ filter(c) \/ lock(c)
  \/ \E failed \in BOOLEAN : expand_semantic_session(c, failed)
  \/ Serve(c)

Next ==
  \/ \E c \in Clients :
       \/ \E offset \in 0 .. Len(views[c].entries) : search_semantic(c, offset)
       \/ Step(c) \/ GiveUp(c)
  \/ \E installed \in BOOLEAN : ChangeVectors(installed)
  \/ invalidate \/ Evict

Spec == Init /\ [][Next]_vars

\* A search's thread runs; nobody has to search, change or forget anything.
FairSpec == Spec /\ \A c \in Clients : WF_vars(Step(c))

----------------------------------------------------------------------------
(* Properties.                                                             *)

\* The state has its types: sessions hold results of the sidecar, in order, and
\* no session is kept twice (SemanticSession, SemanticSessions).
TypeOK ==
  /\ vectors \in 1 .. MaxChanges + 1 /\ settled \in 1 .. vectors
  /\ generation \in 1 .. vectors /\ epoch \in 0 .. MaxChanges
  /\ change \in {"none", "changed", "counted"}
  /\ \A i \in DOMAIN sessions :
       /\ \A e \in Range(sessions[i].entries) : e \in Item /\ ~e.stale
       /\ sessions[i].shown \in 0 .. Len(sessions[i].entries)
       /\ sessions[i].window \in 0 .. MAX_SEMANTIC_CANDIDATE_WINDOW
       /\ sessions[i].lock \in Clients \cup {Free}
  /\ \A k, l \in kept : (k[1] = l[1] => k = l) /\ k[2] \in DOMAIN sessions

\* No line is a result twice and no group is shown twice: not over any number
\* of pages, each of a wider window that ranks other lines of a group first
\* (admits, take, commit).
OneOfEach(entries) ==
  \A i, j \in DOMAIN entries :
    i < j => /\ entries[i].line # entries[j].line
             /\ entries[i].group # NoGroup => entries[i].group # entries[j].group

EachOnce == \A i \in DOMAIN sessions : OneOfEach(sessions[i].entries)

\* The pages a client got from one session are that session's results in order,
\* also those asked again, however often it was ranked again (show, reopen).
ViewContinues ==
  \A c \in Clients :
    \A i \in views[c].sessions :
      views[c].sessions = {i} => IsPrefix(views[c].entries, sessions[i].entries)

\* A search that begins after a call that changed the vectors returned is served
\* nothing computed before it (InvalidateOnDrop: "so no search keeps a page
\* computed before it").
ServedFresh ==
  \A c \in Clients : \A e \in views[c].page : e.version >= views[c].began

\* Ranked again, a result no page has shown gives way only to one of its lines,
\* held or found stale, or to its group (commit: "a result the session held is
\* never lost").
NothingLost ==
  [][\A i \in DOMAIN sessions : \A e \in Range(sessions[i].entries) :
       \/ Holds(e) \cap (Held(sessions'[i].entries) \cup sessions'[i].dropped) # {}
       \/ e.group # NoGroup /\ e.group \in Groups(sessions'[i].entries)]_vars

\* A search ends whatever it has to wait for: its windows reach the end of the
\* results or the widest one there is. The searches are MaxCalls in all.
SearchReturns == []<>(\A c \in Clients : At(c, "idle"))

\* A client's pages continue one another (search_semantic: "each line and group
\* appears once and a page asked again is the same page").
PagesContinue == \A c \in Clients : OneOfEach(views[c].entries)
=============================================================================
