----------------------------- MODULE LineSource -----------------------------
(* The library database, which the engine reads the lines of books from,   *)
(* while the application suspends it to replace its file, or points it at  *)
(* another one (line_source.rs).                                           *)
(*                                                                         *)
(* Global is behind one mutex, and a window reads under it, so every call  *)
(* is one step of it; only wait_for_scans gives the mutex up.  A scan      *)
(* session reads outside it, through connections of its own.  Isolates are *)
(* the callers: each has the Dart port it would suspend for.               *)
EXTENDS Naturals, FiniteSets

CONSTANTS
  Isolates,
  Scanners,   \* the threads that open scan sessions
  Paths,
  NoPath,
  NoText,
  MaxCalls,   \* bound: what isolates and failures do
  MaxScans    \* bound: the sessions opened

ASSUME SourceAssumption ==
  /\ IsFiniteSet(Scanners) /\ IsFiniteSet(Isolates)
  /\ NoPath \notin Paths
  /\ MaxCalls \in Nat /\ MaxScans \in Nat

VARIABLES
  source,      \* Global of the source
  ports,       \* the isolates that live: their ports are open
  isolates,    \* what each isolate does
  scans,       \* the scan session of each thread
  files,       \* the version of the file at each path
  calls_left,
  scans_left

vars == <<source, ports, isolates, scans, files, calls_left, scans_left>>

Global == [path : Paths \cup {NoPath}, store : BOOLEAN, generation : Nat,
           suspend_depth : Nat, owner_ports : SUBSET Isolates, scans : Nat,
           scan_validity : SUBSET Scanners]

Text == [path : Paths, version : Nat, generation : Nat]

\* A thread's session: none, open, or with a connection that reads a book.
NoScan == [at |-> "none", path |-> NoPath, generation |-> 0, version |-> 0, text |-> NoText]

Init ==
  /\ \E p \in Paths \cup {NoPath} :   \* configured already, or not yet
       source = [path |-> p, store |-> FALSE, generation |-> IF p = NoPath THEN 0 ELSE 1,
                 suspend_depth |-> 0, owner_ports |-> {}, scans |-> 0, scan_validity |-> {}]
  /\ ports = Isolates
  /\ isolates = [c \in Isolates |-> "idle"]
  /\ scans = [s \in Scanners |-> NoScan]
  /\ files = [p \in Paths |-> 0]
  /\ calls_left = MaxCalls
  /\ scans_left = MaxScans

----------------------------------------------------------------------------
(* What the methods of Global do to it.                                    *)

\* Scans are invalidated; an open store is closed and its generation ends.
drop_store(g) ==
  [g EXCEPT !.scan_validity = {}, !.store = FALSE,
            !.generation = IF g.store THEN @ + 1 ELSE @]

\* Mutant of advance_generation: the generation stays.
advance_validity(g) == [g EXCEPT !.scan_validity = {}]

advance_generation(g) == [g EXCEPT !.scan_validity = {}, !.generation = @ + 1]

Suspended(g) == g.suspend_depth > 0 \/ g.owner_ports # {}

\* The last hold goes: the file may have been replaced.
Released(g) == IF Suspended(g) THEN g ELSE advance_generation(drop_store(g))

\* reap_dead_owners
reap(g) ==
  LET left == [g EXCEPT !.owner_ports = @ \cap ports]
  IN  IF left # g /\ left.owner_ports = {} THEN Released(left) ELSE left

\* global(): whoever takes the mutex reaps the owners that are gone.
Locked == reap(source)

set_path(g, p) ==
  IF g.path # p THEN advance_generation([drop_store(g) EXCEPT !.path = p]) ELSE g

----------------------------------------------------------------------------
(* The application.                                                        *)

Begins(c, from, to) ==
  /\ c \in ports /\ isolates[c] = from
  /\ calls_left > 0 /\ calls_left' = calls_left - 1
  /\ isolates' = [isolates EXCEPT ![c] = to]
  /\ UNCHANGED <<ports, scans, files, scans_left>>

suspend(c) ==
  /\ Begins(c, "idle", "suspending")
  /\ source' = drop_store([Locked EXCEPT !.suspend_depth = @ + 1])

suspend_owned(c) ==
  /\ Begins(c, "idle", "suspending_owned")
  /\ source' = drop_store([Locked EXCEPT !.owner_ports = @ \cup {c}])

\* A new path waits for the sessions of the old one, and of the new.
configure(c, p) ==
  /\ Begins(c, "idle", IF Locked.path # p THEN "configuring" ELSE "idle")
  /\ source' = set_path(Locked, p)

\* What an isolate does once wait_for_scans returned.
Then == [suspending |-> "holding", suspending_owned |-> "owning", configuring |-> "idle"]

\* Mutant of Waited: nobody waits for the scans.
WaitedNot(c) ==
  /\ isolates[c] \in DOMAIN Then
  /\ isolates' = [isolates EXCEPT ![c] = Then[@]]
  /\ UNCHANGED <<source, ports, scans, files, calls_left, scans_left>>

\* wait_for_scans returns, and the call with it.
Waited(c) ==
  /\ isolates[c] \in DOMAIN Then /\ source.scans = 0
  /\ isolates' = [isolates EXCEPT ![c] = Then[@]]
  /\ UNCHANGED <<source, ports, scans, files, calls_left, scans_left>>

\* resume drops what is cached when the depth is 0, owners or not.
resume(c) ==
  LET g == [Locked EXCEPT !.suspend_depth = @ - 1]
  IN  /\ Begins(c, "holding", "idle")
      /\ source' = IF g.suspend_depth = 0
                   THEN advance_generation(drop_store(g))
                   ELSE g

resume_owned(c) ==
  LET g == [Locked EXCEPT !.owner_ports = @ \ {c}]
  IN  /\ Begins(c, "owning", "idle")
      /\ source' = IF g # Locked /\ g.owner_ports = {} THEN Released(g) ELSE g

\* What suspending is for: the file is replaced by another.
Replace(c) ==
  /\ c \in ports /\ isolates[c] \in {"holding", "owning"}
  /\ source.path \in Paths
  /\ calls_left > 0 /\ calls_left' = calls_left - 1
  /\ files' = [files EXCEPT ![source.path] = @ + 1]
  /\ UNCHANGED <<source, ports, isolates, scans, scans_left>>

\* An isolate exits; only a hold tied to its port goes with it, and what it
\* called goes on.
Exit(c) ==
  /\ c \in ports
  /\ calls_left > 0 /\ calls_left' = calls_left - 1
  /\ ports' = ports \ {c}
  /\ UNCHANGED <<source, isolates, scans, files, scans_left>>

----------------------------------------------------------------------------
(* Readers.                                                                *)

Happens ==
  /\ calls_left > 0 /\ calls_left' = calls_left - 1
  /\ UNCHANGED <<ports, isolates, scans, files, scans_left>>

\* A window reads through the store, opened on first use ...
with_store ==
  /\ ~Suspended(Locked) /\ Locked.path # NoPath /\ ~Locked.store
  /\ Happens
  /\ source' = [Locked EXCEPT !.store = TRUE]

\* ... and closes it when reading fails or panics.
WindowFails ==
  /\ ~Suspended(Locked) /\ Locked.path # NoPath
  /\ Happens
  /\ source' = drop_store(Locked)

\* A cache that cannot tell whether the file changed takes a fresh generation.
ProbeFails ==
  /\ Happens
  /\ source' = [Locked EXCEPT !.generation = @ + 1]

\* begin_scan, of a file that is there.
begin_scan(s) ==
  /\ scans[s].at = "none" /\ scans_left > 0
  /\ ~Suspended(Locked) /\ Locked.path # NoPath
  /\ source' = [Locked EXCEPT !.scans = @ + 1, !.scan_validity = @ \cup {s}]
  /\ scans' = [scans EXCEPT ![s] = [NoScan EXCEPT !.at = "open", !.path = Locked.path,
                                       !.generation = Locked.generation]]
  /\ scans_left' = scans_left - 1
  /\ UNCHANGED <<ports, isolates, files, calls_left>>

\* Mutant of Read: the session does not look at the source.
ReadUnchecked(s) ==
  /\ scans[s].at = "open"
  /\ source' = Locked
  /\ scans' = [scans EXCEPT ![s].at = "reading", ![s].version = files[scans[s].path]]
  /\ UNCHANGED <<ports, isolates, files, calls_left, scans_left>>

\* ScanSession::read: not once the source is suspended or moved ...
Read(s) ==
  /\ scans[s].at = "open"
  /\ s \in Locked.scan_validity /\ ~Suspended(Locked)
  /\ source' = Locked
  /\ scans' = [scans EXCEPT ![s].at = "reading", ![s].version = files[scans[s].path]]
  /\ UNCHANGED <<ports, isolates, files, calls_left, scans_left>>

\* ... and what was read is given only if it still is not.
ReadDone(s) ==
  /\ scans[s].at = "reading" /\ s \in Locked.scan_validity
  /\ scans' = [scans EXCEPT ![s].at = "open", ![s].text =
       [path |-> scans[s].path, version |-> scans[s].version, generation |-> scans[s].generation]]
  /\ source' = Locked
  /\ UNCHANGED <<ports, isolates, files, calls_left, scans_left>>

ReadFails(s) ==
  /\ scans[s].at = "reading"
  /\ scans' = [scans EXCEPT ![s].at = "open"]
  /\ source' = Locked
  /\ UNCHANGED <<ports, isolates, files, calls_left, scans_left>>

\* Dropping the session closes its connections; the text is its reader's.
Drop(s) ==
  /\ scans[s].at = "open"
  /\ source' = [Locked EXCEPT !.scans = @ - 1, !.scan_validity = @ \ {s}]
  /\ scans' = [scans EXCEPT ![s] = [NoScan EXCEPT !.text = scans[s].text]]
  /\ UNCHANGED <<ports, isolates, files, calls_left, scans_left>>

Scan(s) == Read(s) \/ ReadDone(s) \/ ReadFails(s) \/ Drop(s)

App(c) ==
  \/ suspend(c) \/ suspend_owned(c) \/ resume(c) \/ resume_owned(c)
  \/ Replace(c) \/ Exit(c)
  \/ \E p \in Paths : configure(c, p)

Next ==
  \/ \E c \in Isolates : App(c) \/ Waited(c)
  \/ with_store \/ WindowFails \/ ProbeFails
  \/ \E s \in Scanners : begin_scan(s) \/ Scan(s)

Spec == Init /\ [][Next]_vars

\* A scan goes on with the book it reads and ends its session, and the thread
\* in wait_for_scans wakes when there is none; an isolate need not do a thing.
FairSpec ==
  /\ Spec
  /\ \A s \in Scanners : WF_vars(ReadDone(s) \/ ReadFails(s)) /\ WF_vars(Drop(s))
  /\ \A c \in Isolates : WF_vars(Waited(c))

----------------------------------------------------------------------------
(* Properties.                                                             *)

\* The state has its types (Global, ScanSession).
TypeOK ==
  /\ source \in Global
  /\ ports \subseteq Isolates
  /\ isolates \in [Isolates -> {"idle", "suspending", "suspending_owned",
                               "configuring", "holding", "owning"}]
  /\ scans \in [Scanners -> [at : {"none", "open", "reading"}, path : Paths \cup {NoPath},
                             generation : Nat, version : Nat, text : Text \cup {NoText}]]
  /\ files \in [Paths -> Nat]
  /\ calls_left \in 0 .. MaxCalls /\ scans_left \in 0 .. MaxScans

\* While an isolate holds the source, no connection of the engine has its
\* file open, whoever else suspends, resumes, configures or exits
\* (suspend_line_source: "Returns once the file handle is released").
ReleasedWhileHeld ==
  \A c \in ports : isolates[c] \in {"holding", "owning"} =>
    ~source.store /\ \A s \in Scanners : scans[s].at = "none"

\* Text read under the generation the source still has, with nobody holding
\* the source, is what the file at its path says now (Global::generation).
TextIsCurrent ==
  \A s \in Scanners :
    LET text == scans[s].text
    IN  text # NoText /\ ~Suspended(Locked) /\ text.generation = Locked.generation =>
          text.path = Locked.path /\ text.version = files[text.path]

\* A suspension returns although sessions would read book after book, unless
\* its isolate is gone (wait_for_scans: "it closes within one book of a
\* suspension").
SuspendReturns ==
  \A c \in Isolates :
    isolates[c] \in {"suspending", "suspending_owned"} ~>
      isolates[c] \in {"holding", "owning"} \/ c \notin ports
=============================================================================
