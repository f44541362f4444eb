------------------------- MODULE LineSourceProofs --------------------------
(* Theorems about the line source: whoever holds it has its file released,  *)
(* text of its generation is current, and a suspension waits for one book   *)
(* of each session at most, for any isolates, scanners and paths.           *)
EXTENDS LineSource, FiniteSetTheorems, TLAPS

----------------------------------------------------------------------------
(* The inductive invariant, in parts.                                      *)

OpenScans == {s \in Scanners : scans[s].at # "none"}

Held == {"suspending", "holding"}
Owned == {"suspending_owned", "owning"}

Holders == {c \in Isolates : isolates[c] \in Held}

\* Sessions and suspensions are counted.
Counts ==
  /\ source.scans = Cardinality(OpenScans)
  /\ source.suspend_depth = Cardinality(Holders)

\* An isolate that lives keeps its hold until it resumes.
Owners == \A c \in ports : isolates[c] \in Owned => c \in source.owner_ports

\* A suspended source has no store open and no session that may go on.
QuietIn(g) == Suspended(g) => ~g.store /\ g.scan_validity = {}

\* A session that may go on reads the path of the source, as the file there is.
SessionOK(scan, s, g, f) ==
  scan.at # "none" =>
    /\ scan.path \in Paths
    /\ scan.generation <= g.generation
    /\ s \in g.scan_validity =>
         /\ scan.path = g.path
         /\ scan.at = "reading" => scan.version = f[scan.path]

\* Text of the generation of a source that is not suspended is current.
TextOK(text, g, f) ==
  text # NoText =>
    /\ text.generation <= g.generation
    /\ ~Suspended(g) /\ text.generation = g.generation =>
         text.path = g.path /\ text.version = f[text.path]

SessionsSound ==
  \A s \in Scanners : SessionOK(scans[s], s, source, files) /\ TextOK(scans[s].text, source, files)

\* Nobody holds the source while a session is open.
ScansEnded ==
  \A c \in ports : isolates[c] \in {"holding", "owning"} =>
    \A s \in Scanners : scans[s].at = "none"

IInv ==
  /\ TypeOK /\ Counts /\ Owners /\ QuietIn(source)
  /\ SessionsSound /\ ScansEnded

\* What becomes of a source while no session begins: it never comes out of a
\* suspension, or to another path, in the generation it had.
Follows(g, h) ==
  /\ h.generation >= g.generation
  /\ h.scan_validity \subseteq g.scan_validity
  /\ QuietIn(h)
  /\ h.path # g.path => h.scan_validity = {}
  /\ ~Suspended(h) /\ h.generation = g.generation => ~Suspended(g) /\ h.path = g.path

\* Text that anybody holds, read from a session earlier, stays current or is
\* of a generation that ended.
TextsKept ==
  \A text \in Text : TextOK(text, source, files) => TextOK(text, source, files)'

----------------------------------------------------------------------------
(* The methods of Global.                                                  *)

\* Closing the store ends the sessions, and the generation if it was open.
LEMMA DropOK ==
  ASSUME NEW g \in Global
  PROVE  /\ drop_store(g) \in Global
         /\ drop_store(g).path = g.path
         /\ drop_store(g).scans = g.scans
         /\ drop_store(g).suspend_depth = g.suspend_depth
         /\ drop_store(g).owner_ports = g.owner_ports
         /\ drop_store(g).store = FALSE
         /\ drop_store(g).scan_validity = {}
         /\ drop_store(g).generation >= g.generation
<1>1. g.generation \in Nat /\ (IF g.store THEN g.generation + 1 ELSE g.generation) \in Nat
  BY DEF Global
<1>2. \A n \in Nat : [g EXCEPT !.scan_validity = {}, !.store = FALSE, !.generation = n] \in Global
  BY DEF Global
<1>3. drop_store(g) \in Global
  BY <1>1, <1>2 DEF drop_store
<1>4. /\ drop_store(g).path = g.path
      /\ drop_store(g).scans = g.scans
      /\ drop_store(g).suspend_depth = g.suspend_depth
      /\ drop_store(g).owner_ports = g.owner_ports
      /\ drop_store(g).scan_validity = {}
      /\ drop_store(g).generation = IF g.store THEN g.generation + 1 ELSE g.generation
  BY DEF drop_store, Global
<1>5. drop_store(g).store = FALSE
  BY Zenon DEF drop_store, Global
<1>6. QED
  BY <1>1, <1>3, <1>4, <1>5

\* The next generation begins with no session.
LEMMA AdvanceOK ==
  ASSUME NEW g \in Global
  PROVE  /\ advance_generation(g) \in Global
         /\ advance_generation(g).path = g.path
         /\ advance_generation(g).scans = g.scans
         /\ advance_generation(g).suspend_depth = g.suspend_depth
         /\ advance_generation(g).owner_ports = g.owner_ports
         /\ advance_generation(g).store = g.store
         /\ advance_generation(g).scan_validity = {}
         /\ advance_generation(g).generation = g.generation + 1
<1>1. \A n \in Nat : [g EXCEPT !.scan_validity = {}, !.generation = n] \in Global
  BY DEF Global
<1>2. g.generation + 1 \in Nat
  BY DEF Global
<1>3. advance_generation(g) \in Global
  BY <1>1, <1>2 DEF advance_generation
<1>4. /\ advance_generation(g).path = g.path
      /\ advance_generation(g).scans = g.scans
      /\ advance_generation(g).suspend_depth = g.suspend_depth
      /\ advance_generation(g).owner_ports = g.owner_ports
      /\ advance_generation(g).scan_validity = {}
      /\ advance_generation(g).generation = g.generation + 1
  BY DEF advance_generation, Global
<1>5. advance_generation(g).store = g.store
  BY Zenon DEF advance_generation, Global
<1>6. QED
  BY <1>3, <1>4, <1>5

\* A source that was suspended and no longer is begins another generation.
LEMMA RenewOK ==
  ASSUME NEW g \in Global, NEW h, h = advance_generation(drop_store(g))
  PROVE  /\ h \in Global
         /\ h.path = g.path /\ h.scans = g.scans
         /\ h.suspend_depth = g.suspend_depth /\ h.owner_ports = g.owner_ports
         /\ ~h.store /\ h.scan_validity = {}
         /\ h.generation > g.generation
<1>1. drop_store(g) \in Global
  BY DropOK
<1>2. h.generation = drop_store(g).generation + 1
  BY <1>1, AdvanceOK
<1>3. drop_store(g).generation \in Nat /\ g.generation \in Nat
  BY <1>1 DEF Global
<1>4. drop_store(g).generation >= g.generation
  BY DropOK
<1>5. h.generation > g.generation
  BY <1>2, <1>3, <1>4
<1>6. h.store = FALSE
  BY <1>1, DropOK, AdvanceOK
<1>7. QED
  BY <1>1, <1>5, <1>6, DropOK, AdvanceOK

\* Taking the owners' ports from a source leaves the rest.
LEMMA OwnersSet ==
  ASSUME NEW g \in Global, NEW O \in SUBSET Isolates, NEW h, h = [g EXCEPT !.owner_ports = O]
  PROVE  /\ h \in Global
         /\ h.path = g.path /\ h.scans = g.scans /\ h.store = g.store
         /\ h.suspend_depth = g.suspend_depth /\ h.owner_ports = O
         /\ h.scan_validity = g.scan_validity /\ h.generation = g.generation
  BY DEF Global

\* The last hold that goes renews the source; another one leaves it.
LEMMA ReleasedOK ==
  ASSUME NEW g \in Global, QuietIn(g)
  PROVE  /\ Released(g) \in Global
         /\ Released(g).path = g.path /\ Released(g).scans = g.scans
         /\ Released(g).suspend_depth = g.suspend_depth
         /\ Released(g).owner_ports = g.owner_ports
         /\ Released(g).generation >= g.generation
         /\ Released(g).scan_validity \subseteq g.scan_validity
         /\ QuietIn(Released(g))
         /\ ~Suspended(g) => Released(g).generation > g.generation
<1>0. g.generation \in Nat
  BY DEF Global
<1>1. CASE Suspended(g)
  BY <1>0, <1>1 DEF Released
<1>2. CASE ~Suspended(g)
  <2>1. PICK h : h = Released(g)
    OBVIOUS
  <2>2. h = advance_generation(drop_store(g))
    BY <1>2, <2>1 DEF Released
  <2>3. /\ h \in Global
        /\ h.path = g.path /\ h.scans = g.scans
        /\ h.suspend_depth = g.suspend_depth /\ h.owner_ports = g.owner_ports
        /\ ~h.store /\ h.scan_validity = {}
        /\ h.generation > g.generation
    BY <2>2, RenewOK
  <2>4. h.generation \in Nat
    BY <2>3 DEF Global
  <2>5. QuietIn(h)
    BY <2>3 DEF QuietIn
  <2>6. QED
    BY <1>0, <2>1, <2>3, <2>4, <2>5
<1>3. QED
  BY <1>1, <1>2

\* With the owners O left of g, h is what is found and k what it becomes.
Reaped(g, O, h, k) ==
  /\ h = [g EXCEPT !.owner_ports = O]
  /\ k = IF h # g /\ h.owner_ports = {} THEN Released(h) ELSE h

\* What is taken from the owners of a source: it follows, whoever is gone.
LEMMA FewerOwners ==
  ASSUME NEW g \in Global, QuietIn(g), NEW O \in SUBSET g.owner_ports,
         NEW h, NEW k, Reaped(g, O, h, k)
  PROVE  /\ k \in Global
         /\ k.path = g.path /\ k.scans = g.scans
         /\ k.suspend_depth = g.suspend_depth /\ k.owner_ports = O
         /\ Follows(g, k)
<1>a. /\ h = [g EXCEPT !.owner_ports = O]
      /\ k = IF h # g /\ h.owner_ports = {} THEN Released(h) ELSE h
  BY DEF Reaped
<1>1. /\ h \in Global
      /\ h.path = g.path /\ h.scans = g.scans /\ h.store = g.store
      /\ h.suspend_depth = g.suspend_depth /\ h.owner_ports = O
      /\ h.scan_validity = g.scan_validity /\ h.generation = g.generation
  <2>1. O \in SUBSET Isolates
    BY DEF Global
  <2>2. QED
    BY <1>a, <2>1, OwnersSet
<1>0. g.generation \in Nat /\ h.generation \in Nat
  BY <1>1 DEF Global
<1>2. QuietIn(h)
  BY <1>1 DEF QuietIn, Suspended
<1>3. h # g => g.owner_ports # {}
  <2>1. O = g.owner_ports => h = g
    BY <1>a DEF Global
  <2>2. QED
    BY <1>a, <2>1
<1>4. CASE h # g /\ h.owner_ports = {}
  <2>1. k = Released(h)
    BY <1>a, <1>4
  <2>2. Suspended(g)
    BY <1>3, <1>4 DEF Suspended
  <2>3. /\ k \in Global
        /\ k.path = h.path /\ k.scans = h.scans
        /\ k.suspend_depth = h.suspend_depth /\ k.owner_ports = h.owner_ports
        /\ k.generation >= h.generation
        /\ k.scan_validity \subseteq h.scan_validity
        /\ QuietIn(k)
        /\ ~Suspended(h) => k.generation > h.generation
    BY <1>1, <1>2, <2>1, ReleasedOK
  <2>4. k.generation \in Nat
    BY <2>3 DEF Global
  <2>5. Suspended(k) <=> Suspended(h)
    BY <2>3 DEF Suspended
  <2>6. ~Suspended(k) => k.generation > g.generation
    BY <1>0, <1>1, <2>3, <2>4, <2>5
  <2>7. k.generation >= g.generation /\ k.path = g.path /\ k.scan_validity \subseteq g.scan_validity
    BY <1>1, <2>3
  <2>8. Follows(g, k)
    BY <1>0, <2>3, <2>4, <2>6, <2>7 DEF Follows
  <2>9. QED
    BY <1>1, <2>3, <2>8
<1>5. CASE ~(h # g /\ h.owner_ports = {})
  <2>1. k = h
    BY <1>a, <1>5
  <2>2. ~Suspended(h) => ~Suspended(g)
    BY <1>1, <1>5 DEF Suspended
  <2>3. h.generation >= g.generation
    BY <1>0, <1>1
  <2>4. Follows(g, h)
    BY <1>1, <1>2, <2>2, <2>3 DEF Follows
  <2>5. QED
    BY <1>1, <2>1, <2>4
<1>6. QED
  BY <1>4, <1>5

\* Whoever takes the mutex finds a source that follows the one left there.
LEMMA LockedOK ==
  ASSUME source \in Global, QuietIn(source)
  PROVE  /\ Locked \in Global
         /\ Locked.path = source.path /\ Locked.scans = source.scans
         /\ Locked.suspend_depth = source.suspend_depth
         /\ Locked.owner_ports = source.owner_ports \cap ports
         /\ Follows(source, Locked)
<1>1. PICK g : g = source
  OBVIOUS
<1>2. PICK O : O = source.owner_ports \cap ports
  OBVIOUS
<1>3. PICK h : h = [g EXCEPT !.owner_ports = O]
  OBVIOUS
<1>4. PICK k : k = Locked
  OBVIOUS
<1>5. Reaped(g, O, h, k)
  BY <1>1, <1>2, <1>3, <1>4 DEF Locked, reap, Reaped
<1>6. g \in Global /\ QuietIn(g) /\ O \in SUBSET g.owner_ports
  BY <1>1, <1>2
<1>7. /\ k \in Global
      /\ k.path = g.path /\ k.scans = g.scans
      /\ k.suspend_depth = g.suspend_depth
      /\ k.owner_ports = O
      /\ Follows(g, k)
  BY <1>5, <1>6, FewerOwners
<1>8. QED
  BY <1>1, <1>2, <1>4, <1>7

\* Following is transitive.
LEMMA FollowsTrans ==
  ASSUME NEW g \in Global, NEW h \in Global, NEW k \in Global, Follows(g, h), Follows(h, k)
  PROVE  Follows(g, k)
<1>1. g.generation \in Nat /\ h.generation \in Nat /\ k.generation \in Nat
  BY DEF Global
<1>2. g.generation <= h.generation /\ h.generation <= k.generation
  BY DEF Follows
<1>3. k.generation = g.generation => k.generation = h.generation /\ h.generation = g.generation
  BY <1>1, <1>2
<1>4. k.generation >= g.generation
  BY <1>1, <1>2
<1>5. QED
  BY <1>3, <1>4 DEF Follows


----------------------------------------------------------------------------
(* Steps of the source that follow.                                        *)

\* A source that is now suspended and closed follows the one before ...
LEMMA FollowsSuspended ==
  ASSUME NEW g \in Global, NEW h \in Global, h.generation >= g.generation,
         ~h.store, h.scan_validity = {}, Suspended(h)
  PROVE  Follows(g, h)
  BY DEF Follows, QuietIn

\* ... and so does one of another generation ...
LEMMA FollowsRenewed ==
  ASSUME NEW g \in Global, NEW h \in Global, h.generation > g.generation,
         ~h.store, h.scan_validity = {}
  PROVE  Follows(g, h)
  BY DEF Follows, QuietIn, Global

\* ... and one with fewer sessions, if it was not suspended.
LEMMA FollowsOpen ==
  ASSUME NEW g \in Global, NEW h \in Global, h.generation >= g.generation,
         h.scan_validity \subseteq g.scan_validity, ~Suspended(g), h.path = g.path,
         h.suspend_depth = g.suspend_depth, h.owner_ports = g.owner_ports
  PROVE  Follows(g, h)
  BY DEF Follows, QuietIn, Suspended

\* A session or its text that is sound stays so while the source follows.
LEMMA SoundFollows ==
  ASSUME NEW g \in Global, NEW h \in Global, Follows(g, h), NEW f, NEW s \in Scanners,
         NEW scan, scan.generation \in Nat, scan.text # NoText => scan.text.generation \in Nat,
         SessionOK(scan, s, g, f), TextOK(scan.text, g, f)
  PROVE  SessionOK(scan, s, h, f) /\ TextOK(scan.text, h, f)
<1>0. g.generation \in Nat /\ h.generation \in Nat /\ h.generation >= g.generation
  BY DEF Global, Follows
<1>1. SessionOK(scan, s, h, f)
  BY <1>0 DEF SessionOK, Follows
<1>2. TextOK(scan.text, h, f)
  BY <1>0 DEF TextOK, Follows
<1>3. QED
  BY <1>1, <1>2

\* Text stays current while the source follows, or keeps path and generation.
LEMMA TextsFollow ==
  ASSUME TypeOK, source' \in Global, UNCHANGED files, NEW L \in Global, Follows(source, L),
         \/ source' = L
         \/ /\ source'.path = L.path /\ source'.generation = L.generation
            /\ source'.suspend_depth = L.suspend_depth /\ source'.owner_ports = L.owner_ports
  PROVE  TextsKept
<1>1. /\ source.generation \in Nat /\ L.generation \in Nat
      /\ L.generation >= source.generation
  BY DEF TypeOK, Global, Follows
<1>2. /\ source'.path = L.path /\ source'.generation = L.generation
      /\ Suspended(source') <=> Suspended(L)
  BY DEF Suspended
<1>3. SUFFICES ASSUME NEW text \in Text, TextOK(text, source, files)
               PROVE  TextOK(text, source', files)
  BY DEF TextsKept
<1>4. text.generation \in Nat
  BY DEF Text
<1>5. QED
  BY <1>1, <1>2, <1>3, <1>4 DEF TextOK, Follows

\* What the types of a session are.
LEMMA ScanTypes ==
  ASSUME TypeOK, NEW s \in Scanners
  PROVE  /\ scans[s].at \in {"none", "open", "reading"}
         /\ scans[s].path \in Paths \cup {NoPath}
         /\ scans[s].generation \in Nat /\ scans[s].version \in Nat
         /\ scans[s].text # NoText => scans[s].text.generation \in Nat
  BY DEF TypeOK, Text

\* A step that leaves the sessions alone keeps them sound.
LEMMA SessionsKept ==
  ASSUME TypeOK, SessionsSound, source' \in Global, Follows(source, source'),
         UNCHANGED <<scans, files>>
  PROVE  SessionsSound'
<1> SUFFICES ASSUME NEW s \in Scanners
             PROVE  SessionOK(scans[s], s, source', files) /\ TextOK(scans[s].text, source', files)
  BY DEF SessionsSound
<1>1. source \in Global
  BY DEF TypeOK
<1>2. SessionOK(scans[s], s, source, files) /\ TextOK(scans[s].text, source, files)
  BY DEF SessionsSound
<1>3. QED
  BY <1>1, <1>2, ScanTypes, SoundFollows

\* What an isolate does next changes the number of holders by itself alone.
LEMMA HoldersCount ==
  ASSUME TypeOK, NEW c \in Isolates, NEW to, isolates' = [isolates EXCEPT ![c] = to]
  PROVE  /\ Cardinality(Holders) \in Nat
         /\ isolates[c] \notin Held /\ to \in Held => Cardinality(Holders') = Cardinality(Holders) + 1
         /\ isolates[c] \in Held /\ to \notin Held => Cardinality(Holders') = Cardinality(Holders) - 1
         /\ (isolates[c] \in Held <=> to \in Held) => Holders' = Holders
<1>1. IsFiniteSet(Holders)
  BY SourceAssumption, FS_Subset DEF Holders
<1>2. /\ isolates'[c] = to
      /\ \A i \in Isolates \ {c} : isolates'[i] = isolates[i]
  BY DEF TypeOK
<1>3. CASE isolates[c] \notin Held /\ to \in Held
  <2>1. Holders' = Holders \cup {c} /\ c \notin Holders
    BY <1>2, <1>3 DEF Holders
  <2>2. QED
    BY <1>1, <1>3, <2>1, FS_AddElement, FS_CardinalityType
<1>4. CASE isolates[c] \in Held /\ to \notin Held
  <2>1. Holders' = Holders \ {c} /\ c \in Holders
    BY <1>2, <1>4 DEF Holders
  <2>2. QED
    BY <1>1, <1>4, <2>1, FS_RemoveElement, FS_CardinalityType
<1>5. CASE isolates[c] \in Held <=> to \in Held
  <2>1. Holders' = Holders
    BY <1>2, <1>5 DEF Holders
  <2>2. QED
    BY <1>1, <1>5, <2>1, FS_CardinalityType
<1>6. QED
  BY <1>3, <1>4, <1>5

\* The same of the sessions.
LEMMA ScansCount ==
  ASSUME TypeOK, NEW s \in Scanners, NEW scan, scans' = [scans EXCEPT ![s] = scan]
  PROVE  /\ Cardinality(OpenScans) \in Nat
         /\ scans[s].at = "none" /\ scan.at # "none" =>
              Cardinality(OpenScans') = Cardinality(OpenScans) + 1
         /\ scans[s].at # "none" /\ scan.at = "none" =>
              Cardinality(OpenScans') = Cardinality(OpenScans) - 1
         /\ (scans[s].at = "none" <=> scan.at = "none") => OpenScans' = OpenScans
<1>1. IsFiniteSet(OpenScans)
  BY SourceAssumption, FS_Subset DEF OpenScans
<1>2. /\ scans'[s] = scan
      /\ \A i \in Scanners \ {s} : scans'[i] = scans[i]
  BY DEF TypeOK
<1>3. CASE scans[s].at = "none" /\ scan.at # "none"
  <2>1. OpenScans' = OpenScans \cup {s} /\ s \notin OpenScans
    BY <1>2, <1>3 DEF OpenScans
  <2>2. QED
    BY <1>1, <1>3, <2>1, FS_AddElement, FS_CardinalityType
<1>4. CASE scans[s].at # "none" /\ scan.at = "none"
  <2>1. OpenScans' = OpenScans \ {s} /\ s \in OpenScans
    BY <1>2, <1>4 DEF OpenScans
  <2>2. QED
    BY <1>1, <1>4, <2>1, FS_RemoveElement, FS_CardinalityType
<1>5. CASE scans[s].at = "none" <=> scan.at = "none"
  <2>1. OpenScans' = OpenScans
    BY <1>2, <1>5 DEF OpenScans
  <2>2. QED
    BY <1>1, <1>5, <2>1, FS_CardinalityType
<1>6. QED
  BY <1>3, <1>4, <1>5

----------------------------------------------------------------------------
(* Each action keeps the invariant.                                        *)

\* What a step finds once it has the mutex.
Found(L) ==
  /\ L = Locked /\ L \in Global
  /\ L.path = source.path /\ L.scans = source.scans
  /\ L.suspend_depth = source.suspend_depth
  /\ L.owner_ports = source.owner_ports \cap ports
  /\ Follows(source, L)

\* Taking the mutex finds the source as some L that is Found.
LEMMA LockFound == ASSUME IInv PROVE \E L : Found(L)
<1>1. source \in Global /\ QuietIn(source)
  BY DEF IInv, TypeOK
<1>2. Found(Locked)
  BY <1>1, LockedOK DEF Found
<1>3. QED
  BY <1>2

\* A step of the application that moves one isolate.
LEMMA IsolateStep ==
  ASSUME IInv, NEW c \in Isolates,
         NEW to \in {"idle", "suspending", "suspending_owned", "configuring", "holding", "owning"},
         isolates' = [isolates EXCEPT ![c] = to],
         UNCHANGED <<scans, files, scans_left, ports>>,
         calls_left' \in 0 .. MaxCalls,
         source' \in Global, Follows(source, source'), source'.scans = source.scans,
         source'.suspend_depth = Cardinality(Holders'), Owners',
         to \in {"holding", "owning"} => \A s \in Scanners : scans[s].at = "none"
  PROVE  IInv' /\ TextsKept
<1>1. TypeOK'
  BY DEF IInv, TypeOK
<1>2. Counts'
  BY DEF IInv, Counts, OpenScans
<1>3. QuietIn(source)'
  BY DEF Follows, QuietIn, Suspended
<1>4. SessionsSound'
  BY SessionsKept DEF IInv
<1>5. ScansEnded'
  <2>1. \A i \in Isolates : isolates'[i] = IF i = c THEN to ELSE isolates[i]
    BY DEF IInv, TypeOK
  <2>2. ports \subseteq Isolates
    BY DEF IInv, TypeOK
  <2>3. QED
    BY <2>1, <2>2 DEF IInv, ScansEnded
<1>6. TextsKept
  BY TextsFollow DEF IInv
<1>7. QED
  BY <1>1, <1>2, <1>3, <1>4, <1>5, <1>6 DEF IInv

\* What Begins says of the types, and of an isolate that owns nothing.
LEMMA BeginsOK ==
  ASSUME IInv, NEW c \in Isolates, NEW from, NEW to, Begins(c, from, to)
  PROVE  /\ c \in ports /\ isolates[c] = from
         /\ calls_left' \in 0 .. MaxCalls
         /\ isolates' = [isolates EXCEPT ![c] = to]
         /\ UNCHANGED <<ports, scans, files, scans_left>>
         /\ \A i \in Isolates : isolates'[i] = IF i = c THEN to ELSE isolates[i]
  BY SourceAssumption DEF Begins, IInv, TypeOK

\* The owners that live are still owners, or c owns nothing next.
LEMMA OwnersKept ==
  ASSUME IInv, NEW c \in Isolates, NEW to, source' \in Global, UNCHANGED ports,
         \A i \in Isolates : isolates'[i] = IF i = c THEN to ELSE isolates[i],
         (source.owner_ports \cap ports) \ {c} \subseteq source'.owner_ports,
         to \in Owned => c \in source'.owner_ports
  PROVE  Owners'
<1>1. ports \subseteq Isolates
  BY DEF IInv, TypeOK
<1>2. QED
  BY <1>1 DEF IInv, Owners

\* Suspending and resuming sets the depth alone.
LEMMA DepthSet ==
  ASSUME NEW g \in Global, NEW n \in Nat, NEW h, h = [g EXCEPT !.suspend_depth = n]
  PROVE  /\ h \in Global
         /\ h.path = g.path /\ h.scans = g.scans /\ h.store = g.store
         /\ h.suspend_depth = n /\ h.owner_ports = g.owner_ports
         /\ h.scan_validity = g.scan_validity /\ h.generation = g.generation
  BY DEF Global

\* A source that was suspended once more, and closed.
LEMMA SuspendedOK ==
  ASSUME IInv, NEW L, Found(L), NEW g \in Global, NEW h, h = drop_store(g),
         Suspended(g), g.path = L.path, g.scans = L.scans, g.generation = L.generation
  PROVE  /\ h \in Global /\ Follows(source, h) /\ h.scans = source.scans
         /\ h.suspend_depth = g.suspend_depth /\ h.owner_ports = g.owner_ports
<1>1. /\ h \in Global
      /\ h.path = g.path /\ h.scans = g.scans
      /\ h.suspend_depth = g.suspend_depth /\ h.owner_ports = g.owner_ports
      /\ ~h.store /\ h.scan_validity = {} /\ h.generation >= g.generation
  BY DropOK
<1>2. Suspended(h)
  BY <1>1 DEF Suspended
<1>3. L \in Global /\ Follows(source, L) /\ source \in Global /\ L.scans = source.scans
  BY DEF Found, IInv, TypeOK
<1>4. Follows(L, h)
  BY <1>1, <1>2, <1>3, FollowsSuspended
<1>5. Follows(source, h)
  BY <1>1, <1>3, <1>4, FollowsTrans
<1>6. QED
  BY <1>1, <1>3, <1>5

\* suspend adds a counted hold; nothing is open until it is released.
LEMMA SuspendStep == ASSUME IInv, NEW c \in Isolates, suspend(c) PROVE IInv' /\ TextsKept
<1>1. PICK L : Found(L)
  BY LockFound
<1>2. Begins(c, "idle", "suspending")
  BY DEF suspend
<1>3. PICK g : g = [L EXCEPT !.suspend_depth = L.suspend_depth + 1]
  OBVIOUS
<1>4. source' = drop_store(g)
  BY <1>1, <1>3 DEF suspend, Found
<1>5. L \in Global /\ L.suspend_depth + 1 \in Nat
  BY <1>1 DEF Found, Global
<1>6. /\ g \in Global /\ g.path = L.path /\ g.scans = L.scans
      /\ g.generation = L.generation
      /\ g.suspend_depth = L.suspend_depth + 1 /\ g.owner_ports = L.owner_ports
  BY <1>3, <1>5, DepthSet
<1>7. Suspended(g)
  BY <1>5, <1>6 DEF Suspended, Global
<1>8. /\ source' \in Global /\ Follows(source, source') /\ source'.scans = source.scans
      /\ source'.suspend_depth = g.suspend_depth /\ source'.owner_ports = g.owner_ports
  BY <1>1, <1>4, <1>6, <1>7, SuspendedOK
<1>9. /\ isolates' = [isolates EXCEPT ![c] = "suspending"] /\ isolates[c] = "idle"
      /\ calls_left' \in 0 .. MaxCalls
      /\ UNCHANGED <<ports, scans, files, scans_left>>
      /\ \A i \in Isolates : isolates'[i] = IF i = c THEN "suspending" ELSE isolates[i]
  BY <1>2, BeginsOK
<1>10. source'.suspend_depth = Cardinality(Holders')
  <2>1. Cardinality(Holders') = Cardinality(Holders) + 1
    BY <1>9, HoldersCount DEF IInv, Held
  <2>2. QED
    BY <1>1, <1>6, <1>8, <2>1 DEF IInv, Counts, Found
<1>11. Owners'
  <2>1. (source.owner_ports \cap ports) \ {c} \subseteq source'.owner_ports
    BY <1>1, <1>6, <1>8 DEF Found
  <2>2. QED
    BY <1>8, <1>9, <2>1, OwnersKept DEF Owned
<1>12. QED
  BY <1>8, <1>9, <1>10, <1>11, IsolateStep

\* suspend_owned adds the hold of a port.
LEMMA SuspendOwnedStep == ASSUME IInv, NEW c \in Isolates, suspend_owned(c) PROVE IInv' /\ TextsKept
<1>1. PICK L : Found(L)
  BY LockFound
<1>2. Begins(c, "idle", "suspending_owned")
  BY DEF suspend_owned
<1>3. PICK g : g = [L EXCEPT !.owner_ports = L.owner_ports \cup {c}]
  OBVIOUS
<1>4. source' = drop_store(g)
  BY <1>1, <1>3 DEF suspend_owned, Found
<1>5. L \in Global /\ L.owner_ports \cup {c} \in SUBSET Isolates
  BY <1>1 DEF Found, Global
<1>6. /\ g \in Global /\ g.path = L.path /\ g.scans = L.scans
      /\ g.generation = L.generation
      /\ g.suspend_depth = L.suspend_depth /\ g.owner_ports = L.owner_ports \cup {c}
  BY <1>3, <1>5, OwnersSet
<1>7. Suspended(g)
  BY <1>6 DEF Suspended
<1>8. /\ source' \in Global /\ Follows(source, source') /\ source'.scans = source.scans
      /\ source'.suspend_depth = g.suspend_depth /\ source'.owner_ports = g.owner_ports
  BY <1>1, <1>4, <1>6, <1>7, SuspendedOK
<1>9. /\ isolates' = [isolates EXCEPT ![c] = "suspending_owned"] /\ isolates[c] = "idle"
      /\ calls_left' \in 0 .. MaxCalls
      /\ UNCHANGED <<ports, scans, files, scans_left>>
      /\ \A i \in Isolates : isolates'[i] = IF i = c THEN "suspending_owned" ELSE isolates[i]
  BY <1>2, BeginsOK
<1>10. source'.suspend_depth = Cardinality(Holders')
  <2>1. Holders' = Holders
    BY <1>9, HoldersCount DEF IInv, Held
  <2>2. QED
    BY <1>1, <1>6, <1>8, <2>1 DEF IInv, Counts, Found
<1>11. Owners'
  <2>1. (source.owner_ports \cap ports) \ {c} \subseteq source'.owner_ports
    BY <1>1, <1>6, <1>8 DEF Found
  <2>2. c \in source'.owner_ports
    BY <1>6, <1>8
  <2>3. QED
    BY <1>8, <1>9, <2>1, <2>2, OwnersKept
<1>12. QED
  BY <1>8, <1>9, <1>10, <1>11, IsolateStep

\* A source that was renewed follows.
LEMMA RenewedOK ==
  ASSUME IInv, NEW L, Found(L), NEW g \in Global, NEW h, h = advance_generation(drop_store(g)),
         g.scans = L.scans, g.generation = L.generation
  PROVE  /\ h \in Global /\ Follows(source, h) /\ h.scans = source.scans /\ h.path = g.path
         /\ h.suspend_depth = g.suspend_depth /\ h.owner_ports = g.owner_ports
<1>1. /\ h \in Global
      /\ h.path = g.path /\ h.scans = g.scans
      /\ h.suspend_depth = g.suspend_depth /\ h.owner_ports = g.owner_ports
      /\ ~h.store /\ h.scan_validity = {} /\ h.generation > g.generation
  BY RenewOK
<1>3. L \in Global /\ Follows(source, L) /\ source \in Global /\ L.scans = source.scans
  BY DEF Found, IInv, TypeOK
<1>4. Follows(L, h)
  BY <1>1, <1>3, FollowsRenewed
<1>5. Follows(source, h)
  BY <1>1, <1>3, <1>4, FollowsTrans
<1>6. QED
  BY <1>1, <1>3, <1>5

\* Another path renews the source, the same one leaves it.
LEMMA SetPathOK ==
  ASSUME IInv, NEW L, Found(L), NEW p \in Paths, NEW h, h = set_path(L, p)
  PROVE  /\ h \in Global /\ Follows(source, h) /\ h.scans = source.scans
         /\ h.suspend_depth = L.suspend_depth /\ h.owner_ports = L.owner_ports
<1>1. L \in Global /\ Follows(source, L) /\ source \in Global /\ L.scans = source.scans
  BY DEF Found, IInv, TypeOK
<1>2. CASE L.path = p
  BY <1>1, <1>2 DEF set_path
<1>3. CASE L.path # p
  <2>1. PICK d : d = drop_store(L)
    OBVIOUS
  <2>2. /\ d \in Global /\ d.scans = L.scans
        /\ d.suspend_depth = L.suspend_depth /\ d.owner_ports = L.owner_ports
        /\ d.store = FALSE /\ d.scan_validity = {} /\ d.generation >= L.generation
    BY <1>1, <2>1, DropOK
  <2>3. PICK e : e = [d EXCEPT !.path = p]
    OBVIOUS
  <2>4. /\ e \in Global /\ e.scans = d.scans /\ e.store = d.store
        /\ e.suspend_depth = d.suspend_depth /\ e.owner_ports = d.owner_ports
        /\ e.generation = d.generation
    BY <2>2, <2>3 DEF Global
  <2>5. h = advance_generation(e)
    BY <1>3, <2>1, <2>3 DEF set_path
  <2>6. /\ h \in Global /\ h.scans = e.scans /\ h.store = e.store
        /\ h.suspend_depth = e.suspend_depth /\ h.owner_ports = e.owner_ports
        /\ h.scan_validity = {} /\ h.generation = e.generation + 1
    BY <2>4, <2>5, AdvanceOK
  <2>7. ~h.store
    BY <2>2, <2>4, <2>6
  <2>8. h.generation > L.generation
    BY <1>1, <2>2, <2>4, <2>6 DEF Global
  <2>9. Follows(L, h)
    BY <1>1, <2>6, <2>7, <2>8, FollowsRenewed
  <2>10. Follows(source, h)
    BY <1>1, <2>6, <2>9, FollowsTrans
  <2>11. QED
    BY <1>1, <2>2, <2>4, <2>6, <2>10
<1>4. QED
  BY <1>2, <1>3

\* configure closes the store and ends every session, or changes nothing.
LEMMA ConfigureStep ==
  ASSUME IInv, NEW c \in Isolates, NEW p \in Paths, configure(c, p) PROVE IInv' /\ TextsKept
<1>1. PICK L : Found(L)
  BY LockFound
<1>2. PICK to \in {"configuring", "idle"} : Begins(c, "idle", to)
  BY DEF configure
<1>4. source' = set_path(L, p)
  BY <1>1 DEF configure, Found
<1>8. /\ source' \in Global /\ Follows(source, source') /\ source'.scans = source.scans
      /\ source'.suspend_depth = L.suspend_depth /\ source'.owner_ports = L.owner_ports
  BY <1>1, <1>4, SetPathOK
<1>9. /\ isolates' = [isolates EXCEPT ![c] = to] /\ isolates[c] = "idle"
      /\ calls_left' \in 0 .. MaxCalls
      /\ UNCHANGED <<ports, scans, files, scans_left>>
      /\ \A i \in Isolates : isolates'[i] = IF i = c THEN to ELSE isolates[i]
  BY <1>2, BeginsOK
<1>10. source'.suspend_depth = Cardinality(Holders')
  <2>1. Holders' = Holders
    BY <1>9, HoldersCount DEF IInv, Held
  <2>2. QED
    BY <1>1, <1>8, <2>1 DEF IInv, Counts, Found
<1>11. Owners'
  <2>1. (source.owner_ports \cap ports) \ {c} \subseteq source'.owner_ports
    BY <1>1, <1>8 DEF Found
  <2>2. QED
    BY <1>8, <1>9, <2>1, OwnersKept DEF Owned
<1>12. QED
  BY <1>8, <1>9, <1>10, <1>11, IsolateStep

\* resume takes a counted hold; the last one ends the generation.
LEMMA ResumeStep == ASSUME IInv, NEW c \in Isolates, resume(c) PROVE IInv' /\ TextsKept
<1>1. PICK L : Found(L)
  BY LockFound
<1>2. Begins(c, "holding", "idle")
  BY DEF resume
<1>3. PICK g : g = [L EXCEPT !.suspend_depth = L.suspend_depth - 1]
  OBVIOUS
<1>4. source' = IF g.suspend_depth = 0 THEN advance_generation(drop_store(g)) ELSE g
  BY <1>1, <1>3 DEF resume, Found
<1>9. /\ isolates' = [isolates EXCEPT ![c] = "idle"] /\ isolates[c] = "holding"
      /\ calls_left' \in 0 .. MaxCalls
      /\ UNCHANGED <<ports, scans, files, scans_left>>
      /\ \A i \in Isolates : isolates'[i] = IF i = c THEN "idle" ELSE isolates[i]
  BY <1>2, BeginsOK
<1>5. /\ Cardinality(Holders') = Cardinality(Holders) - 1
      /\ Cardinality(Holders) \in Nat
  BY <1>9, HoldersCount DEF IInv, Held
<1>a. Cardinality(Holders) # 0
  <2>1. c \in Holders /\ IsFiniteSet(Holders)
    BY <1>9, SourceAssumption, FS_Subset DEF Holders, Held
  <2>2. QED
    BY <2>1, FS_EmptySet
<1>b. /\ L \in Global /\ L.suspend_depth = Cardinality(Holders)
      /\ L.scans = source.scans /\ L.suspend_depth - 1 \in Nat /\ L.suspend_depth > 0
  BY <1>1, <1>5, <1>a DEF Found, IInv, Counts
<1>6. /\ g \in Global /\ g.path = L.path /\ g.scans = L.scans /\ g.store = L.store
      /\ g.generation = L.generation /\ g.scan_validity = L.scan_validity
      /\ g.suspend_depth = L.suspend_depth - 1 /\ g.owner_ports = L.owner_ports
  BY <1>3, <1>b, DepthSet
<1>8. /\ source' \in Global /\ Follows(source, source') /\ source'.scans = source.scans
      /\ source'.suspend_depth = g.suspend_depth /\ source'.owner_ports = g.owner_ports
  <2>1. CASE g.suspend_depth = 0
    <3>1. PICK h : h = source'
      OBVIOUS
    <3>2. h = advance_generation(drop_store(g))
      BY <1>4, <2>1, <3>1
    <3>3. /\ h \in Global /\ Follows(source, h) /\ h.scans = source.scans
          /\ h.suspend_depth = g.suspend_depth /\ h.owner_ports = g.owner_ports
      BY <1>1, <1>6, <3>2, RenewedOK
    <3>4. QED
      BY <3>1, <3>3
  <2>2. CASE g.suspend_depth # 0
    <3>1. source' = g
      BY <1>4, <2>2
    <3>2. Suspended(L) /\ Suspended(g)
      <4>1. g.suspend_depth \in Nat
        BY <1>6, <1>b
      <4>2. g.suspend_depth > 0
        BY <2>2, <4>1
      <4>3. QED
        BY <1>b, <4>2 DEF Suspended
    <3>3. QuietIn(L) /\ Follows(source, L) /\ source \in Global
      BY <1>1 DEF Found, Follows, IInv, TypeOK
    <3>4. ~g.store /\ g.scan_validity = {}
      BY <1>6, <3>2, <3>3 DEF QuietIn
    <3>5. g.generation >= L.generation
      BY <1>6, <1>b DEF Global
    <3>6. Follows(L, g)
      BY <1>6, <1>b, <3>2, <3>4, <3>5, FollowsSuspended
    <3>7. Follows(source, g)
      BY <1>6, <1>b, <3>3, <3>6, FollowsTrans
    <3>8. QED
      BY <1>6, <1>b, <3>1, <3>7
  <2>3. QED
    BY <2>1, <2>2
<1>10. source'.suspend_depth = Cardinality(Holders')
  BY <1>5, <1>6, <1>8, <1>b
<1>11. Owners'
  <2>1. (source.owner_ports \cap ports) \ {c} \subseteq source'.owner_ports
    BY <1>1, <1>6, <1>8 DEF Found
  <2>2. QED
    BY <1>8, <1>9, <2>1, OwnersKept DEF Owned
<1>12. QED
  BY <1>8, <1>9, <1>10, <1>11, IsolateStep

\* resume_owned takes the hold of a port; the last one ends the generation.
LEMMA ResumeOwnedStep == ASSUME IInv, NEW c \in Isolates, resume_owned(c) PROVE IInv' /\ TextsKept
<1>1. PICK L : Found(L)
  BY LockFound
<1>2. Begins(c, "owning", "idle")
  BY DEF resume_owned
<1>3. PICK O : O = L.owner_ports \ {c}
  OBVIOUS
<1>4. PICK h : h = [L EXCEPT !.owner_ports = O]
  OBVIOUS
<1>5. source' = IF h # L /\ h.owner_ports = {} THEN Released(h) ELSE h
  BY <1>1, <1>3, <1>4 DEF resume_owned, Found
<1>6. L \in Global /\ QuietIn(L) /\ O \in SUBSET L.owner_ports
  BY <1>1, <1>3 DEF Found, Follows
<1>7. /\ source' \in Global /\ source'.scans = L.scans
      /\ source'.suspend_depth = L.suspend_depth /\ source'.owner_ports = O
      /\ Follows(L, source')
  <2>1. PICK k : k = source'
    OBVIOUS
  <2>2. Reaped(L, O, h, k)
    BY <1>4, <1>5, <2>1 DEF Reaped
  <2>3. /\ k \in Global /\ k.scans = L.scans
        /\ k.suspend_depth = L.suspend_depth /\ k.owner_ports = O
        /\ Follows(L, k)
    BY <1>6, <2>2, FewerOwners
  <2>4. QED
    BY <2>1, <2>3
<1>8. Follows(source, source') /\ source'.scans = source.scans
  <2>1. source \in Global /\ Follows(source, L) /\ L.scans = source.scans
    BY <1>1 DEF Found, IInv, TypeOK
  <2>2. QED
    BY <1>6, <1>7, <2>1, FollowsTrans
<1>9. /\ isolates' = [isolates EXCEPT ![c] = "idle"] /\ isolates[c] = "owning"
      /\ calls_left' \in 0 .. MaxCalls
      /\ UNCHANGED <<ports, scans, files, scans_left>>
      /\ \A i \in Isolates : isolates'[i] = IF i = c THEN "idle" ELSE isolates[i]
  BY <1>2, BeginsOK
<1>10. source'.suspend_depth = Cardinality(Holders')
  <2>1. Holders' = Holders
    BY <1>9, HoldersCount DEF IInv, Held
  <2>2. QED
    BY <1>1, <1>7, <2>1 DEF IInv, Counts, Found
<1>11. Owners'
  <2>1. (source.owner_ports \cap ports) \ {c} \subseteq source'.owner_ports
    BY <1>1, <1>3, <1>7 DEF Found
  <2>2. QED
    BY <1>7, <1>9, <2>1, OwnersKept DEF Owned
<1>12. QED
  BY <1>7, <1>8, <1>9, <1>10, <1>11, IsolateStep

\* wait_for_scans returns only once no session is open.
LEMMA WaitedStep == ASSUME IInv, NEW c \in Isolates, Waited(c) PROVE IInv' /\ TextsKept
<1>1. /\ isolates[c] \in {"suspending", "suspending_owned", "configuring"}
      /\ source.scans = 0
      /\ UNCHANGED <<source, ports, scans, files, calls_left, scans_left>>
  BY DEF Waited, Then
<1>2. PICK to : to = Then[isolates[c]]
  OBVIOUS
<1>3. /\ isolates[c] = "suspending" => to = "holding"
      /\ isolates[c] = "suspending_owned" => to = "owning"
      /\ isolates[c] = "configuring" => to = "idle"
  BY <1>2 DEF Then
<1>4. isolates' = [isolates EXCEPT ![c] = to]
  BY <1>2 DEF Waited, Then
<1>5. to \in {"idle", "holding", "owning"}
  BY <1>1, <1>3
<1>6. \A i \in Isolates : isolates'[i] = IF i = c THEN to ELSE isolates[i]
  BY <1>4 DEF IInv, TypeOK
<1>7. Holders' = Holders
  BY <1>1, <1>3, <1>4, HoldersCount DEF IInv, Held
<1>8. source'.suspend_depth = Cardinality(Holders')
  BY <1>1, <1>7 DEF IInv, Counts
<1>9. Owners'
  <2>1. ports \subseteq Isolates
    BY DEF IInv, TypeOK
  <2>2. to \in Owned => isolates[c] \in Owned
    BY <1>1, <1>3 DEF Owned
  <2>3. QED
    BY <1>1, <1>6, <2>1, <2>2 DEF IInv, Owners
<1>10. \A s \in Scanners : scans[s].at = "none"
  <2>1. IsFiniteSet(OpenScans)
    BY SourceAssumption, FS_Subset DEF OpenScans
  <2>2. OpenScans = {}
    BY <1>1, <2>1, FS_EmptySet DEF IInv, Counts
  <2>3. QED
    BY <2>2 DEF OpenScans
<1>11. source' \in Global /\ Follows(source, source')
  <2>1. source \in Global /\ QuietIn(source)
    BY DEF IInv, TypeOK
  <2>2. Follows(source, source)
    BY <2>1 DEF Follows, Global
  <2>3. QED
    BY <1>1, <2>1, <2>2
<1>12. calls_left' \in 0 .. MaxCalls /\ source'.scans = source.scans
  BY <1>1 DEF IInv, TypeOK
<1>13. QED
  BY <1>1, <1>4, <1>5, <1>8, <1>9, <1>10, <1>11, <1>12, IsolateStep

\* Whoever suspends the source or may replace its file holds it.
LEMMA HoldersSuspend ==
  ASSUME IInv, NEW c \in ports, isolates[c] \in Held \cup Owned
  PROVE  Suspended(source) /\ Suspended(Locked)
<1>1. c \in Isolates /\ source \in Global
  BY DEF IInv, TypeOK
<1>2. PICK L : Found(L)
  BY LockFound
<1>3. CASE isolates[c] \in Held
  <2>1. c \in Holders /\ IsFiniteSet(Holders)
    BY <1>1, <1>3, SourceAssumption, FS_Subset DEF Holders
  <2>2. Cardinality(Holders) \in Nat /\ Cardinality(Holders) # 0
    BY <2>1, FS_EmptySet, FS_CardinalityType
  <2>3. source.suspend_depth > 0
    BY <2>2 DEF IInv, Counts
  <2>4. QED
    BY <1>2, <2>3 DEF Suspended, Found
<1>4. CASE isolates[c] \in Owned
  <2>1. c \in source.owner_ports
    BY <1>4 DEF IInv, Owners
  <2>2. c \in Locked.owner_ports
    BY <1>2, <2>1 DEF Found
  <2>3. QED
    BY <2>1, <2>2 DEF Suspended
<1>5. QED
  BY <1>3, <1>4

\* Whoever may replace the file holds the source.
LEMMA HoldSuspends ==
  ASSUME IInv, NEW c \in ports, isolates[c] \in {"holding", "owning"}
  PROVE  Suspended(source) /\ Suspended(Locked)
  BY HoldersSuspend DEF Held, Owned

\* A file that is replaced is nobody's: no session is open, and whatever text
\* was read is not of a generation the source will have when it is resumed.
LEMMA ReplaceStep == ASSUME IInv, NEW c \in Isolates, Replace(c) PROVE IInv' /\ TextsKept
<1>1. /\ c \in ports /\ isolates[c] \in {"holding", "owning"}
      /\ source.path \in Paths /\ calls_left > 0 /\ calls_left' = calls_left - 1
      /\ files' = [files EXCEPT ![source.path] = files[source.path] + 1]
      /\ UNCHANGED <<source, ports, isolates, scans, scans_left>>
  BY DEF Replace
<1>2. TypeOK'
  BY <1>1, SourceAssumption DEF IInv, TypeOK
<1>3. Counts' /\ Owners' /\ QuietIn(source)' /\ ScansEnded'
  BY <1>1 DEF IInv, Counts, Owners, OpenScans, Holders, QuietIn, Suspended, ScansEnded
<1>4. SessionsSound'
  <2>1. \A s \in Scanners : scans[s].at = "none"
    BY <1>1 DEF IInv, ScansEnded
  <2>2. Suspended(source)
    BY <1>1, HoldSuspends
  <2>3. SUFFICES ASSUME NEW s \in Scanners
                 PROVE  SessionOK(scans[s], s, source, files') /\ TextOK(scans[s].text, source, files')
    BY <1>1 DEF SessionsSound
  <2>4. SessionOK(scans[s], s, source, files')
    BY <2>1 DEF SessionOK
  <2>5. TextOK(scans[s].text, source, files')
    BY <2>2 DEF IInv, SessionsSound, TextOK
  <2>6. QED
    BY <2>4, <2>5
<1>5. TextsKept
  <2>1. Suspended(source)
    BY <1>1, HoldSuspends
  <2>2. QED
    BY <1>1, <2>1 DEF TextsKept, TextOK
<1>6. QED
  BY <1>2, <1>3, <1>4, <1>5 DEF IInv

\* The owner that exits is still in the source, until the next one reaps it.
LEMMA ExitStep == ASSUME IInv, NEW c \in Isolates, Exit(c) PROVE IInv' /\ TextsKept
<1>1. /\ ports' = ports \ {c} /\ calls_left > 0 /\ calls_left' = calls_left - 1
      /\ UNCHANGED <<source, isolates, scans, files, scans_left>>
  BY DEF Exit
<1>2. TypeOK'
  BY <1>1, SourceAssumption DEF IInv, TypeOK
<1>3. TextsKept
  BY <1>1 DEF TextsKept, TextOK, Suspended
<1>4. QED
  BY <1>1, <1>2, <1>3 DEF IInv, Counts, Owners, OpenScans, Holders, QuietIn, Suspended,
                   SessionsSound, ScansEnded

----------------------------------------------------------------------------
(* Readers.                                                                *)

ScanType == [at : {"none", "open", "reading"}, path : Paths \cup {NoPath},
             generation : Nat, version : Nat, text : Text \cup {NoText}]

\* Of a source that has the path, generation and holds of another one, what is
\* sound of the other's sessions is sound.
LEMMA SoundSame ==
  ASSUME NEW g \in Global, NEW h \in Global, NEW s \in Scanners, NEW scan, NEW f,
         h.path = g.path, h.generation = g.generation,
         h.suspend_depth = g.suspend_depth, h.owner_ports = g.owner_ports,
         s \in h.scan_validity => s \in g.scan_validity,
         SessionOK(scan, s, g, f), TextOK(scan.text, g, f)
  PROVE  SessionOK(scan, s, h, f) /\ TextOK(scan.text, h, f)
  BY DEF SessionOK, TextOK, Suspended

\* What is sound of a session once the mutex is taken.
LEMMA SoundFound ==
  ASSUME IInv, NEW L, Found(L), NEW s \in Scanners
  PROVE  SessionOK(scans[s], s, L, files) /\ TextOK(scans[s].text, L, files)
<1>1. source \in Global /\ L \in Global /\ Follows(source, L)
  BY DEF IInv, TypeOK, Found
<1>2. SessionOK(scans[s], s, source, files) /\ TextOK(scans[s].text, source, files)
  BY DEF IInv, SessionsSound
<1>3. TypeOK
  BY DEF IInv
<1>4. QED
  BY <1>1, <1>2, <1>3, ScanTypes, SoundFollows

\* A step of one session.
LEMMA ScanStep ==
  ASSUME IInv, NEW L, Found(L), NEW s \in Scanners, NEW scan \in ScanType,
         scans' = [scans EXCEPT ![s] = scan],
         UNCHANGED <<ports, isolates, files, calls_left>>, scans_left' \in 0 .. MaxScans,
         source' \in Global, source'.path = L.path, source'.generation = L.generation,
         source'.suspend_depth = L.suspend_depth, source'.owner_ports = L.owner_ports,
         source'.scan_validity \ {s} \subseteq L.scan_validity, QuietIn(source'),
         source'.scans = Cardinality(OpenScans'),
         SessionOK(scan, s, source', files), TextOK(scan.text, source', files),
         Suspended(L) => scan.at = "none" \/ scans[s].at # "none"
  PROVE  IInv' /\ TextsKept
<1>1. TypeOK'
  BY DEF IInv, TypeOK, ScanType
<1>2. \A i \in Scanners : scans'[i] = IF i = s THEN scan ELSE scans[i]
  BY DEF IInv, TypeOK
<1>3. Counts'
  BY DEF IInv, Counts, Holders, Found
<1>4. Owners'
  BY DEF IInv, Owners, Found
<1>5. SessionsSound'
  <2>1. SUFFICES ASSUME NEW i \in Scanners
                 PROVE  SessionOK(scans'[i], i, source', files) /\ TextOK(scans'[i].text, source', files)
    BY DEF SessionsSound
  <2>2. CASE i = s
    BY <1>2, <2>2
  <2>3. CASE i # s
    <3>1. SessionOK(scans[i], i, L, files) /\ TextOK(scans[i].text, L, files)
      BY SoundFound
    <3>2. L \in Global /\ (i \in source'.scan_validity => i \in L.scan_validity)
      BY <2>3 DEF Found
    <3>3. PICK h : h = source'
      OBVIOUS
    <3>4. SessionOK(scans[i], i, h, files) /\ TextOK(scans[i].text, h, files)
      BY <3>1, <3>2, <3>3, SoundSame
    <3>5. QED
      BY <1>2, <2>3, <3>3, <3>4
  <2>4. QED
    BY <2>2, <2>3
<1>6. ScansEnded'
  <2>1. SUFFICES ASSUME NEW c \in ports, isolates[c] \in {"holding", "owning"}, NEW i \in Scanners
                 PROVE  scans'[i].at = "none"
    BY DEF ScansEnded
  <2>2. Suspended(L)
    BY <2>1, HoldSuspends DEF Found
  <2>3. scans[i].at = "none" /\ scans[s].at = "none"
    BY <2>1 DEF IInv, ScansEnded
  <2>4. QED
    BY <1>2, <2>2, <2>3
<1>7. TextsKept
  BY TextsFollow DEF IInv, Found
<1>8. QED
  BY <1>1, <1>3, <1>4, <1>5, <1>6, <1>7 DEF IInv, QuietIn, Suspended

\* What a step may take from a session for granted.
LEMMA ScanIn == ASSUME IInv, NEW s \in Scanners PROVE scans[s] \in ScanType
  BY DEF IInv, TypeOK, ScanType

\* begin_scan counts one session more, of the generation the source has.
LEMMA BeginScanStep == ASSUME IInv, NEW s \in Scanners, begin_scan(s) PROVE IInv' /\ TextsKept
<1>1. PICK L : Found(L)
  BY LockFound
<1>2. /\ scans[s].at = "none" /\ scans_left > 0 /\ scans_left' = scans_left - 1
      /\ ~Suspended(L) /\ L.path # NoPath
      /\ source' = [L EXCEPT !.scans = L.scans + 1, !.scan_validity = L.scan_validity \cup {s}]
      /\ UNCHANGED <<ports, isolates, files, calls_left>>
  BY <1>1 DEF begin_scan, Found
<1>3. PICK scan : scan = [NoScan EXCEPT !.at = "open", !.path = L.path, !.generation = L.generation]
  OBVIOUS
<1>4. scans' = [scans EXCEPT ![s] = scan]
  BY <1>1, <1>3 DEF begin_scan, Found
<1>5. scan = [at |-> "open", path |-> L.path, generation |-> L.generation,
              version |-> 0, text |-> NoText]
  BY <1>3 DEF NoScan
<1>6. L \in Global /\ L.scans + 1 \in Nat /\ L.scan_validity \cup {s} \in SUBSET Scanners
  BY <1>1 DEF Found, Global
<1>7. scan \in ScanType
  BY <1>5, <1>6 DEF ScanType, Global
<1>8. /\ source' \in Global
      /\ source'.path = L.path /\ source'.generation = L.generation
      /\ source'.suspend_depth = L.suspend_depth /\ source'.owner_ports = L.owner_ports
      /\ source'.scans = L.scans + 1 /\ source'.scan_validity = L.scan_validity \cup {s}
  <2>1. PICK h : h = source'
    OBVIOUS
  <2>2. PICK n \in Nat, V \in SUBSET Scanners : n = L.scans + 1 /\ V = L.scan_validity \cup {s}
    BY <1>6
  <2>3. h = [L EXCEPT !.scans = n, !.scan_validity = V]
    BY <1>2, <2>1, <2>2
  <2>4. /\ h \in Global
        /\ h.path = L.path /\ h.generation = L.generation
        /\ h.suspend_depth = L.suspend_depth /\ h.owner_ports = L.owner_ports
        /\ h.scans = n /\ h.scan_validity = V
    <3>1. L \in Global
      BY <1>6
    <3>2. QED
      BY <2>3, <3>1 DEF Global
  <2>5. QED
    BY <2>1, <2>2, <2>4
<1>9. source'.scans = Cardinality(OpenScans')
  <2>1. TypeOK /\ scans[s].at = "none" /\ scan.at # "none"
    BY <1>2, <1>5 DEF IInv
  <2>2. Cardinality(OpenScans') = Cardinality(OpenScans) + 1
    BY <1>4, <2>1, ScansCount
  <2>3. QED
    BY <1>1, <1>8, <2>2 DEF IInv, Counts, Found
<1>10. QuietIn(source')
  BY <1>2, <1>8 DEF QuietIn, Suspended
<1>11. SessionOK(scan, s, source', files) /\ TextOK(scan.text, source', files)
  BY <1>2, <1>5, <1>6, <1>8 DEF SessionOK, TextOK, Global
<1>12. scans_left' \in 0 .. MaxScans
  BY <1>2, SourceAssumption DEF IInv, TypeOK
<1>13. source'.scan_validity \ {s} \subseteq L.scan_validity
  BY <1>8
<1>14. QED
  BY <1>1, <1>2, <1>4, <1>7, <1>8, <1>9, <1>10, <1>11, <1>12, <1>13, ScanStep

\* Of a step that leaves the source as it found it.
LEMMA FoundStep ==
  ASSUME IInv, NEW L, Found(L), source' = L, NEW s \in Scanners, NEW scan \in ScanType,
         scans' = [scans EXCEPT ![s] = scan],
         UNCHANGED <<ports, isolates, files, calls_left, scans_left>>,
         scans[s].at # "none", scan.at # "none",
         SessionOK(scan, s, L, files), TextOK(scan.text, L, files)
  PROVE  IInv' /\ TextsKept
<1>1. L \in Global /\ QuietIn(L) /\ L.scans = source.scans
  BY DEF Found, Follows
<1>2. OpenScans' = OpenScans
  BY ScansCount DEF IInv
<1>3. source'.scans = Cardinality(OpenScans')
  BY <1>1, <1>2 DEF IInv, Counts
<1>4. scans_left' \in 0 .. MaxScans
  BY DEF IInv, TypeOK
<1>5. /\ source' \in Global /\ source'.path = L.path /\ source'.generation = L.generation
      /\ source'.suspend_depth = L.suspend_depth /\ source'.owner_ports = L.owner_ports
      /\ source'.scan_validity \ {s} \subseteq L.scan_validity /\ QuietIn(source')
      /\ SessionOK(scan, s, source', files) /\ TextOK(scan.text, source', files)
  BY <1>1
<1>6. QED
  BY <1>3, <1>4, <1>5, ScanStep

\* A read starts only in a session that is still valid.
LEMMA ReadStep == ASSUME IInv, NEW s \in Scanners, Read(s) PROVE IInv' /\ TextsKept
<1>1. PICK L : Found(L)
  BY LockFound
<1>2. /\ scans[s].at = "open" /\ source' = L
      /\ UNCHANGED <<ports, isolates, files, calls_left, scans_left>>
  BY <1>1 DEF Read, Found
<1>3. PICK scan : scan = [scans[s] EXCEPT !.at = "reading", !.version = files[scans[s].path]]
  OBVIOUS
<1>4. scans' = [scans EXCEPT ![s] = scan]
  BY <1>3 DEF Read
<1>5. SessionOK(scans[s], s, L, files) /\ TextOK(scans[s].text, L, files)
  BY <1>1, SoundFound
<1>6. scans[s].path \in Paths
  BY <1>2, <1>5 DEF SessionOK
<1>7. files[scans[s].path] \in Nat
  BY <1>6 DEF IInv, TypeOK
<1>8. scans[s] \in ScanType
  BY ScanIn
<1>9. /\ scan \in ScanType
      /\ scan.at = "reading" /\ scan.version = files[scans[s].path]
      /\ scan.path = scans[s].path /\ scan.generation = scans[s].generation
      /\ scan.text = scans[s].text
  BY <1>3, <1>7, <1>8 DEF ScanType
<1>10. SessionOK(scan, s, L, files) /\ TextOK(scan.text, L, files)
  BY <1>2, <1>5, <1>9 DEF SessionOK
<1>11. QED
  BY <1>1, <1>2, <1>4, <1>9, <1>10, FoundStep

\* A read is given only if its session is still valid: its file was not replaced.
LEMMA ReadDoneStep == ASSUME IInv, NEW s \in Scanners, ReadDone(s) PROVE IInv' /\ TextsKept
<1>1. PICK L : Found(L)
  BY LockFound
<1>2. /\ scans[s].at = "reading" /\ source' = L /\ s \in L.scan_validity
      /\ UNCHANGED <<ports, isolates, files, calls_left, scans_left>>
  BY <1>1 DEF ReadDone, Found
<1>3. PICK text : text = [path |-> scans[s].path, version |-> scans[s].version,
                          generation |-> scans[s].generation]
  OBVIOUS
<1>4. PICK scan : scan = [scans[s] EXCEPT !.at = "open", !.text = text]
  OBVIOUS
<1>5. scans' = [scans EXCEPT ![s] = scan]
  BY <1>3, <1>4 DEF ReadDone
<1>6. SessionOK(scans[s], s, L, files)
  BY <1>1, SoundFound
<1>7. /\ scans[s].path \in Paths /\ scans[s].generation <= L.generation
      /\ scans[s].path = L.path /\ scans[s].version = files[scans[s].path]
  BY <1>2, <1>6 DEF SessionOK
<1>8. scans[s] \in ScanType
  BY ScanIn
<1>9. text \in Text
  BY <1>3, <1>7, <1>8 DEF Text, ScanType
<1>10. /\ scan \in ScanType /\ scan.at = "open"
       /\ scan.path = scans[s].path /\ scan.generation = scans[s].generation
       /\ scan.text = text
  BY <1>4, <1>8, <1>9 DEF ScanType
<1>11. SessionOK(scan, s, L, files)
  BY <1>7, <1>10 DEF SessionOK
<1>12. TextOK(scan.text, L, files)
  BY <1>3, <1>7, <1>10 DEF TextOK
<1>13. QED
  BY <1>1, <1>2, <1>5, <1>10, <1>11, <1>12, FoundStep

\* A read that fails leaves the session and its text.
LEMMA ReadFailsStep == ASSUME IInv, NEW s \in Scanners, ReadFails(s) PROVE IInv' /\ TextsKept
<1>1. PICK L : Found(L)
  BY LockFound
<1>2. /\ scans[s].at = "reading" /\ source' = L
      /\ UNCHANGED <<ports, isolates, files, calls_left, scans_left>>
  BY <1>1 DEF ReadFails, Found
<1>3. PICK scan : scan = [scans[s] EXCEPT !.at = "open"]
  OBVIOUS
<1>4. scans' = [scans EXCEPT ![s] = scan]
  BY <1>3 DEF ReadFails
<1>5. SessionOK(scans[s], s, L, files) /\ TextOK(scans[s].text, L, files)
  BY <1>1, SoundFound
<1>6. scans[s] \in ScanType
  BY ScanIn
<1>7. /\ scan \in ScanType /\ scan.at = "open"
      /\ scan.path = scans[s].path /\ scan.generation = scans[s].generation
      /\ scan.text = scans[s].text
  BY <1>3, <1>6 DEF ScanType
<1>8. SessionOK(scan, s, L, files) /\ TextOK(scan.text, L, files)
  BY <1>2, <1>5, <1>7 DEF SessionOK
<1>9. QED
  BY <1>1, <1>2, <1>4, <1>7, <1>8, FoundStep

\* Dropping a session counts one session less; its text stays with its reader.
LEMMA DropStep == ASSUME IInv, NEW s \in Scanners, Drop(s) PROVE IInv' /\ TextsKept
<1>1. PICK L : Found(L)
  BY LockFound
<1>2. /\ scans[s].at = "open"
      /\ source' = [L EXCEPT !.scans = L.scans - 1, !.scan_validity = L.scan_validity \ {s}]
      /\ UNCHANGED <<ports, isolates, files, calls_left, scans_left>>
  BY <1>1 DEF Drop, Found
<1>3. PICK scan : scan = [NoScan EXCEPT !.text = scans[s].text]
  OBVIOUS
<1>4. scans' = [scans EXCEPT ![s] = scan]
  BY <1>3 DEF Drop
<1>5. scan = [at |-> "none", path |-> NoPath, generation |-> 0, version |-> 0,
              text |-> scans[s].text]
  BY <1>3 DEF NoScan
<1>6. scan \in ScanType
  BY <1>5, ScanIn DEF ScanType
<1>7. Cardinality(OpenScans') = Cardinality(OpenScans) - 1 /\ Cardinality(OpenScans) \in Nat
  <2>1. TypeOK /\ scans[s].at # "none" /\ scan.at = "none"
    BY <1>2, <1>5 DEF IInv
  <2>2. QED
    BY <1>4, <2>1, ScansCount
<1>8. Cardinality(OpenScans) # 0
  <2>1. s \in OpenScans /\ IsFiniteSet(OpenScans)
    BY <1>2, SourceAssumption, FS_Subset DEF OpenScans
  <2>2. QED
    BY <2>1, FS_EmptySet
<1>9. /\ L \in Global /\ L.scans = Cardinality(OpenScans) /\ L.scans - 1 \in Nat
      /\ L.scan_validity \ {s} \in SUBSET Scanners
  BY <1>1, <1>7, <1>8 DEF Found, IInv, Counts, Global
<1>10. /\ source' \in Global
      /\ source'.path = L.path /\ source'.generation = L.generation
      /\ source'.suspend_depth = L.suspend_depth /\ source'.owner_ports = L.owner_ports
      /\ source'.scans = L.scans - 1 /\ source'.scan_validity = L.scan_validity \ {s}
      /\ QuietIn(source')
  <2>1. PICK h : h = source'
    OBVIOUS
  <2>2. PICK n \in Nat, V \in SUBSET Scanners : n = L.scans - 1 /\ V = L.scan_validity \ {s}
    BY <1>9
  <2>3. h = [L EXCEPT !.scans = n, !.scan_validity = V]
    BY <1>2, <2>1, <2>2
  <2>4. /\ h \in Global
        /\ h.path = L.path /\ h.generation = L.generation /\ h.store = L.store
        /\ h.suspend_depth = L.suspend_depth /\ h.owner_ports = L.owner_ports
        /\ h.scans = n /\ h.scan_validity = V
    <3>1. L \in Global
      BY <1>9
    <3>2. QED
      BY <2>3, <3>1 DEF Global
  <2>5. QuietIn(h)
    BY <1>1, <2>2, <2>4 DEF QuietIn, Suspended, Found, Follows
  <2>6. QED
    BY <2>1, <2>2, <2>4, <2>5
<1>11. SessionOK(scan, s, source', files)
  BY <1>5 DEF SessionOK
<1>12. TextOK(scan.text, source', files)
  <2>1. TextOK(scans[s].text, L, files)
    BY <1>1, SoundFound
  <2>2. QED
    BY <1>5, <1>10, <2>1 DEF TextOK, Suspended
<1>13. scans_left' \in 0 .. MaxScans /\ source'.scan_validity \ {s} \subseteq L.scan_validity
  BY <1>2, <1>10 DEF IInv, TypeOK
<1>14. source'.scans = Cardinality(OpenScans') /\ scan.at = "none"
  BY <1>5, <1>7, <1>9, <1>10
<1>15. QED
  BY <1>1, <1>2, <1>4, <1>6, <1>10, <1>11, <1>12, <1>13, <1>14, ScanStep

\* What changes the source alone, once the mutex is taken.
LEMMA SourceStep ==
  ASSUME IInv, calls_left' \in 0 .. MaxCalls,
         UNCHANGED <<ports, isolates, scans, files, scans_left>>,
         NEW L, Found(L), source' \in Global, Follows(L, source'),
         source'.scans = L.scans, source'.suspend_depth = L.suspend_depth,
         source'.owner_ports = L.owner_ports
  PROVE  IInv' /\ TextsKept
<1>1. Follows(source, source')
  <2>1. source \in Global /\ L \in Global /\ Follows(source, L)
    BY DEF IInv, TypeOK, Found
  <2>2. QED
    BY <2>1, FollowsTrans
<1>2. TypeOK'
  BY DEF IInv, TypeOK
<1>3. Counts' /\ Owners' /\ ScansEnded'
  BY DEF IInv, Counts, OpenScans, Holders, Owners, ScansEnded, Found
<1>4. SessionsSound'
  BY <1>1, SessionsKept DEF IInv
<1>5. QuietIn(source)'
  BY <1>1 DEF Follows, QuietIn, Suspended
<1>6. TextsKept
  BY <1>1, TextsFollow DEF IInv
<1>7. QED
  BY <1>2, <1>3, <1>4, <1>5, <1>6 DEF IInv

\* A window, or what happens to one, leaves isolates and sessions alone.
LEMMA WindowStep ==
  ASSUME IInv, Happens, NEW L, Found(L), source' \in Global, Follows(L, source'),
         source'.scans = L.scans, source'.suspend_depth = L.suspend_depth,
         source'.owner_ports = L.owner_ports
  PROVE  IInv' /\ TextsKept
<1>1. /\ calls_left' \in 0 .. MaxCalls
      /\ UNCHANGED <<ports, isolates, scans, files, scans_left>>
  BY SourceAssumption DEF Happens, IInv, TypeOK
<1>2. QED
  BY <1>1, SourceStep

\* A window opens the store only while nothing suspends the source.
LEMMA WithStoreStep == ASSUME IInv, with_store PROVE IInv' /\ TextsKept
<1>1. PICK L : Found(L)
  BY LockFound
<1>2. Happens /\ ~Suspended(L) /\ source' = [L EXCEPT !.store = TRUE]
  BY <1>1 DEF with_store, Found
<1>3. L \in Global /\ L.generation \in Nat
  BY <1>1 DEF Found, Global
<1>4. /\ source' \in Global /\ source'.path = L.path /\ source'.generation = L.generation
      /\ source'.scan_validity = L.scan_validity /\ source'.scans = L.scans
      /\ source'.suspend_depth = L.suspend_depth /\ source'.owner_ports = L.owner_ports
  BY <1>2, <1>3 DEF Global
<1>5. source'.generation >= L.generation
  BY <1>3, <1>4
<1>6. Follows(L, source')
  BY <1>2, <1>3, <1>4, <1>5, FollowsOpen
<1>7. QED
  BY <1>1, <1>2, <1>4, <1>6, WindowStep

\* A window that fails closes the store.
LEMMA WindowFailsStep == ASSUME IInv, WindowFails PROVE IInv' /\ TextsKept
<1>1. PICK L : Found(L)
  BY LockFound
<1>2. Happens /\ ~Suspended(L) /\ source' = drop_store(L)
  BY <1>1 DEF WindowFails, Found
<1>3. L \in Global
  BY <1>1 DEF Found
<1>4. /\ source' \in Global /\ source'.path = L.path /\ source'.generation >= L.generation
      /\ source'.scan_validity = {} /\ source'.scans = L.scans
      /\ source'.suspend_depth = L.suspend_depth /\ source'.owner_ports = L.owner_ports
  BY <1>2, <1>3, DropOK
<1>5. Follows(L, source')
  BY <1>2, <1>3, <1>4, FollowsOpen
<1>6. QED
  BY <1>1, <1>2, <1>4, <1>5, WindowStep

\* A failed probe only starts another generation.
LEMMA ProbeFailsStep == ASSUME IInv, ProbeFails PROVE IInv' /\ TextsKept
<1>1. PICK L : Found(L)
  BY LockFound
<1>2. Happens /\ source' = [L EXCEPT !.generation = L.generation + 1]
  BY <1>1 DEF ProbeFails, Found
<1>3. L \in Global /\ L.generation \in Nat /\ QuietIn(L)
  BY <1>1 DEF Found, Follows, Global
<1>4. PICK h : h = [L EXCEPT !.generation = L.generation + 1]
  OBVIOUS
<1>5. /\ h \in Global /\ h.path = L.path /\ h.generation = L.generation + 1
      /\ h.scan_validity = L.scan_validity /\ h.scans = L.scans /\ h.store = L.store
      /\ h.suspend_depth = L.suspend_depth /\ h.owner_ports = L.owner_ports
  BY <1>3, <1>4 DEF Global
<1>6. QuietIn(h)
  BY <1>3, <1>5 DEF QuietIn, Suspended
<1>7. Follows(L, h)
  BY <1>3, <1>5, <1>6 DEF Follows
<1>8. QED
  BY <1>1, <1>2, <1>4, <1>5, <1>7, WindowStep

----------------------------------------------------------------------------
(* The theorems.                                                           *)

\* The source begins open to all, with nothing read.
LEMMA InitIInv == ASSUME Init PROVE IInv
<1>1. TypeOK
  BY SourceAssumption DEF Init, TypeOK, Global, NoScan
<1>2. OpenScans = {} /\ Holders = {}
  BY DEF Init, OpenScans, Holders, Held, NoScan
<1>3. Counts
  BY <1>2, FS_EmptySet DEF Init, Counts
<1>4. Owners /\ ScansEnded /\ QuietIn(source)
  BY DEF Init, Owners, Owned, ScansEnded, QuietIn, Suspended
<1>5. SessionsSound
  BY DEF Init, SessionsSound, SessionOK, TextOK, NoScan
<1>6. QED
  BY <1>1, <1>3, <1>4, <1>5 DEF IInv

\* Every action keeps the invariant.
LEMMA NextIInv == ASSUME IInv, [Next]_vars PROVE IInv' /\ TextsKept
<1>1. CASE UNCHANGED vars
  BY <1>1 DEF vars, IInv, TypeOK, Counts, Owners, QuietIn, Suspended, SessionsSound, ScansEnded,
              OpenScans, Holders, TextsKept, TextOK
<1>2. ASSUME NEW c \in Isolates, App(c) PROVE IInv' /\ TextsKept
  BY <1>2, SuspendStep, SuspendOwnedStep, ResumeStep, ResumeOwnedStep, ReplaceStep, ExitStep,
     ConfigureStep DEF App
<1>3. ASSUME NEW c \in Isolates, Waited(c) PROVE IInv' /\ TextsKept
  BY <1>3, WaitedStep
<1>4. CASE with_store \/ WindowFails \/ ProbeFails
  BY <1>4, WithStoreStep, WindowFailsStep, ProbeFailsStep
<1>5. ASSUME NEW s \in Scanners, begin_scan(s) \/ Scan(s) PROVE IInv' /\ TextsKept
  BY <1>5, BeginScanStep, ReadStep, ReadDoneStep, ReadFailsStep, DropStep DEF Scan
<1>6. QED
  BY <1>1, <1>2, <1>3, <1>4, <1>5 DEF Next

\* The inductive invariant holds, for any isolates, scanners, paths and calls.
THEOREM Invariant == Spec => []IInv
  BY InitIInv, NextIInv, PTL DEF Spec

\* The state of the line source keeps its types (TypeOK).
THEOREM TypeCorrect == Spec => []TypeOK
<1>1. IInv => TypeOK
  BY DEF IInv
<1>2. QED
  BY <1>1, Invariant, PTL

\* wait_for_scans waits for the sessions, and the hold keeps others from opening
\* the file (ReleasedWhileHeld).
LEMMA HoldReleases == ASSUME IInv PROVE ReleasedWhileHeld
BY HoldSuspends DEF IInv, ReleasedWhileHeld, ScansEnded, QuietIn

\* While an isolate holds the source no connection has its file open, whoever
\* else suspends, resumes, configures or exits (ReleasedWhileHeld).
THEOREM ReleasedToHolder == Spec => []ReleasedWhileHeld
<1>1. IInv => ReleasedWhileHeld
  BY HoldReleases
<1>2. QED
  BY <1>1, Invariant, PTL

\* A suspension that ends, and a new path, begin another generation, so text of
\* the generation that is found is current (TextIsCurrent).
LEMMA TextCurrent == ASSUME IInv PROVE TextIsCurrent
<1>1. SUFFICES ASSUME NEW s \in Scanners, scans[s].text # NoText, ~Suspended(Locked),
                      scans[s].text.generation = Locked.generation
               PROVE  /\ scans[s].text.path = Locked.path
                      /\ scans[s].text.version = files[scans[s].text.path]
  BY DEF TextIsCurrent
<1>2. PICK L : Found(L)
  BY LockFound
<1>3. TextOK(scans[s].text, L, files)
  BY <1>2, SoundFound
<1>4. QED
  BY <1>1, <1>2, <1>3 DEF TextOK, Found

\* Text of the generation the source has is what its file says, whatever
\* isolates did to the source since it was read (TextIsCurrent).
THEOREM Current == Spec => []TextIsCurrent
<1>1. IInv => TextIsCurrent
  BY TextCurrent
<1>2. QED
  BY <1>1, Invariant, PTL

----------------------------------------------------------------------------
(* What a suspension waits for ends.                                       *)

\* The steps a session has yet to take when it may read no other book.
ScanYet(scan) == CASE scan.at = "reading" -> 2 [] scan.at = "open" -> 1 [] OTHER -> 0

\* An isolate that lives is suspending the source or holds it.
SomeoneHolds == \E c \in ports : isolates[c] \in Held \cup Owned

\* While somebody does, no session begins, and every step of one brings it
\* closer to its end.
ScansEnd ==
  SomeoneHolds => \A s \in Scanners :
    /\ ScanYet(scans'[s]) <= ScanYet(scans[s])
    /\ Scan(s) => ScanYet(scans'[s]) < ScanYet(scans[s])

\* Who waits for the sessions may go on when none is open.
WaitersGoOn ==
  (\A s \in Scanners : scans[s].at = "none") => source.scans = 0

\* What a step of a session does to what it has yet to do.
LEMMA ScanFewer ==
  ASSUME IInv, SomeoneHolds, NEW s \in Scanners, Scan(s)
  PROVE  /\ ScanYet(scans'[s]) < ScanYet(scans[s])
         /\ \A i \in Scanners \ {s} : scans'[i] = scans[i]
<1>1. scans[s] \in ScanType /\ Suspended(Locked) /\ DOMAIN scans = Scanners
  BY ScanIn, HoldersSuspend DEF SomeoneHolds, IInv, TypeOK
<1>2. ~Read(s)
  BY <1>1 DEF Read
<1>3. CASE ReadDone(s) \/ ReadFails(s)
  <2>1. scans[s].at = "reading"
    BY <1>3 DEF ReadDone, ReadFails
  <2>2. scans'[s].at = "open" /\ \A i \in Scanners \ {s} : scans'[i] = scans[i]
    <3>1. CASE ReadFails(s)
      BY <1>1, <3>1 DEF ReadFails, ScanType
    <3>2. CASE ReadDone(s)
      <4>1. PICK text : text = [path |-> scans[s].path, version |-> scans[s].version,
                                generation |-> scans[s].generation]
        OBVIOUS
      <4>2. scans' = [scans EXCEPT ![s].at = "open", ![s].text = text]
        BY <3>2, <4>1 DEF ReadDone
      <4>3. QED
        BY <1>1, <4>2 DEF ScanType
    <3>3. QED
      BY <1>3, <3>1, <3>2
  <2>3. QED
    BY <2>1, <2>2 DEF ScanYet
<1>4. CASE Drop(s)
  <2>1. scans[s].at = "open"
    BY <1>4 DEF Drop
  <2>2. PICK scan : scan = [NoScan EXCEPT !.text = scans[s].text]
    OBVIOUS
  <2>3. scan.at = "none" /\ scans' = [scans EXCEPT ![s] = scan]
    BY <1>4, <2>2 DEF Drop, NoScan
  <2>4. scans'[s].at = "none" /\ \A i \in Scanners \ {s} : scans'[i] = scans[i]
    BY <1>1, <2>3
  <2>5. QED
    BY <2>1, <2>4 DEF ScanYet
<1>5. QED
  BY <1>2, <1>3, <1>4 DEF Scan

\* While the source is held the sessions come closer to their end.
LEMMA HeldScansEnd ==
  ASSUME IInv, [Next]_vars
  PROVE  ScansEnd
<1> SUFFICES ASSUME SomeoneHolds, NEW s \in Scanners
             PROVE  /\ ScanYet(scans'[s]) <= ScanYet(scans[s])
                    /\ Scan(s) => ScanYet(scans'[s]) < ScanYet(scans[s])
  BY DEF ScansEnd
<1>1. ScanYet(scans[s]) \in 0 .. 2 /\ Suspended(Locked)
  BY HoldersSuspend DEF ScanYet, SomeoneHolds
<1>2. CASE Scan(s)
  <2>1. ScanYet(scans'[s]) < ScanYet(scans[s]) /\ ScanYet(scans'[s]) \in 0 .. 2
    BY <1>2, ScanFewer DEF ScanYet
  <2>2. QED
    BY <1>1, <2>1
<1>3. CASE ~Scan(s)
  <2>1. scans'[s] = scans[s]
    <3>1. ASSUME NEW i \in Scanners, Scan(i) PROVE scans'[s] = scans[s]
      BY <1>3, <3>1, ScanFewer
    <3>2. ASSUME NEW i \in Scanners, begin_scan(i) PROVE FALSE
      BY <1>1, <3>2 DEF begin_scan
    <3>3. ASSUME NEW c \in Isolates, App(c) \/ Waited(c) PROVE scans' = scans
      BY <3>3 DEF App, Waited, suspend, suspend_owned, resume, resume_owned, Replace, Exit,
                  configure, Begins
    <3>4. CASE with_store \/ WindowFails \/ ProbeFails
      BY <3>4 DEF with_store, WindowFails, ProbeFails, Happens
    <3>5. CASE UNCHANGED vars
      BY <3>5 DEF vars
    <3>6. QED
      BY <3>1, <3>2, <3>3, <3>4, <3>5 DEF Next
  <2>2. QED
    BY <1>1, <1>3, <2>1
<1>4. QED
  BY <1>2, <1>3

\* A suspension waits for one book at most: from the moment an isolate begins
\* to suspend the source until it lets go of it or exits, no session begins and
\* every session has two steps left at most, whatever the other isolates do
\* (Global::begin_scan, ScanSession::read, wait_for_scans: "it closes within
\* one book of a suspension").
THEOREM SessionsEnd == Spec => [][ScansEnd]_vars
<1>1. IInv /\ [Next]_vars => ScansEnd
  BY HeldScansEnd
<1>2. QED
  BY <1>1, Invariant, PTL DEF Spec

\* With no session open the count wait_for_scans waits on is zero, so the
\* isolates that wait in it may go on.
THEOREM Wakes == Spec => []WaitersGoOn
<1>1. ASSUME IInv PROVE WaitersGoOn
  <2> SUFFICES ASSUME \A s \in Scanners : scans[s].at = "none"
               PROVE  source.scans = 0
    BY DEF WaitersGoOn
  <2>1. OpenScans = {}
    BY DEF OpenScans
  <2>2. QED
    BY <1>1, <2>1, FS_EmptySet DEF IInv, Counts
<1>2. QED
  BY <1>1, Invariant, PTL
=============================================================================
