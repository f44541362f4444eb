--------------------------- MODULE VectorSetProofs ---------------------------
(* Theorems about the vector set: no cleanup takes the files of an install     *)
(* that runs, one that is over has cleared what lay there, nothing but a dead  *)
(* process and a failed removal leaves any, and no session or view goes back.  *)
EXTENDS VectorSet, TLAPS

\* Where a call can be, and what the variables are.
Steps == {"idle", "listing", "listing_segments", "cleaning", "trying", "removing", "unmarking",
          "creating", "locking", "expanding", "writing", "waiting", "installing", "dropping",
          "unlocking", "reloading", "loading", "swapping", "returning", "opening", "storing"}
Types ==
  /\ generation \in 1 .. MaxGeneration
  /\ set_lock \in Calls \cup {NoCall}
  /\ locks \subseteq Names /\ segments \subseteq Names /\ old \subseteq Names
  /\ held \in [Names -> Calls \cup {NoCall}]
  /\ work \in [Processes -> Calls \cup {NoCall}]
  /\ session \in [Processes -> Nat] /\ view \in [Processes -> Nat] /\ planning \in [Processes -> Nat]
  /\ pc \in [Calls -> Steps] /\ name \in [Calls -> 0 .. MaxNames]
  /\ todo \in [Calls -> SUBSET Names] /\ strays \in [Calls -> SUBSET Names]
  /\ attempts \in [Calls -> Nat] /\ installed \in [Calls -> Nat] /\ loaded \in [Calls -> Nat]
  /\ names_left \in 0 .. MaxNames

Owning == {"locking", "expanding", "writing", "waiting", "installing", "dropping", "unlocking"}
Cleaning == {"trying", "removing", "unmarking"}
Installing == Owning \cup Cleaning
              \cup {"listing", "listing_segments", "cleaning", "creating", "reloading", "loading",
                    "swapping"}
Owns(c, n) == pc[c] \in Owning /\ name[c] = n

\* A call names the expansion it makes or cleans, and only while it does.
Named ==
  \A c \in Calls :
    /\ name[c] # None => pc[c] \in Owning \cup Cleaning
    /\ pc[c] \in (Owning \cup Cleaning) \ {"waiting", "installing"} => name[c] # None

\* Names not begun name nothing yet.
FreshNames ==
  /\ \A n \in Names : n <= names_left =>
       n \notin locks /\ n \notin segments /\ n \notin old /\ held[n] = NoCall
  /\ \A c \in Calls : /\ name[c] # None => name[c] > names_left
                      /\ \A n \in todo[c] \cup strays[c] : n > names_left

\* An expansion has one maker.
OneMaker == \A c, d \in Calls : \A n \in Names : Owns(c, n) /\ Owns(d, n) => c = d

\* From the moment it has locked its file, a call holds it until it is done.
Holding ==
  /\ \A c \in Calls : pc[c] \in {"removing", "unmarking"} => Holder(c) = c
  /\ \A c \in Calls : pc[c] \in Owning \ {"locking"} /\ name[c] # None =>
       Holder(c) = c /\ name[c] \in locks
  /\ \A n \in Names : held[n] # NoCall =>
       name[held[n]] = n /\ pc[held[n]] \notin {"trying", "locking"}

\* A segment is there from when it is written until it is installed or removed,
\* and after that if it could not be removed.
Segments ==
  \A c \in Calls : name[c] # None =>
    /\ pc[c] \in {"writing", "waiting", "installing"} => name[c] \in segments
    /\ pc[c] \in {"locking", "expanding"} => name[c] \notin segments
    /\ pc[c] \in {"unlocking", "unmarking"} /\ name[c] \in segments => name[c] \in unremoved

\* An hour is longer than the making of an expansion: what is old has no maker.
Aged == \A c \in Calls : \A n \in old : ~Owns(c, n)

\* What is there has a maker, or had one that died, or could not be removed.
Left ==
  \A n \in locks \cup segments : n \in abandoned \cup unremoved \/ \E c \in Calls : Owns(c, n)

\* The call that works on the set in a process is the one at its steps; the
\* sidecar's lock is held while it is used.
OneWorker ==
  /\ \A c \in Calls : pc[c] \in Installing \/ installed[c] # None => work[ProcessOf(c)] = c
  /\ set_lock # NoCall => pc[set_lock] \in {"installing", "opening"}

\* Nothing is of a generation there is not yet, and what a reload loaded is no
\* older than what the session serves.
Generations ==
  /\ \A p \in Processes : session[p] <= generation /\ view[p] <= generation /\ planning[p] <= generation
  /\ \A c \in Calls : loaded[c] <= generation
  /\ \A c \in Calls : pc[c] \in {"loading", "swapping"} => session[ProcessOf(c)] # None
  /\ \A c \in Calls : pc[c] = "swapping" => session[ProcessOf(c)] <= loaded[c]

\* What the files and the calls are to each other, and all of it.
FilesInv ==
  Named /\ FreshNames /\ OneMaker /\ Holding /\ Segments /\ Aged /\ SegmentMarked /\ Left
IInv == Types /\ FilesInv /\ OneWorker /\ Generations

----------------------------------------------------------------------------
(* Steps that leave the files alone.                                        *)

QuietSteps == {<<"expanding", "unlocking">>, <<"writing", "dropping">>, <<"writing", "waiting">>,
               <<"waiting", "installing">>, <<"waiting", "dropping">>, <<"installing", "dropping">>}

\* A call that goes on without a change to the files keeps what the files and
\* the calls are to each other, if it keeps its expansion for as long as it
\* names it.
LEMMA QuietStep ==
  ASSUME Types, FilesInv, NEW c \in Calls, NEW to \in Steps, pc' = [pc EXCEPT ![c] = to],
         UNCHANGED <<locks, segments, old, held, name, names_left, abandoned, unremoved>>,
         name[c] # None => <<pc[c], to>> \in QuietSteps,
         name[c] = None => to \notin (Owning \cup Cleaning) \ {"waiting", "installing"},
         \A d \in Calls : todo'[d] \cup strays'[d] \subseteq todo[d] \cup strays[d] \cup locks \cup segments
  PROVE  FilesInv'
<1>0. /\ Types /\ Named /\ FreshNames /\ OneMaker /\ Holding /\ Segments /\ Aged /\ SegmentMarked /\ Left
      /\ name[c] # None => /\ pc[c] \in Owning \ {"locking"} /\ to \in Owning \ {"locking", "expanding"}
                           /\ to \in {"waiting", "installing"} => pc[c] \in {"writing", "waiting"}
                           /\ to = "unlocking" => pc[c] = "expanding"
  BY DEF FilesInv, QuietSteps, Owning
<1>1. /\ pc'[c] = to /\ \A d \in Calls : d # c => pc'[d] = pc[d]
      /\ UNCHANGED <<locks, segments, old, held, name, names_left, abandoned, unremoved>>
  BY <1>0 DEF Types
<1>2. Named'
  BY <1>0, <1>1 DEF Named, Owning, Cleaning
<1>3. FreshNames'
  <2>1. SUFFICES ASSUME NEW d \in Calls, NEW n \in todo'[d] \cup strays'[d]
                 PROVE  n > names_left
    BY <1>0, <1>1 DEF FreshNames
  <2>2. CASE n \in todo[d] \cup strays[d]
    BY <1>0, <2>2 DEF FreshNames
  <2>3. CASE n \in locks \cup segments
    <3>1. n \in Names /\ ~(n <= names_left)
      BY <1>0, <2>3 DEF FreshNames, Types
    <3>2. n \in Nat /\ names_left \in Nat
      BY <1>0, <3>1 DEF Types, Names
    <3>3. QED
      BY <3>1, <3>2
  <2>4. QED
    BY <2>2, <2>3
<1>4. \A d \in Calls : name[d] # None => (pc'[d] \in Owning <=> pc[d] \in Owning)
  BY <1>0, <1>1
<1>5. OneMaker'
  <2>1. SUFFICES ASSUME NEW d \in Calls, NEW e \in Calls, NEW n \in Names, Owns(d, n)', Owns(e, n)'
                 PROVE  d = e
    BY DEF OneMaker
  <2>2. name[d] # None /\ name[e] # None
    BY <2>1, <1>1, VectorSetAssumption DEF Owns, None, Names
  <2>3. QED
    BY <1>0, <1>1, <1>4, <2>1, <2>2 DEF OneMaker, Owns
<1>6. Holding'
  <2>1. \A d \in Calls : pc'[d] \in {"removing", "unmarking"} => Holder(d) = d
    <3>1. \A d \in Calls : pc'[d] \in {"removing", "unmarking"} => pc[d] \in {"removing", "unmarking"}
      BY <1>0, <1>1 DEF Owning, Cleaning
    <3>2. QED
      BY <1>0, <3>1 DEF Holding
  <2>2. \A d \in Calls : pc'[d] \in Owning \ {"locking"} /\ name[d] # None =>
          Holder(d) = d /\ name[d] \in locks
    <3>1. \A d \in Calls : pc'[d] \in Owning \ {"locking"} /\ name[d] # None => pc[d] \in Owning \ {"locking"}
      BY <1>0, <1>1
    <3>2. QED
      BY <1>0, <3>1 DEF Holding
  <2>3. \A n \in Names : held[n] # NoCall =>
          name[held[n]] = n /\ pc'[held[n]] \notin {"trying", "locking"}
    <3>1. SUFFICES ASSUME NEW n \in Names, held[n] # NoCall
                   PROVE  name[held[n]] = n /\ pc'[held[n]] \notin {"trying", "locking"}
      OBVIOUS
    <3>2. /\ held[n] \in Calls /\ name[held[n]] = n
          /\ pc[held[n]] \notin {"trying", "locking"}
      BY <1>0, <3>1 DEF Types, Holding
    <3>3. name[held[n]] # None
      BY <3>2, VectorSetAssumption DEF None, Names
    <3>4. to \notin {"trying", "locking"} \/ held[n] # c
      BY <1>0, <3>3 DEF Owning, Cleaning
    <3>5. QED
      BY <1>1, <3>2, <3>4
  <2>4. QED
    BY <2>1, <2>2, <2>3, <1>1 DEF Holding, Holder
<1>7. Segments'
  <2>1. \A d \in Calls : name[d] # None =>
          /\ pc'[d] \in {"writing", "waiting", "installing"} => pc[d] \in {"writing", "waiting", "installing"}
          /\ pc'[d] \in {"locking", "expanding"} => pc[d] \in {"locking", "expanding"}
          /\ pc'[d] \in {"unlocking", "unmarking"} => pc[d] \in {"expanding", "unlocking", "unmarking"}
    BY <1>0, <1>1 DEF QuietSteps, Owning
  <2>2. QED
    BY <1>0, <1>1, <2>1 DEF Segments
<1>8. SegmentMarked'
  BY <1>0, <1>1 DEF SegmentMarked
<1>9. Left'
  <2>1. \A d \in Calls, n \in Names : Owns(d, n) => Owns(d, n)'
    BY <1>0, <1>1, <1>4, VectorSetAssumption DEF Owns, None, Names
  <2>2. QED
    BY <1>0, <1>1, <2>1 DEF Left, Types
<1>10. Aged'
  <2>1. SUFFICES ASSUME NEW d \in Calls, NEW n \in old, Owns(d, n)' PROVE FALSE
    BY <1>1 DEF Aged
  <2>2. name[d] = n /\ n # None
    BY <1>0, <1>1, <2>1, VectorSetAssumption DEF Types, Owns, None, Names
  <2>3. QED
    BY <1>0, <1>4, <2>1, <2>2 DEF Aged, Owns
<1>11. QED
  BY <1>2, <1>3, <1>5, <1>6, <1>7, <1>8, <1>9, <1>10 DEF FilesInv

----------------------------------------------------------------------------
\* A name is begun or not.
LEMMA FreshOrNot == Types => \A n \in Names : n > names_left => ~(n <= names_left)
<1>1. SUFFICES ASSUME names_left \in 0 .. MaxNames
               PROVE  \A n \in Names : n > names_left => ~(n <= names_left)
  BY DEF Types
<1>2. names_left \in Nat /\ Names \subseteq Nat
  BY <1>1 DEF Names
<1>3. QED
  BY <1>2

\* What a call names is the name of an expansion.
LEMMA NamesOfCalls == Types => \A d \in Calls : name[d] # None => name[d] \in Names
<1>1. SUFFICES ASSUME name \in [Calls -> 0 .. MaxNames], NEW d \in Calls, name[d] # None
               PROVE  name[d] \in Names
  BY DEF Types
<1>2. name[d] \in 0 .. MaxNames
  BY <1>1
<1>3. QED
  BY <1>1, <1>2 DEF None, Names

\* A call that goes on at its work keeps it to itself.
LEMMA WorkingStep ==
  ASSUME Types, OneWorker, NEW c \in Calls, NEW to, pc' = [pc EXCEPT ![c] = to],
         UNCHANGED <<work, set_lock, installed>>, pc[c] \in Installing \ {"installing"}
  PROVE  OneWorker'
<1> USE VectorSetAssumption
<1>1. \A d \in Calls : d # c => pc'[d] = pc[d]
  BY DEF Types
<1>2. \A d \in Calls : pc'[d] \in Installing \/ installed[d] # None => work[ProcessOf(d)] = d
  BY <1>1 DEF OneWorker
<1>3. set_lock # NoCall => pc'[set_lock] \in {"installing", "opening"}
  <2>1. pc[c] \notin {"installing", "opening"}
    BY DEF Installing, Owning, Cleaning
  <2>2. set_lock \in Calls \cup {NoCall}
    BY DEF Types
  <2>3. QED
    BY <1>1, <2>1, <2>2 DEF OneWorker
<1>4. QED
  BY <1>2, <1>3 DEF OneWorker

\* Taking the set for a process (VectorSetWork::take) starts a call that has no expansion.
LEMMA TakeKeeps ==
  ASSUME IInv, NEW c \in Calls, NEW compressed \in BOOLEAN, take(c, compressed)
  PROVE  IInv'
<1> USE VectorSetAssumption
<1>0. /\ Types /\ FilesInv /\ OneWorker /\ Generations
      /\ Named /\ FreshNames /\ OneMaker /\ Holding /\ Segments /\ Aged /\ SegmentMarked /\ Left
  BY DEF IInv, FilesInv
<1>1. CASE compressed
  <2>1. /\ pc[c] = "idle" /\ work[ProcessOf(c)] = NoCall
        /\ work' = [work EXCEPT ![ProcessOf(c)] = c]
        /\ pc' = [pc EXCEPT ![c] = "listing"]
        /\ UNCHANGED <<generation, set_lock, locks, segments, held, session, view, planning,
                       name, todo, strays, attempts, installed, loaded, names_left, abandoned,
                       old, unremoved>>
    BY <1>1 DEF take, Begins, Goes, incoming, disk, memory, locals, lists, bounds, removals
  <2>2. FilesInv'
    <3>1. name[c] # None => <<pc[c], pc'[c]>> \in QuietSteps
      BY <1>1, <1>0, <2>1 DEF Types, Named, QuietSteps, Owning, Cleaning, None
    <3>2. name[c] = None => pc'[c] \notin (Owning \cup Cleaning) \ {"waiting", "installing"}
      BY <1>1, <1>0, <2>1 DEF Types, Named, Owning, Cleaning, None
    <3>3. \A d \in Calls : todo'[d] \cup strays'[d] \subseteq todo[d] \cup strays[d] \cup locks \cup segments
      BY <1>0, <2>1 DEF Types
    <3>4. pc'[c] \in Steps /\ pc' = [pc EXCEPT ![c] = pc'[c]]
      BY <1>0, <2>1 DEF Types, Steps
    <3>5. QED
      BY <1>0, <3>1, <3>2, <3>3, <3>4, <2>1, QuietStep
  <2>3. OneWorker'
    BY <1>1, <1>0, <2>1 DEF Types, OneWorker, Owning, Cleaning, Installing, None, Names
  <2>4. Generations'
    BY <1>1, <1>0, <2>1 DEF Types, Generations, OneWorker, Owning, Cleaning, Installing,
                            None, Names
  <2>5. Types'
    <3>1. pc' \in [Calls -> Steps]
      BY <1>1, <1>0, <2>1 DEF Types, Steps
    <3>2. generation \in Nat
      BY <1>0 DEF Types
    <3>3. QED
      BY <1>1, <1>0, <2>1, <3>1, <3>2 DEF Types, None
  <2>6. QED
    BY <2>2, <2>3, <2>4, <2>5 DEF IInv, FilesInv
<1>2. CASE ~compressed
  <2>1. /\ pc[c] = "idle" /\ work[ProcessOf(c)] = NoCall
        /\ work' = [work EXCEPT ![ProcessOf(c)] = c]
        /\ pc' = [pc EXCEPT ![c] = "waiting"]
        /\ UNCHANGED <<generation, set_lock, locks, segments, held, session, view, planning,
                       name, todo, strays, attempts, installed, loaded, names_left, abandoned,
                       old, unremoved>>
    BY <1>2 DEF take, Begins, Goes, incoming, disk, memory, locals, lists, bounds, removals
  <2>2. FilesInv'
    <3>1. name[c] # None => <<pc[c], pc'[c]>> \in QuietSteps
      BY <1>2, <1>0, <2>1 DEF Types, Named, QuietSteps, Owning, Cleaning, None
    <3>2. name[c] = None => pc'[c] \notin (Owning \cup Cleaning) \ {"waiting", "installing"}
      BY <1>2, <1>0, <2>1 DEF Types, Named, Owning, Cleaning, None
    <3>3. \A d \in Calls : todo'[d] \cup strays'[d] \subseteq todo[d] \cup strays[d] \cup locks \cup segments
      BY <1>0, <2>1 DEF Types
    <3>4. pc'[c] \in Steps /\ pc' = [pc EXCEPT ![c] = pc'[c]]
      BY <1>0, <2>1 DEF Types, Steps
    <3>5. QED
      BY <1>0, <3>1, <3>2, <3>3, <3>4, <2>1, QuietStep
  <2>3. OneWorker'
    BY <1>2, <1>0, <2>1 DEF Types, OneWorker, Owning, Cleaning, Installing, None, Names
  <2>4. Generations'
    BY <1>2, <1>0, <2>1 DEF Types, Generations, OneWorker, Owning, Cleaning, Installing,
                            None, Names
  <2>5. Types'
    <3>1. pc' \in [Calls -> Steps]
      BY <1>2, <1>0, <2>1 DEF Types, Steps
    <3>2. generation \in Nat
      BY <1>0 DEF Types
    <3>3. QED
      BY <1>2, <1>0, <2>1, <3>1, <3>2 DEF Types, None
  <2>6. QED
    BY <2>2, <2>3, <2>4, <2>5 DEF IInv, FilesInv
<1>3. QED
  BY <1>1, <1>2 DEF take, Begins, Goes, incoming, disk

\* Listing what earlier expansions left names only expansions that were begun.
LEMMA ListKeeps ==
  ASSUME IInv, NEW c \in Calls, List(c)
  PROVE  IInv'
<1> USE VectorSetAssumption
<1>0. /\ Types /\ FilesInv /\ OneWorker /\ Generations
      /\ Named /\ FreshNames /\ OneMaker /\ Holding /\ Segments /\ Aged /\ SegmentMarked /\ Left
  BY DEF IInv, FilesInv
<1>1. /\ pc[c] = "listing"
      /\ pc' = [pc EXCEPT ![c] = "listing_segments"]
      /\ todo' = [todo EXCEPT ![c] = locks]
      /\ UNCHANGED <<generation, set_lock, locks, segments, old, held, work, session, view,
                     planning, name, strays, attempts, installed, loaded, names_left,
                     abandoned, unremoved>>
  BY DEF List, Goes, incoming, disk, memory, locals, lists, bounds, removals
<1>2. FilesInv'
  <2>1. name[c] # None => <<pc[c], pc'[c]>> \in QuietSteps
    BY <1>0, <1>1 DEF Types, Named, QuietSteps, Owning, Cleaning, None
  <2>2. name[c] = None => pc'[c] \notin (Owning \cup Cleaning) \ {"waiting", "installing"}
    BY <1>0, <1>1 DEF Types, Named, Owning, Cleaning, None
  <2>3. \A d \in Calls : todo'[d] \cup strays'[d] \subseteq todo[d] \cup strays[d] \cup locks \cup segments
    BY <1>0, <1>1 DEF Types
  <2>4. pc'[c] \in Steps /\ pc' = [pc EXCEPT ![c] = pc'[c]]
    BY <1>0, <1>1 DEF Types, Steps
  <2>5. QED
    BY <1>0, <2>1, <2>2, <2>3, <2>4, <1>1, QuietStep
<1>3. OneWorker'
  BY <1>0, <1>1 DEF Types, OneWorker, Owning, Cleaning, Installing, None, Names
<1>4. Generations'
  BY <1>0, <1>1 DEF Types, Generations, OneWorker, Owning, Cleaning, Installing, None, Names
<1>5. Types'
  <2>1. pc' \in [Calls -> Steps]
    BY <1>0, <1>1 DEF Types, Steps
  <2>2. generation \in Nat
    BY <1>0 DEF Types
  <2>3. QED
    BY <1>0, <1>1, <2>1, <2>2 DEF Types, None
<1>6. QED
  BY <1>2, <1>3, <1>4, <1>5 DEF IInv, FilesInv

\* So does listing the segments without lock files.
LEMMA ListSegmentsKeeps ==
  ASSUME IInv, NEW c \in Calls, ListSegments(c)
  PROVE  IInv'
<1> USE VectorSetAssumption
<1>0. /\ Types /\ FilesInv /\ OneWorker /\ Generations
      /\ Named /\ FreshNames /\ OneMaker /\ Holding /\ Segments /\ Aged /\ SegmentMarked /\ Left
  BY DEF IInv, FilesInv
<1>1. /\ pc[c] = "listing_segments"
      /\ pc' = [pc EXCEPT ![c] = "cleaning"]
      /\ strays' = [strays EXCEPT ![c] = segments \ todo[c]]
      /\ UNCHANGED <<generation, set_lock, locks, segments, old, held, work, session, view,
                     planning, name, todo, attempts, installed, loaded, names_left,
                     abandoned, unremoved>>
  BY DEF ListSegments, Goes, incoming, disk, memory, locals, lists, bounds, removals
<1>2. FilesInv'
  <2>1. name[c] # None => <<pc[c], pc'[c]>> \in QuietSteps
    BY <1>0, <1>1 DEF Types, Named, QuietSteps, Owning, Cleaning, None
  <2>2. name[c] = None => pc'[c] \notin (Owning \cup Cleaning) \ {"waiting", "installing"}
    BY <1>0, <1>1 DEF Types, Named, Owning, Cleaning, None
  <2>3. \A d \in Calls : todo'[d] \cup strays'[d] \subseteq todo[d] \cup strays[d] \cup locks \cup segments
    BY <1>0, <1>1 DEF Types
  <2>4. pc'[c] \in Steps /\ pc' = [pc EXCEPT ![c] = pc'[c]]
    BY <1>0, <1>1 DEF Types, Steps
  <2>5. QED
    BY <1>0, <2>1, <2>2, <2>3, <2>4, <1>1, QuietStep
<1>3. OneWorker'
  BY <1>0, <1>1 DEF Types, OneWorker, Owning, Cleaning, Installing, None, Names
<1>4. Generations'
  BY <1>0, <1>1 DEF Types, Generations, OneWorker, Owning, Cleaning, Installing, None, Names
<1>5. Types'
  <2>1. pc' \in [Calls -> Steps]
    BY <1>0, <1>1 DEF Types, Steps
  <2>2. generation \in Nat
    BY <1>0 DEF Types
  <2>3. QED
    BY <1>0, <1>1, <2>1, <2>2 DEF Types, None
<1>6. QED
  BY <1>2, <1>3, <1>4, <1>5 DEF IInv, FilesInv

\* A folder that is not listed is not cleaned, and perhaps not installed to.
LEMMA ListFailsKeeps ==
  ASSUME IInv, NEW c \in Calls, ListFails(c)
  PROVE  IInv'
<1> USE VectorSetAssumption
<1>0. /\ Types /\ FilesInv /\ OneWorker /\ Generations
      /\ Named /\ FreshNames /\ OneMaker /\ Holding /\ Segments /\ Aged /\ SegmentMarked /\ Left
  BY DEF IInv, FilesInv
<1>1. CASE Goes(c, "listing", "returning")
  <2>1. /\ pc[c] = "listing"
        /\ pc' = [pc EXCEPT ![c] = "returning"]
        /\ UNCHANGED <<generation, set_lock, locks, segments, old, held, work, session, view,
                       planning, name, todo, strays, attempts, installed, loaded, names_left,
                       abandoned, unremoved>>
    BY <1>1 DEF ListFails, Goes, incoming, disk, memory, locals, lists, bounds, removals
  <2>2. FilesInv'
    <3>1. name[c] # None => <<pc[c], pc'[c]>> \in QuietSteps
      BY <1>0, <2>1 DEF Types, Named, QuietSteps, Owning, Cleaning, None
    <3>2. name[c] = None => pc'[c] \notin (Owning \cup Cleaning) \ {"waiting", "installing"}
      BY <1>0, <2>1 DEF Types, Named, Owning, Cleaning, None
    <3>3. \A d \in Calls : todo'[d] \cup strays'[d] \subseteq todo[d] \cup strays[d] \cup locks \cup segments
      BY <1>0, <2>1 DEF Types
    <3>4. pc'[c] \in Steps /\ pc' = [pc EXCEPT ![c] = pc'[c]]
      BY <1>0, <2>1 DEF Types, Steps
    <3>5. QED
      BY <1>0, <3>1, <3>2, <3>3, <3>4, <2>1, QuietStep
  <2>3. OneWorker'
    BY <1>0, <2>1 DEF Types, OneWorker, Owning, Cleaning, Installing, None, Names
  <2>4. Generations'
    BY <1>0, <2>1 DEF Types, Generations, OneWorker, Owning, Cleaning, Installing, None, Names
  <2>5. Types'
    <3>1. pc' \in [Calls -> Steps]
      BY <1>0, <2>1 DEF Types, Steps
    <3>2. generation \in Nat
      BY <1>0 DEF Types
    <3>3. QED
      BY <1>0, <2>1, <3>1, <3>2 DEF Types, None
  <2>6. QED
    BY <2>2, <2>3, <2>4, <2>5 DEF IInv, FilesInv
<1>2. CASE Goes(c, "listing", "creating")
  <2>1. /\ pc[c] = "listing"
        /\ pc' = [pc EXCEPT ![c] = "creating"]
        /\ UNCHANGED <<generation, set_lock, locks, segments, old, held, work, session, view,
                       planning, name, todo, strays, attempts, installed, loaded, names_left,
                       abandoned, unremoved>>
    BY <1>2 DEF ListFails, Goes, incoming, disk, memory, locals, lists, bounds, removals
  <2>2. FilesInv'
    <3>1. name[c] # None => <<pc[c], pc'[c]>> \in QuietSteps
      BY <1>0, <2>1 DEF Types, Named, QuietSteps, Owning, Cleaning, None
    <3>2. name[c] = None => pc'[c] \notin (Owning \cup Cleaning) \ {"waiting", "installing"}
      BY <1>0, <2>1 DEF Types, Named, Owning, Cleaning, None
    <3>3. \A d \in Calls : todo'[d] \cup strays'[d] \subseteq todo[d] \cup strays[d] \cup locks \cup segments
      BY <1>0, <2>1 DEF Types
    <3>4. pc'[c] \in Steps /\ pc' = [pc EXCEPT ![c] = pc'[c]]
      BY <1>0, <2>1 DEF Types, Steps
    <3>5. QED
      BY <1>0, <3>1, <3>2, <3>3, <3>4, <2>1, QuietStep
  <2>3. OneWorker'
    BY <1>0, <2>1 DEF Types, OneWorker, Owning, Cleaning, Installing, None, Names
  <2>4. Generations'
    BY <1>0, <2>1 DEF Types, Generations, OneWorker, Owning, Cleaning, Installing, None, Names
  <2>5. Types'
    <3>1. pc' \in [Calls -> Steps]
      BY <1>0, <2>1 DEF Types, Steps
    <3>2. generation \in Nat
      BY <1>0 DEF Types
    <3>3. QED
      BY <1>0, <2>1, <3>1, <3>2 DEF Types, None
  <2>6. QED
    BY <2>2, <2>3, <2>4, <2>5 DEF IInv, FilesInv
<1>3. QED
  BY <1>1, <1>2 DEF ListFails, Goes

\* A cleanup takes up an expansion that was begun, and holds nothing yet.
LEMMA OpenLockKeeps ==
  ASSUME IInv, NEW c \in Calls, OpenLock(c)
  PROVE  IInv'
<1> USE VectorSetAssumption
<1>0. /\ Types /\ FilesInv /\ OneWorker /\ Generations
      /\ Named /\ FreshNames /\ OneMaker /\ Holding /\ Segments /\ Aged /\ SegmentMarked /\ Left
  BY DEF IInv, FilesInv
<1>1. PICK n \in todo[c] :
        /\ todo' = [todo EXCEPT ![c] = @ \ {n}]
        /\ \/ n \in locks /\ Goes(c, "cleaning", "trying") /\ name' = [name EXCEPT ![c] = n]
           \/ UNCHANGED <<pc, name>>
  BY DEF OpenLock
<1>2. /\ pc[c] = "cleaning"
      /\ UNCHANGED <<generation, set_lock, locks, segments, held, work, session, view,
                     planning, strays, attempts, installed, loaded, names_left, abandoned, old,
                     unremoved>>
  BY DEF OpenLock, incoming, disk, memory, bounds, removals
<1>3. name[c] = None
  BY <1>0, <1>2 DEF Named, Types, Owning, Cleaning, None
<1>4. n \in Names /\ n # None /\ n > names_left
  BY <1>0 DEF Types, FreshNames, None, Names
<1>5. \A d \in Calls : todo'[d] \subseteq todo[d] /\ strays'[d] = strays[d]
  BY <1>0, <1>1, <1>2 DEF Types
<1>6. CASE UNCHANGED <<pc, name>>
  <2>1. pc' = pc /\ name' = name
    BY <1>6
  <2>2. FilesInv'
    <3>1. "cleaning" \in Steps /\ pc' = [pc EXCEPT ![c] = "cleaning"]
      BY <1>0, <1>2, <2>1 DEF Types, Steps
    <3>2. "cleaning" \notin Owning \cup Cleaning
      BY DEF Owning, Cleaning
    <3>3. QED
      BY <1>0, <1>2, <1>3, <1>5, <2>1, <3>1, <3>2, QuietStep
  <2>3. OneWorker' /\ Generations'
    BY <1>0, <1>2, <2>1 DEF OneWorker, Generations
  <2>4. Types'
    BY <1>0, <1>1, <1>2, <2>1 DEF Types
  <2>5. QED
    BY <2>2, <2>3, <2>4 DEF IInv
<1>7. CASE n \in locks /\ Goes(c, "cleaning", "trying") /\ name' = [name EXCEPT ![c] = n]
  <2>1. pc' = [pc EXCEPT ![c] = "trying"] /\ name' = [name EXCEPT ![c] = n]
    BY <1>7 DEF Goes
  <2>2. /\ pc'[c] = "trying" /\ name'[c] = n
        /\ \A d \in Calls : d # c => pc'[d] = pc[d] /\ name'[d] = name[d]
    BY <1>0, <2>1 DEF Types
  <2>3. Named'
    BY <1>0, <1>4, <2>2 DEF Named, Owning, Cleaning
  <2>4. FreshNames'
    <3>1. \A d \in Calls : name'[d] # None => name'[d] > names_left
      BY <1>0, <1>4, <2>2 DEF FreshNames
    <3>2. \A d \in Calls : \A m \in todo'[d] \cup strays'[d] : m > names_left
      BY <1>0, <1>5 DEF FreshNames
    <3>3. QED
      BY <1>0, <1>2, <3>1, <3>2 DEF FreshNames
  <2>5. OneMaker'
    BY <1>0, <2>2 DEF OneMaker, Owns, Owning
  <2>6. Holding'
    <3>1. \A d \in Calls : pc'[d] \in {"removing", "unmarking"} => held[name'[d]] = d
      BY <1>0, <2>2 DEF Holding, Holder
    <3>2. \A d \in Calls : pc'[d] \in Owning \ {"locking"} /\ name'[d] # None =>
            held[name'[d]] = d /\ name'[d] \in locks
      BY <1>0, <2>2 DEF Holding, Holder, Owning
    <3>3. \A m \in Names : held[m] # NoCall => held[m] # c
      BY <1>0, <1>3 DEF Holding, None, Names
    <3>4. \A m \in Names : held[m] # NoCall =>
            name'[held[m]] = m /\ pc'[held[m]] \notin {"trying", "locking"}
      BY <1>0, <2>2, <3>3 DEF Holding, Types
    <3>5. QED
      BY <1>2, <3>1, <3>2, <3>4 DEF Holding, Holder
  <2>7. Segments'
    BY <1>0, <1>2, <2>2 DEF Segments
  <2>8. SegmentMarked' /\ Aged'
    <3>1. SegmentMarked'
      BY <1>0, <1>2 DEF SegmentMarked
    <3>2. Aged'
      <4>1. \A d \in Calls, m \in old : Owns(d, m)' => Owns(d, m)
        BY <2>2 DEF Owns, Owning
      <4>2. old' = old
        BY <1>2
      <4>3. QED
        BY <1>0, <4>1, <4>2 DEF Aged
    <3>3. QED
      BY <3>1, <3>2
  <2>9. Left'
    <3>1. \A d \in Calls, m \in Names : Owns(d, m) => Owns(d, m)'
      BY <1>2, <2>2 DEF Owns, Owning
    <3>2. QED
      BY <1>0, <1>2, <3>1 DEF Left, Types
  <2>10. OneWorker'
    BY <1>0, <1>2, <2>2 DEF OneWorker, Installing, Types
  <2>11. Generations'
    BY <1>0, <1>2, <2>2 DEF Generations
  <2>12. Types'
    <3>1. todo' \in [Calls -> SUBSET Names]
      BY <1>0, <1>1 DEF Types
    <3>2. name' \in [Calls -> 0 .. MaxNames]
      <4>1. n \in 0 .. MaxNames
        BY <1>4 DEF Names
      <4>2. QED
        BY <1>0, <2>1, <4>1 DEF Types
    <3>3. pc' \in [Calls -> Steps]
      BY <1>0, <2>1 DEF Types, Steps
    <3>4. QED
      BY <1>0, <1>2, <3>1, <3>2, <3>3 DEF Types
  <2>13. QED
    BY <2>3, <2>4, <2>5, <2>6, <2>7, <2>8, <2>9, <2>10, <2>11, <2>12 DEF IInv, FilesInv
<1>8. QED
  BY <1>1, <1>6, <1>7

\* A cleanup locks a lock file nobody holds, or passes by one that is held.
LEMMA TryLockKeeps ==
  ASSUME IInv, NEW c \in Calls, TryLock(c)
  PROVE  IInv'
<1> USE VectorSetAssumption
<1>0. /\ Types /\ FilesInv /\ OneWorker /\ Generations
      /\ Named /\ FreshNames /\ OneMaker /\ Holding /\ Segments /\ Aged /\ SegmentMarked /\ Left
  BY DEF IInv, FilesInv
<1>1. CASE Goes(c, "trying", "removing") /\ Holder(c) = NoCall
  <2>1. /\ pc[c] = "trying"
        /\ pc' = [pc EXCEPT ![c] = "removing"]
        /\ held' = [held EXCEPT ![name[c]] = c]
    BY <1>1 DEF TryLock, Goes, incoming, disk, memory, locals, lists, bounds, removals, Holder
  <2>2. /\ UNCHANGED <<generation, set_lock, locks, segments, old, work, session, view, planning,
               name, todo, strays, attempts, installed, loaded, names_left, abandoned,
               unremoved>>
    BY <1>1 DEF TryLock, Goes, incoming, disk, memory, locals, lists, bounds, removals, Holder
  <2>3. name[c] \in Names /\ name[c] > names_left /\ held[name[c]] = NoCall
    <3>1. name[c] # None
      BY <1>0, <2>1 DEF Named, Owning, Cleaning
    <3>2. name[c] \in Names /\ name[c] > names_left
      BY <1>0, <3>1 DEF Types, FreshNames, None, Names
    <3>3. held[name[c]] = NoCall
      BY <1>1 DEF Holder
    <3>4. QED
      BY <3>2, <3>3
  <2>4. /\ pc[c] = "trying" /\ pc'[c] = "removing" /\ \A d \in Calls : d # c => pc'[d] = pc[d]
        /\ name' = name
        /\ held'[name[c]] = c /\ \A n \in Names : n # name[c] => held'[n] = held[n]
    BY <1>0, <2>1, <2>2, <2>3 DEF Types
  <2>5. Named'
    BY <1>0, <2>2, <2>3, <2>4 DEF Named, Owning, Cleaning, None, Names
  <2>6. FreshNames'
    <3>1. \A n \in Names : n <= names_left =>
           n \notin locks' /\ n \notin segments' /\ n \notin old' /\ held'[n] = NoCall
      BY <1>0, <2>2, <2>3, <2>4, FreshOrNot DEF FreshNames
    <3>2. \A d \in Calls : name'[d] # None => name'[d] > names_left
      BY <1>0, <2>2, <2>3, <2>4 DEF FreshNames
    <3>3. \A d \in Calls : \A n \in todo'[d] \cup strays'[d] : n > names_left
      BY <1>0, <2>2 DEF FreshNames
    <3>4. QED
      BY <2>2, <3>1, <3>2, <3>3 DEF FreshNames
  <2>7. OneMaker' /\ Aged'
    <3>1. \A d \in Calls, n \in Names : Owns(d, n)' => Owns(d, n)
      BY <1>0, <2>2, <2>3, <2>4 DEF Owns, Owning, None, Names
    <3>2. old' \subseteq old /\ old \subseteq Names
      BY <1>0, <2>2 DEF Types
    <3>3. QED
      BY <1>0, <3>1, <3>2 DEF OneMaker, Aged
  <2>8. Holding'
    <3>1. \A d \in Calls :
           d # c /\ name[d] # None /\ pc[d] \in {"removing", "unmarking"} \cup (Owning \ {"locking"}) =>
             held[name[d]] = d /\ held'[name[d]] = d /\ name[d] \in Names
      <4>1. \A d \in Calls : name[d] # None => name[d] \in Names
        BY <1>0, NamesOfCalls
      <4>2. \A d \in Calls :
             name[d] # None /\ pc[d] \in {"removing", "unmarking"} \cup (Owning \ {"locking"}) => held[name[d]] = d
        BY <1>0 DEF Holding, Holder
      <4>3. NoCall \notin Calls
        BY VectorSetAssumption
      <4>4. QED
        BY <1>0, <2>2, <2>3, <2>4, <4>1, <4>2, <4>3
    <3>2. \A d \in Calls : pc'[d] \in {"removing", "unmarking"} => held'[name'[d]] = d
      BY <1>0, <2>2, <2>3, <2>4, <3>1 DEF Named, Holding, Holder, Owning, Cleaning
    <3>3. \A d \in Calls : pc'[d] \in Owning \ {"locking"} /\ name'[d] # None =>
           held'[name'[d]] = d /\ name'[d] \in locks'
      BY <1>0, <2>2, <2>3, <2>4, <3>1 DEF Holding, Holder, Owning
    <3>4. \A n \in Names : held'[n] # NoCall =>
           name'[held'[n]] = n /\ pc'[held'[n]] \notin {"trying", "locking"}
      BY <1>0, <2>2, <2>3, <2>4 DEF Holding, Holder, Types
    <3>5. QED
      BY <3>2, <3>3, <3>4 DEF Holding, Holder
  <2>9. Segments'
    BY <1>0, <2>2, <2>3, <2>4 DEF Segments, Owning
  <2>10. SegmentMarked'
    BY <1>0, <2>2, <2>3, <2>4 DEF SegmentMarked
  <2>11. Left'
    <3>1. \A d \in Calls, n \in Names :
           Owns(d, n) => Owns(d, n)' \/ n \notin locks' \cup segments' \/ n \in unremoved'
      BY <1>0, <2>2, <2>3, <2>4 DEF Segments, Owns, Owning
    <3>2. \A n \in locks' \cup segments' : n \in locks \cup segments \/ \E d \in Calls : Owns(d, n)'
      BY <1>0, <2>2, <2>3, <2>4 DEF Owns, Owning
    <3>3. unremoved \subseteq unremoved' /\ locks \cup segments \subseteq Names /\ abandoned' = abandoned
      BY <1>0, <2>2 DEF Types
    <3>4. QED
      BY <1>0, <3>1, <3>2, <3>3 DEF Left
  <2>12. OneWorker'
    <3>1. pc[c] \in Installing \ {"installing"}
      BY <2>1 DEF Installing, Owning, Cleaning
    <3>2. QED
      BY <1>0, <2>1, <2>2, <3>1, WorkingStep
  <2>13. Generations'
    BY <1>0, <2>2, <2>4 DEF Generations, OneWorker, Types
  <2>14. Types'
    <3>1. pc' \in [Calls -> Steps]
      BY <1>0, <2>1 DEF Types, Steps
    <3>2. name' \in [Calls -> 0 .. MaxNames] /\ held' \in [Names -> Calls \cup {NoCall}]
      BY <1>0, <2>1, <2>2, <2>3 DEF Types, None, Names
    <3>3. QED
      BY <1>0, <2>2, <2>3, <3>1, <3>2 DEF Types
  <2>15. QED
    BY <2>5, <2>6, <2>7, <2>8, <2>9, <2>10, <2>11, <2>12, <2>13, <2>14 DEF IInv, FilesInv
<1>2. CASE Goes(c, "trying", "cleaning") /\ Holder(c) # NoCall
  <2>1. /\ pc[c] = "trying"
        /\ pc' = [pc EXCEPT ![c] = "cleaning"]
        /\ name' = [name EXCEPT ![c] = None]
    BY <1>2 DEF TryLock, Goes, incoming, disk, memory, locals, lists, bounds, removals, Holder
  <2>2. /\ UNCHANGED <<generation, set_lock, locks, segments, old, held, work, session, view,
               planning, todo, strays, attempts, installed, loaded, names_left, abandoned,
               unremoved>>
    BY <1>2 DEF TryLock, Goes, incoming, disk, memory, locals, lists, bounds, removals, Holder
  <2>3. name[c] \in Names /\ name[c] > names_left
    <3>1. name[c] # None
      BY <1>0, <2>1 DEF Named, Owning, Cleaning
    <3>2. name[c] \in Names /\ name[c] > names_left
      BY <1>0, <3>1 DEF Types, FreshNames, None, Names
    <3>3. QED
      BY <3>2
  <2>4. /\ pc[c] = "trying" /\ pc'[c] = "cleaning" /\ \A d \in Calls : d # c => pc'[d] = pc[d]
        /\ name'[c] = None /\ \A d \in Calls : d # c => name'[d] = name[d]
        /\ held' = held
    BY <1>0, <2>1, <2>2 DEF Types
  <2>5. Named'
    BY <1>0, <2>2, <2>3, <2>4 DEF Named, Owning, Cleaning, None, Names
  <2>6. FreshNames'
    <3>1. \A n \in Names : n <= names_left =>
           n \notin locks' /\ n \notin segments' /\ n \notin old' /\ held'[n] = NoCall
      BY <1>0, <2>2, <2>3, <2>4, FreshOrNot DEF FreshNames
    <3>2. \A d \in Calls : name'[d] # None => name'[d] > names_left
      BY <1>0, <2>2, <2>3, <2>4 DEF FreshNames
    <3>3. \A d \in Calls : \A n \in todo'[d] \cup strays'[d] : n > names_left
      BY <1>0, <2>2 DEF FreshNames
    <3>4. QED
      BY <2>2, <3>1, <3>2, <3>3 DEF FreshNames
  <2>7. OneMaker' /\ Aged'
    <3>1. \A d \in Calls, n \in Names : Owns(d, n)' => Owns(d, n)
      BY <1>0, <2>2, <2>3, <2>4 DEF Owns, Owning, None, Names
    <3>2. old' \subseteq old /\ old \subseteq Names
      BY <1>0, <2>2 DEF Types
    <3>3. QED
      BY <1>0, <3>1, <3>2 DEF OneMaker, Aged
  <2>8. Holding'
    <3>1. \A d \in Calls :
           d # c /\ name[d] # None /\ pc[d] \in {"removing", "unmarking"} \cup (Owning \ {"locking"}) =>
             held[name[d]] = d /\ held'[name[d]] = d /\ name[d] \in Names
      <4>1. \A d \in Calls : name[d] # None => name[d] \in Names
        BY <1>0, NamesOfCalls
      <4>2. \A d \in Calls :
             name[d] # None /\ pc[d] \in {"removing", "unmarking"} \cup (Owning \ {"locking"}) => held[name[d]] = d
        BY <1>0 DEF Holding, Holder
      <4>3. NoCall \notin Calls
        BY VectorSetAssumption
      <4>4. QED
        BY <1>0, <2>2, <2>3, <2>4, <4>1, <4>2, <4>3
    <3>2. \A d \in Calls : pc'[d] \in {"removing", "unmarking"} => held'[name'[d]] = d
      BY <1>0, <2>2, <2>3, <2>4, <3>1 DEF Named, Holding, Holder, Owning, Cleaning
    <3>3. \A d \in Calls : pc'[d] \in Owning \ {"locking"} /\ name'[d] # None =>
           held'[name'[d]] = d /\ name'[d] \in locks'
      BY <1>0, <2>2, <2>3, <2>4, <3>1 DEF Holding, Holder, Owning
    <3>4. \A n \in Names : held'[n] # NoCall =>
           name'[held'[n]] = n /\ pc'[held'[n]] \notin {"trying", "locking"}
      BY <1>0, <2>2, <2>3, <2>4 DEF Holding, Holder, Types
    <3>5. QED
      BY <3>2, <3>3, <3>4 DEF Holding, Holder
  <2>9. Segments'
    BY <1>0, <2>2, <2>3, <2>4 DEF Segments, Owning
  <2>10. SegmentMarked'
    BY <1>0, <2>2, <2>3, <2>4 DEF SegmentMarked
  <2>11. Left'
    <3>1. \A d \in Calls, n \in Names :
           Owns(d, n) => Owns(d, n)' \/ n \notin locks' \cup segments' \/ n \in unremoved'
      BY <1>0, <2>2, <2>3, <2>4 DEF Segments, Owns, Owning
    <3>2. \A n \in locks' \cup segments' : n \in locks \cup segments \/ \E d \in Calls : Owns(d, n)'
      BY <1>0, <2>2, <2>3, <2>4 DEF Owns, Owning
    <3>3. unremoved \subseteq unremoved' /\ locks \cup segments \subseteq Names /\ abandoned' = abandoned
      BY <1>0, <2>2 DEF Types
    <3>4. QED
      BY <1>0, <3>1, <3>2, <3>3 DEF Left
  <2>12. OneWorker'
    <3>1. pc[c] \in Installing \ {"installing"}
      BY <2>1 DEF Installing, Owning, Cleaning
    <3>2. QED
      BY <1>0, <2>1, <2>2, <3>1, WorkingStep
  <2>13. Generations'
    BY <1>0, <2>2, <2>4 DEF Generations, OneWorker, Types
  <2>14. Types'
    <3>1. pc' \in [Calls -> Steps]
      BY <1>0, <2>1 DEF Types, Steps
    <3>2. name' \in [Calls -> 0 .. MaxNames] /\ held' \in [Names -> Calls \cup {NoCall}]
      BY <1>0, <2>1, <2>2, <2>3 DEF Types, None, Names
    <3>3. QED
      BY <1>0, <2>2, <2>3, <3>1, <3>2 DEF Types
  <2>15. QED
    BY <2>5, <2>6, <2>7, <2>8, <2>9, <2>10, <2>11, <2>12, <2>13, <2>14 DEF IInv, FilesInv
<1>3. QED
  BY <1>1, <1>2 DEF TryLock

\* A cleanup removes the segment of the lock file it holds, which no maker holds then.
LEMMA RemoveSegmentKeeps ==
  ASSUME IInv, NEW c \in Calls, RemoveSegment(c)
  PROVE  IInv'
<1> USE VectorSetAssumption
<1>0. /\ Types /\ FilesInv /\ OneWorker /\ Generations
      /\ Named /\ FreshNames /\ OneMaker /\ Holding /\ Segments /\ Aged /\ SegmentMarked /\ Left
  BY DEF IInv, FilesInv
<1>1. /\ pc[c] = "removing"
      /\ pc' = [pc EXCEPT ![c] = "unmarking"]
  BY DEF RemoveSegment, Goes, incoming, disk, memory, locals, lists, bounds, removals
<1>2. /\ segments' \subseteq segments /\ segments \subseteq segments' \cup {name[c]}
      /\ unremoved \subseteq unremoved' /\ unremoved' \subseteq unremoved \cup {name[c]}
      /\ name[c] \in segments' => name[c] \in unremoved'
      /\ old' = old \cap segments'
      /\ UNCHANGED <<generation, set_lock, locks, held, work, session, view, planning, name,
                     todo, strays, attempts, installed, loaded, names_left, abandoned>>
  BY DEF RemoveSegment, Goes, incoming, disk, memory, locals, lists, bounds, removals,
     Remove, Stays
<1>3. name[c] \in Names /\ name[c] > names_left /\ held[name[c]] = c
  <2>1. name[c] # None
    BY <1>0, <1>1 DEF Named, Owning, Cleaning
  <2>2. name[c] \in Names /\ name[c] > names_left
    BY <1>0, <2>1 DEF Types, FreshNames, None, Names
  <2>3. held[name[c]] = c
    BY <1>0, <1>1, <2>1 DEF Holding, Holder, Owning
  <2>4. QED
    BY <2>2, <2>3
<1>4. /\ pc[c] = "removing" /\ pc'[c] = "unmarking" /\ \A d \in Calls : d # c => pc'[d] = pc[d]
      /\ name' = name
      /\ held' = held
  BY <1>0, <1>1, <1>2 DEF Types
<1>5. Named'
  BY <1>0, <1>2, <1>3, <1>4 DEF Named, Owning, Cleaning, None, Names
<1>6. FreshNames'
  <2>1. \A n \in Names : n <= names_left =>
         n \notin locks' /\ n \notin segments' /\ n \notin old' /\ held'[n] = NoCall
    BY <1>0, <1>2, <1>3, <1>4, FreshOrNot DEF FreshNames
  <2>2. \A d \in Calls : name'[d] # None => name'[d] > names_left
    BY <1>0, <1>2, <1>3, <1>4 DEF FreshNames
  <2>3. \A d \in Calls : \A n \in todo'[d] \cup strays'[d] : n > names_left
    BY <1>0, <1>2 DEF FreshNames
  <2>4. QED
    BY <1>2, <2>1, <2>2, <2>3 DEF FreshNames
<1>7. OneMaker' /\ Aged'
  <2>1. \A d \in Calls, n \in Names : Owns(d, n)' => Owns(d, n)
    BY <1>0, <1>2, <1>3, <1>4 DEF Owns, Owning, None, Names
  <2>2. old' \subseteq old /\ old \subseteq Names
    BY <1>0, <1>2 DEF Types
  <2>3. QED
    BY <1>0, <2>1, <2>2 DEF OneMaker, Aged
<1>8. Holding'
  <2>1. \A d \in Calls :
         d # c /\ name[d] # None /\ pc[d] \in {"removing", "unmarking"} \cup (Owning \ {"locking"}) =>
           held[name[d]] = d /\ held'[name[d]] = d /\ name[d] \in Names
    <3>1. \A d \in Calls : name[d] # None => name[d] \in Names
      BY <1>0, NamesOfCalls
    <3>2. \A d \in Calls :
           name[d] # None /\ pc[d] \in {"removing", "unmarking"} \cup (Owning \ {"locking"}) => held[name[d]] = d
      BY <1>0 DEF Holding, Holder
    <3>3. NoCall \notin Calls
      BY VectorSetAssumption
    <3>4. QED
      BY <1>0, <1>2, <1>3, <1>4, <3>1, <3>2, <3>3
  <2>2. \A d \in Calls : pc'[d] \in {"removing", "unmarking"} => held'[name'[d]] = d
    BY <1>0, <1>2, <1>3, <1>4, <2>1 DEF Named, Holding, Holder, Owning, Cleaning
  <2>3. \A d \in Calls : pc'[d] \in Owning \ {"locking"} /\ name'[d] # None =>
         held'[name'[d]] = d /\ name'[d] \in locks'
    BY <1>0, <1>2, <1>3, <1>4, <2>1 DEF Holding, Holder, Owning
  <2>4. \A n \in Names : held'[n] # NoCall =>
         name'[held'[n]] = n /\ pc'[held'[n]] \notin {"trying", "locking"}
    BY <1>0, <1>2, <1>3, <1>4 DEF Holding, Holder, Types
  <2>5. QED
    BY <2>2, <2>3, <2>4 DEF Holding, Holder
<1>9. Segments'
  <2>1. \A d \in Calls : d # c /\ name[d] = name[c] =>
         pc[d] \notin (Owning \ {"locking"}) \cup {"removing", "unmarking"}
    BY <1>0, <1>2, <1>3, <1>4 DEF Holding, Holder, None, Names
  <2>2. QED
    BY <1>0, <1>2, <1>3, <1>4, <2>1 DEF Segments, Owning
<1>10. SegmentMarked'
  BY <1>0, <1>2, <1>3, <1>4 DEF SegmentMarked
<1>11. Left'
  <2>1. \A d \in Calls, n \in Names :
         Owns(d, n) => Owns(d, n)' \/ n \notin locks' \cup segments' \/ n \in unremoved'
    BY <1>0, <1>2, <1>3, <1>4 DEF Segments, Owns, Owning
  <2>2. \A n \in locks' \cup segments' : n \in locks \cup segments \/ \E d \in Calls : Owns(d, n)'
    BY <1>0, <1>2, <1>3, <1>4 DEF Owns, Owning
  <2>3. unremoved \subseteq unremoved' /\ locks \cup segments \subseteq Names /\ abandoned' = abandoned
    BY <1>0, <1>2 DEF Types
  <2>4. QED
    BY <1>0, <2>1, <2>2, <2>3 DEF Left
<1>12. OneWorker'
  <2>1. pc[c] \in Installing \ {"installing"}
    BY <1>1 DEF Installing, Owning, Cleaning
  <2>2. QED
    BY <1>0, <1>1, <1>2, <2>1, WorkingStep
<1>13. Generations'
  BY <1>0, <1>2, <1>4 DEF Generations, OneWorker, Types
<1>14. Types'
  <2>1. pc' \in [Calls -> Steps]
    BY <1>0, <1>1 DEF Types, Steps
  <2>2. name' \in [Calls -> 0 .. MaxNames] /\ held' \in [Names -> Calls \cup {NoCall}]
    BY <1>0, <1>1, <1>2, <1>3 DEF Types, None, Names
  <2>3. QED
    BY <1>0, <1>2, <1>3, <2>1, <2>2 DEF Types
<1>15. QED
  BY <1>5, <1>6, <1>7, <1>8, <1>9, <1>10, <1>11, <1>12, <1>13, <1>14 DEF IInv, FilesInv

\* A cleanup removes the lock file it holds after the segment.
LEMMA RemoveLockKeeps ==
  ASSUME IInv, NEW c \in Calls, RemoveLock(c)
  PROVE  IInv'
<1> USE VectorSetAssumption
<1>0. /\ Types /\ FilesInv /\ OneWorker /\ Generations
      /\ Named /\ FreshNames /\ OneMaker /\ Holding /\ Segments /\ Aged /\ SegmentMarked /\ Left
  BY DEF IInv, FilesInv
<1>1. /\ pc[c] = "unmarking"
      /\ pc' = [pc EXCEPT ![c] = "cleaning"]
      /\ name' = [name EXCEPT ![c] = None]
      /\ held' = [held EXCEPT ![name[c]] = NoCall]
  BY DEF RemoveLock, Goes, incoming, disk, memory, locals, lists, bounds, removals
<1>2. /\ locks' \subseteq locks /\ locks \subseteq locks' \cup {name[c]}
      /\ unremoved \subseteq unremoved' /\ unremoved' \subseteq unremoved \cup {name[c]}
      /\ name[c] \in locks' => name[c] \in unremoved'
      /\ UNCHANGED <<generation, set_lock, segments, old, work, session, view, planning,
                     todo, strays, attempts, installed, loaded, names_left, abandoned>>
  BY DEF RemoveLock, Goes, incoming, disk, memory, locals, lists, bounds, removals, Remove,
     Stays
<1>3. name[c] \in Names /\ name[c] > names_left /\ held[name[c]] = c /\ (name[c] \in segments => name[c] \in unremoved)
  <2>1. name[c] # None
    BY <1>0, <1>1 DEF Named, Owning, Cleaning
  <2>2. name[c] \in Names /\ name[c] > names_left
    BY <1>0, <2>1 DEF Types, FreshNames, None, Names
  <2>3. held[name[c]] = c
    BY <1>0, <1>1, <2>1 DEF Holding, Holder, Segments, Owning
  <2>4. (name[c] \in segments => name[c] \in unremoved)
    BY <1>0, <1>1, <2>1 DEF Holding, Holder, Segments, Owning
  <2>5. QED
    BY <2>2, <2>3, <2>4
<1>4. /\ pc[c] = "unmarking" /\ pc'[c] = "cleaning" /\ \A d \in Calls : d # c => pc'[d] = pc[d]
      /\ name'[c] = None /\ \A d \in Calls : d # c => name'[d] = name[d]
      /\ held'[name[c]] = NoCall /\ \A n \in Names : n # name[c] => held'[n] = held[n]
  BY <1>0, <1>1, <1>2, <1>3 DEF Types
<1>5. Named'
  BY <1>0, <1>2, <1>3, <1>4 DEF Named, Owning, Cleaning, None, Names
<1>6. FreshNames'
  <2>1. \A n \in Names : n <= names_left =>
         n \notin locks' /\ n \notin segments' /\ n \notin old' /\ held'[n] = NoCall
    BY <1>0, <1>2, <1>3, <1>4, FreshOrNot DEF FreshNames
  <2>2. \A d \in Calls : name'[d] # None => name'[d] > names_left
    BY <1>0, <1>2, <1>3, <1>4 DEF FreshNames
  <2>3. \A d \in Calls : \A n \in todo'[d] \cup strays'[d] : n > names_left
    BY <1>0, <1>2 DEF FreshNames
  <2>4. QED
    BY <1>2, <2>1, <2>2, <2>3 DEF FreshNames
<1>7. OneMaker' /\ Aged'
  <2>1. \A d \in Calls, n \in Names : Owns(d, n)' => Owns(d, n)
    BY <1>0, <1>2, <1>3, <1>4 DEF Owns, Owning, None, Names
  <2>2. old' \subseteq old /\ old \subseteq Names
    BY <1>0, <1>2 DEF Types
  <2>3. QED
    BY <1>0, <2>1, <2>2 DEF OneMaker, Aged
<1>8. Holding'
  <2>1. \A d \in Calls :
         d # c /\ name[d] # None /\ pc[d] \in {"removing", "unmarking"} \cup (Owning \ {"locking"}) =>
           held[name[d]] = d /\ held'[name[d]] = d /\ name[d] \in Names
    <3>1. \A d \in Calls : name[d] # None => name[d] \in Names
      BY <1>0, NamesOfCalls
    <3>2. \A d \in Calls :
           name[d] # None /\ pc[d] \in {"removing", "unmarking"} \cup (Owning \ {"locking"}) => held[name[d]] = d
      BY <1>0 DEF Holding, Holder
    <3>3. NoCall \notin Calls
      BY VectorSetAssumption
    <3>4. QED
      BY <1>0, <1>2, <1>3, <1>4, <3>1, <3>2, <3>3
  <2>2. \A d \in Calls : pc'[d] \in {"removing", "unmarking"} => held'[name'[d]] = d
    BY <1>0, <1>2, <1>3, <1>4, <2>1 DEF Named, Holding, Holder, Owning, Cleaning
  <2>3. \A d \in Calls : pc'[d] \in Owning \ {"locking"} /\ name'[d] # None =>
         held'[name'[d]] = d /\ name'[d] \in locks'
    BY <1>0, <1>2, <1>3, <1>4, <2>1 DEF Holding, Holder, Owning
  <2>4. \A n \in Names : held'[n] # NoCall =>
         name'[held'[n]] = n /\ pc'[held'[n]] \notin {"trying", "locking"}
    BY <1>0, <1>2, <1>3, <1>4 DEF Holding, Holder, Types
  <2>5. QED
    BY <2>2, <2>3, <2>4 DEF Holding, Holder
<1>9. Segments'
  BY <1>0, <1>2, <1>3, <1>4 DEF Segments, Owning
<1>10. SegmentMarked'
  BY <1>0, <1>2, <1>3, <1>4 DEF SegmentMarked
<1>11. Left'
  <2>1. \A d \in Calls, n \in Names :
         Owns(d, n) => Owns(d, n)' \/ n \notin locks' \cup segments' \/ n \in unremoved'
    BY <1>0, <1>2, <1>3, <1>4 DEF Segments, Owns, Owning
  <2>2. \A n \in locks' \cup segments' : n \in locks \cup segments \/ \E d \in Calls : Owns(d, n)'
    BY <1>0, <1>2, <1>3, <1>4 DEF Owns, Owning
  <2>3. unremoved \subseteq unremoved' /\ locks \cup segments \subseteq Names /\ abandoned' = abandoned
    BY <1>0, <1>2 DEF Types
  <2>4. QED
    BY <1>0, <2>1, <2>2, <2>3 DEF Left
<1>12. OneWorker'
  <2>1. pc[c] \in Installing \ {"installing"}
    BY <1>1 DEF Installing, Owning, Cleaning
  <2>2. QED
    BY <1>0, <1>1, <1>2, <2>1, WorkingStep
<1>13. Generations'
  BY <1>0, <1>2, <1>4 DEF Generations, OneWorker, Types
<1>14. Types'
  <2>1. pc' \in [Calls -> Steps]
    BY <1>0, <1>1 DEF Types, Steps
  <2>2. name' \in [Calls -> 0 .. MaxNames] /\ held' \in [Names -> Calls \cup {NoCall}]
    BY <1>0, <1>1, <1>2, <1>3 DEF Types, None, Names
  <2>3. QED
    BY <1>0, <1>2, <1>3, <2>1, <2>2 DEF Types
<1>15. QED
  BY <1>5, <1>6, <1>7, <1>8, <1>9, <1>10, <1>11, <1>12, <1>13, <1>14 DEF IInv, FilesInv

\* A cleanup removes a segment that is old, which nobody makes.
LEMMA RemoveStrayKeeps ==
  ASSUME IInv, NEW c \in Calls, RemoveStray(c)
  PROVE  IInv'
<1> USE VectorSetAssumption
<1>0. /\ Types /\ FilesInv /\ OneWorker /\ Generations
      /\ Named /\ FreshNames /\ OneMaker /\ Holding /\ Segments /\ Aged /\ SegmentMarked /\ Left
  BY DEF IInv, FilesInv
<1>1. PICK n \in strays[c] :
        /\ strays' = [strays EXCEPT ![c] = @ \ {n}]
        /\ IF n \in old
           THEN Remove(segments, n) /\ old' = old \cap segments'
           ELSE UNCHANGED <<segments, old, removals>>
  BY DEF RemoveStray
<1>2. /\ pc[c] = "cleaning"
      /\ UNCHANGED <<generation, set_lock, locks, held, work, session, view, planning, pc,
                     name, todo, attempts, installed, loaded, names_left, abandoned>>
  BY DEF RemoveStray, incoming, disk, memory, bounds
<1>3. /\ segments' \subseteq segments /\ segments \subseteq segments' \cup {n}
      /\ unremoved \subseteq unremoved'
      /\ n \notin old => segments' = segments
      /\ old' \subseteq old
  BY <1>1 DEF Remove, Stays, removals
<1>4. \A d \in Calls : strays'[d] \subseteq strays[d]
  BY <1>0, <1>1 DEF Types
<1>5. Named' /\ OneMaker' /\ Aged'
  BY <1>0, <1>2, <1>3 DEF Named, OneMaker, Aged, Owns
<1>6. FreshNames'
  <2>1. \A m \in Names : m <= names_left =>
          m \notin locks /\ m \notin segments' /\ m \notin old' /\ held[m] = NoCall
    BY <1>0, <1>3 DEF FreshNames
  <2>2. \A d \in Calls : \A m \in todo[d] \cup strays'[d] : m > names_left
    BY <1>0, <1>4 DEF FreshNames
  <2>3. QED
    BY <1>0, <1>2, <2>1, <2>2 DEF FreshNames
<1>7. Holding'
  BY <1>0, <1>2 DEF Holding, Holder
<1>8. Segments'
  <2>1. SUFFICES ASSUME NEW d \in Calls, name[d] # None
                 PROVE  /\ pc[d] \in {"writing", "waiting", "installing"} => name[d] \in segments'
                        /\ pc[d] \in {"locking", "expanding"} => name[d] \notin segments'
                        /\ pc[d] \in {"unlocking", "unmarking"} /\ name[d] \in segments' =>
                             name[d] \in unremoved'
    BY <1>2 DEF Segments
  <2>2. pc[d] \in Owning => name[d] # n \/ segments' = segments
    BY <1>0, <1>3 DEF Aged, Owns
  <2>3. QED
    BY <1>0, <1>3, <2>1, <2>2 DEF Segments, Owning
<1>9. SegmentMarked'
  BY <1>0, <1>2, <1>3 DEF SegmentMarked
<1>10. Left'
  BY <1>0, <1>2, <1>3 DEF Left, Owns
<1>11. OneWorker' /\ Generations'
  BY <1>0, <1>2 DEF OneWorker, Generations
<1>12. Types'
  <2>1. strays' \in [Calls -> SUBSET Names]
    BY <1>0, <1>1 DEF Types
  <2>2. QED
    BY <1>0, <1>2, <1>3, <2>1 DEF Types
<1>13. QED
  BY <1>5, <1>6, <1>7, <1>8, <1>9, <1>10, <1>11, <1>12 DEF IInv, FilesInv

\* What grows old is at nobody's, and was begun.
LEMMA GrowOldKeeps ==
  ASSUME IInv, NEW n \in Names, GrowOld(n)
  PROVE  IInv'
<1> USE VectorSetAssumption
<1>0. /\ Types /\ FilesInv /\ OneWorker /\ Generations
      /\ Named /\ FreshNames /\ OneMaker /\ Holding /\ Segments /\ Aged /\ SegmentMarked /\ Left
  BY DEF IInv, FilesInv
<1>1. /\ n \in segments /\ \A c \in Calls : name[c] # n
      /\ old' = old \cup {n}
      /\ UNCHANGED <<generation, set_lock, locks, segments, held, work, session, view,
                     planning, pc, name, todo, strays, attempts, installed, loaded,
                     names_left, abandoned, unremoved>>
  BY DEF GrowOld, disk, memory, locals, lists, bounds, removals
<1>2. Named' /\ OneMaker' /\ Holding' /\ Segments' /\ SegmentMarked' /\ Left'
  BY <1>0, <1>1 DEF Named, OneMaker, Holding, Holder, Segments, SegmentMarked, Left, Owns
<1>3. FreshNames'
  BY <1>0, <1>1 DEF FreshNames
<1>4. Aged'
  BY <1>0, <1>1 DEF Aged, Owns
<1>5. OneWorker' /\ Generations'
  BY <1>0, <1>1 DEF OneWorker, Generations
<1>6. Types'
  BY <1>0, <1>1 DEF Types
<1>7. QED
  BY <1>2, <1>3, <1>4, <1>5, <1>6 DEF IInv, FilesInv

\* The end of a cleanup changes no file.
LEMMA CleanedKeeps ==
  ASSUME IInv, NEW c \in Calls, Cleaned(c)
  PROVE  IInv'
<1> USE VectorSetAssumption
<1>0. /\ Types /\ FilesInv /\ OneWorker /\ Generations
      /\ Named /\ FreshNames /\ OneMaker /\ Holding /\ Segments /\ Aged /\ SegmentMarked /\ Left
  BY DEF IInv, FilesInv
<1>1. /\ pc[c] = "cleaning"
      /\ pc' = [pc EXCEPT ![c] = "creating"]
      /\ UNCHANGED <<generation, set_lock, locks, segments, held, work, session, view,
                     planning, name, todo, strays, attempts, installed, loaded, names_left,
                     abandoned, old, unremoved>>
  BY DEF Cleaned, Goes, incoming, disk, memory, locals, lists, bounds, removals
<1>2. FilesInv'
  <2>1. name[c] # None => <<pc[c], pc'[c]>> \in QuietSteps
    BY <1>0, <1>1 DEF Types, Named, QuietSteps, Owning, Cleaning, None
  <2>2. name[c] = None => pc'[c] \notin (Owning \cup Cleaning) \ {"waiting", "installing"}
    BY <1>0, <1>1 DEF Types, Named, Owning, Cleaning, None
  <2>3. \A d \in Calls : todo'[d] \cup strays'[d] \subseteq todo[d] \cup strays[d] \cup locks \cup segments
    BY <1>0, <1>1 DEF Types
  <2>4. pc'[c] \in Steps /\ pc' = [pc EXCEPT ![c] = pc'[c]]
    BY <1>0, <1>1 DEF Types, Steps
  <2>5. QED
    BY <1>0, <2>1, <2>2, <2>3, <2>4, <1>1, QuietStep
<1>3. OneWorker'
  BY <1>0, <1>1 DEF Types, OneWorker, Owning, Cleaning, Installing, None, Names
<1>4. Generations'
  BY <1>0, <1>1 DEF Types, Generations, OneWorker, Owning, Cleaning, Installing, None, Names
<1>5. Types'
  <2>1. pc' \in [Calls -> Steps]
    BY <1>0, <1>1 DEF Types, Steps
  <2>2. generation \in Nat
    BY <1>0 DEF Types
  <2>3. QED
    BY <1>0, <1>1, <2>1, <2>2 DEF Types, None
<1>6. QED
  BY <1>2, <1>3, <1>4, <1>5 DEF IInv, FilesInv

\* A new expansion has a name nobody has had, and no segment.
LEMMA CreateLockKeeps ==
  ASSUME IInv, NEW c \in Calls, CreateLock(c)
  PROVE  IInv'
<1> USE VectorSetAssumption
<1>0. /\ Types /\ FilesInv /\ OneWorker /\ Generations
      /\ Named /\ FreshNames /\ OneMaker /\ Holding /\ Segments /\ Aged /\ SegmentMarked /\ Left
  BY DEF IInv, FilesInv
<1>1. /\ pc[c] = "creating"
      /\ pc' = [pc EXCEPT ![c] = "locking"]
      /\ name' = [name EXCEPT ![c] = names_left]
      /\ attempts' = [attempts EXCEPT ![c] = attempts[c] + 1]
  BY DEF CreateLock, Goes
<1>2. /\ names_left > 0 /\ names_left' = names_left - 1
      /\ locks' = locks \cup {names_left}
      /\ UNCHANGED <<generation, set_lock, segments, old, held, work, session, view, planning,
                     todo, strays, installed, loaded, abandoned, unremoved>>
  BY DEF CreateLock, memory, lists, removals
<1>3. names_left \in Names /\ names_left # None
  BY <1>0, <1>2 DEF Types, Names, None
<1>4. /\ pc[c] = "creating" /\ pc'[c] = "locking" /\ \A d \in Calls : d # c => pc'[d] = pc[d]
      /\ name'[c] = names_left /\ \A d \in Calls : d # c => name'[d] = name[d]
  BY <1>0, <1>1 DEF Types
<1>5. /\ \A d \in Calls : name[d] # names_left
      /\ names_left \notin locks \cup segments \cup old /\ held[names_left] = NoCall
  <2>1. \A d \in Calls : name[d] # names_left
    <3>1. ~(names_left > names_left)
      BY <1>3 DEF Names
    <3>2. QED
      BY <1>0, <1>3, <3>1 DEF FreshNames
  <2>2. names_left <= names_left
    BY <1>3 DEF Names
  <2>3. QED
    BY <1>0, <1>3, <2>1, <2>2 DEF FreshNames
<1>6. Named'
  BY <1>0, <1>3, <1>4 DEF Named, Owning, Cleaning
<1>7. FreshNames'
  <2>1. \A n \in Nat : (n > names_left => n > names_left') /\ (n <= names_left' => n <= names_left /\ n # names_left)
    BY <1>2, <1>3 DEF Names
  <2>2. \A n \in Names : n <= names_left' =>
          n \notin locks' /\ n \notin segments /\ n \notin old /\ held[n] = NoCall
    <3>1. Names \subseteq Nat
      BY DEF Names
    <3>2. QED
      BY <1>0, <1>2, <2>1, <3>1 DEF FreshNames
  <2>3. \A d \in Calls : name'[d] # None => name'[d] > names_left'
    <3>1. \A d \in Calls : name[d] \in Nat
      BY <1>0 DEF Types
    <3>2. names_left > names_left'
      BY <1>2, <1>3 DEF Names
    <3>3. QED
      BY <1>0, <1>4, <2>1, <3>1, <3>2 DEF FreshNames
  <2>4. \A d \in Calls : \A n \in todo[d] \cup strays[d] : n > names_left'
    <3>1. \A d \in Calls : todo[d] \cup strays[d] \subseteq Names
      BY <1>0 DEF Types
    <3>2. Names \subseteq Nat
      BY DEF Names
    <3>3. QED
      BY <1>0, <2>1, <3>1, <3>2 DEF FreshNames
  <2>5. QED
    BY <1>2, <2>2, <2>3, <2>4 DEF FreshNames
<1>8. \A d \in Calls, n \in Names : Owns(d, n)' => (Owns(d, n) /\ n # names_left) \/ (d = c /\ n = names_left)
  BY <1>4, <1>5 DEF Owns
<1>9. OneMaker'
  BY <1>0, <1>8 DEF OneMaker
<1>10. Aged'
  BY <1>0, <1>2, <1>5, <1>8 DEF Aged, Types
<1>11. Holding'
  <2>1. \A d \in Calls : pc'[d] \in {"removing", "unmarking"} => held[name'[d]] = d
    BY <1>0, <1>4 DEF Holding, Holder
  <2>2. \A d \in Calls : pc'[d] \in Owning \ {"locking"} /\ name'[d] # None =>
          held[name'[d]] = d /\ name'[d] \in locks'
    BY <1>0, <1>2, <1>4 DEF Holding, Holder
  <2>3. \A n \in Names : held[n] # NoCall =>
          name'[held[n]] = n /\ pc'[held[n]] \notin {"trying", "locking"}
    <3>1. name[c] = None
      BY <1>0, <1>4 DEF Named, Owning, Cleaning
    <3>2. \A n \in Names : n # None
      BY DEF Names, None
    <3>3. QED
      BY <1>0, <1>4, <3>1, <3>2 DEF Holding, Types
  <2>4. QED
    BY <1>2, <2>1, <2>2, <2>3 DEF Holding, Holder
<1>12. Segments'
  BY <1>0, <1>2, <1>4, <1>5 DEF Segments
<1>13. SegmentMarked'
  BY <1>0, <1>2 DEF SegmentMarked
<1>14. Left'
  <2>1. \A d \in Calls, n \in Names : Owns(d, n) => Owns(d, n)'
    BY <1>4 DEF Owns, Owning
  <2>2. pc'[c] \in Owning /\ name'[c] = names_left
    BY <1>4 DEF Owning
  <2>3. SUFFICES ASSUME NEW n \in locks' \cup segments'
                 PROVE  n \in abandoned' \cup unremoved' \/ \E d \in Calls : Owns(d, n)'
    BY DEF Left
  <2>4. CASE n = names_left
    <3>1. Owns(c, n)'
      BY <2>2, <2>4 DEF Owns
    <3>2. QED
      BY <3>1
  <2>5. CASE n # names_left
    <3>1. n \in locks \cup segments /\ n \in Names
      BY <1>0, <1>2, <2>5 DEF Types
    <3>2. n \in abandoned \cup unremoved \/ \E d \in Calls : Owns(d, n)
      BY <1>0, <3>1 DEF Left
    <3>3. QED
      BY <1>2, <2>1, <3>1, <3>2
  <2>6. QED
    BY <2>4, <2>5
<1>15. OneWorker'
  <2>1. pc[c] \in Installing \ {"installing"}
    BY <1>1 DEF Installing, Owning, Cleaning
  <2>2. QED
    BY <1>0, <1>1, <1>2, <2>1, WorkingStep
<1>16. Generations'
  BY <1>0, <1>2, <1>4 DEF Generations
<1>17. Types'
  <2>1. pc' \in [Calls -> Steps]
    BY <1>0, <1>1 DEF Types, Steps
  <2>2. name' \in [Calls -> 0 .. MaxNames] /\ attempts' \in [Calls -> Nat]
    <3>1. names_left \in 0 .. MaxNames
      BY <1>0 DEF Types
    <3>2. name' \in [Calls -> 0 .. MaxNames]
      BY <1>0, <1>1, <3>1 DEF Types
    <3>3. attempts' \in [Calls -> Nat]
      BY <1>0, <1>1 DEF Types
    <3>4. QED
      BY <3>2, <3>3
  <2>3. locks' \subseteq Names
    BY <1>0, <1>2, <1>3 DEF Types
  <2>4. names_left' \in 0 .. MaxNames
    BY <1>2, <1>3, VectorSetAssumption DEF Names
  <2>5. QED
    BY <1>0, <1>2, <2>1, <2>2, <2>3, <2>4 DEF Types
<1>18. QED
  BY <1>6, <1>7, <1>9, <1>10, <1>11, <1>12, <1>13, <1>14, <1>15, <1>16, <1>17 DEF IInv, FilesInv

\* An expansion that is not begun changes no file.
LEMMA CreateFailsKeeps ==
  ASSUME IInv, NEW c \in Calls, CreateFails(c)
  PROVE  IInv'
<1> USE VectorSetAssumption
<1>0. /\ Types /\ FilesInv /\ OneWorker /\ Generations
      /\ Named /\ FreshNames /\ OneMaker /\ Holding /\ Segments /\ Aged /\ SegmentMarked /\ Left
  BY DEF IInv, FilesInv
<1>1. /\ pc[c] = "creating"
      /\ pc' = [pc EXCEPT ![c] = "returning"]
      /\ UNCHANGED <<generation, set_lock, locks, segments, old, held, work, session, view,
                     planning, name, todo, strays, attempts, installed, loaded, names_left,
                     abandoned, unremoved>>
  BY DEF CreateFails, Goes, incoming, disk, memory, locals, lists, bounds, removals
<1>2. FilesInv'
  <2>1. name[c] # None => <<pc[c], pc'[c]>> \in QuietSteps
    BY <1>0, <1>1 DEF Types, Named, QuietSteps, Owning, Cleaning, None
  <2>2. name[c] = None => pc'[c] \notin (Owning \cup Cleaning) \ {"waiting", "installing"}
    BY <1>0, <1>1 DEF Types, Named, Owning, Cleaning, None
  <2>3. \A d \in Calls : todo'[d] \cup strays'[d] \subseteq todo[d] \cup strays[d] \cup locks \cup segments
    BY <1>0, <1>1 DEF Types
  <2>4. pc'[c] \in Steps /\ pc' = [pc EXCEPT ![c] = pc'[c]]
    BY <1>0, <1>1 DEF Types, Steps
  <2>5. QED
    BY <1>0, <2>1, <2>2, <2>3, <2>4, <1>1, QuietStep
<1>3. OneWorker'
  BY <1>0, <1>1 DEF Types, OneWorker, Owning, Cleaning, Installing, None, Names
<1>4. Generations'
  BY <1>0, <1>1 DEF Types, Generations, OneWorker, Owning, Cleaning, Installing, None, Names
<1>5. Types'
  <2>1. pc' \in [Calls -> Steps]
    BY <1>0, <1>1 DEF Types, Steps
  <2>2. generation \in Nat
    BY <1>0 DEF Types
  <2>3. QED
    BY <1>0, <1>1, <2>1, <2>2 DEF Types, None
<1>6. QED
  BY <1>2, <1>3, <1>4, <1>5 DEF IInv, FilesInv

\* A maker holds its lock file, which is still there, or gives its name up.
LEMMA LockItKeeps ==
  ASSUME IInv, NEW c \in Calls, LockIt(c)
  PROVE  IInv'
<1> USE VectorSetAssumption
<1>0. /\ Types /\ FilesInv /\ OneWorker /\ Generations
      /\ Named /\ FreshNames /\ OneMaker /\ Holding /\ Segments /\ Aged /\ SegmentMarked /\ Left
  BY DEF IInv, FilesInv
<1>1. CASE /\ Goes(c, "locking", "expanding") /\ Holder(c) = NoCall /\ name[c] \in locks
           /\ held' = [held EXCEPT ![name[c]] = c] /\ UNCHANGED <<name, locks, removals>>
  <2>1. /\ pc[c] = "locking"
        /\ pc' = [pc EXCEPT ![c] = "expanding"]
        /\ held' = [held EXCEPT ![name[c]] = c]
    BY <1>1 DEF LockIt, Goes, incoming, disk, memory, locals, lists, bounds, removals
  <2>2. /\ UNCHANGED <<generation, set_lock, locks, segments, old, work, session, view, planning,
               name, todo, strays, attempts, installed, loaded, names_left, abandoned,
               unremoved>>
    BY <1>1 DEF LockIt, Goes, incoming, disk, memory, locals, lists, bounds, removals
  <2>3. name[c] \in Names /\ name[c] > names_left /\ held[name[c]] = NoCall /\ name[c] \in locks /\ name[c] \notin segments
    <3>1. name[c] # None
      BY <1>0, <2>1 DEF Named, Owning, Cleaning
    <3>2. name[c] \in Names /\ name[c] > names_left
      BY <1>0, <3>1 DEF Types, FreshNames, None, Names
    <3>3. held[name[c]] = NoCall
      BY <1>0, <1>1, <2>1, <3>1 DEF Holder, Segments
    <3>4. name[c] \in locks
      BY <1>0, <1>1, <2>1, <3>1 DEF Holder, Segments
    <3>5. name[c] \notin segments
      BY <1>0, <1>1, <2>1, <3>1 DEF Holder, Segments
    <3>6. QED
      BY <3>2, <3>3, <3>4, <3>5
  <2>4. /\ pc[c] = "locking" /\ pc'[c] = "expanding" /\ \A d \in Calls : d # c => pc'[d] = pc[d]
        /\ name' = name
        /\ held'[name[c]] = c /\ \A n \in Names : n # name[c] => held'[n] = held[n]
    BY <1>0, <2>1, <2>2, <2>3 DEF Types
  <2>5. Named'
    BY <1>0, <2>2, <2>3, <2>4 DEF Named, Owning, Cleaning, None, Names
  <2>6. FreshNames'
    <3>1. \A n \in Names : n <= names_left =>
           n \notin locks' /\ n \notin segments' /\ n \notin old' /\ held'[n] = NoCall
      BY <1>0, <2>2, <2>3, <2>4, FreshOrNot DEF FreshNames
    <3>2. \A d \in Calls : name'[d] # None => name'[d] > names_left
      BY <1>0, <2>2, <2>3, <2>4 DEF FreshNames
    <3>3. \A d \in Calls : \A n \in todo'[d] \cup strays'[d] : n > names_left
      BY <1>0, <2>2 DEF FreshNames
    <3>4. QED
      BY <2>2, <3>1, <3>2, <3>3 DEF FreshNames
  <2>7. OneMaker' /\ Aged'
    <3>1. \A d \in Calls, n \in Names : Owns(d, n)' => Owns(d, n)
      BY <1>0, <2>2, <2>3, <2>4 DEF Owns, Owning, None, Names
    <3>2. old' \subseteq old /\ old \subseteq Names
      BY <1>0, <2>2 DEF Types
    <3>3. QED
      BY <1>0, <3>1, <3>2 DEF OneMaker, Aged
  <2>8. Holding'
    <3>1. \A d \in Calls :
           d # c /\ name[d] # None /\ pc[d] \in {"removing", "unmarking"} \cup (Owning \ {"locking"}) =>
             held[name[d]] = d /\ held'[name[d]] = d /\ name[d] \in Names
      <4>1. \A d \in Calls : name[d] # None => name[d] \in Names
        BY <1>0, NamesOfCalls
      <4>2. \A d \in Calls :
             name[d] # None /\ pc[d] \in {"removing", "unmarking"} \cup (Owning \ {"locking"}) => held[name[d]] = d
        BY <1>0 DEF Holding, Holder
      <4>3. NoCall \notin Calls
        BY VectorSetAssumption
      <4>4. QED
        BY <1>0, <2>2, <2>3, <2>4, <4>1, <4>2, <4>3
    <3>2. \A d \in Calls : pc'[d] \in {"removing", "unmarking"} => held'[name'[d]] = d
      BY <1>0, <2>2, <2>3, <2>4, <3>1 DEF Named, Holding, Holder, Owning, Cleaning
    <3>3. \A d \in Calls : pc'[d] \in Owning \ {"locking"} /\ name'[d] # None =>
           held'[name'[d]] = d /\ name'[d] \in locks'
      BY <1>0, <2>2, <2>3, <2>4, <3>1 DEF Holding, Holder, Owning
    <3>4. \A n \in Names : held'[n] # NoCall =>
           name'[held'[n]] = n /\ pc'[held'[n]] \notin {"trying", "locking"}
      BY <1>0, <2>2, <2>3, <2>4 DEF Holding, Holder, Types
    <3>5. QED
      BY <3>2, <3>3, <3>4 DEF Holding, Holder
  <2>9. Segments'
    BY <1>0, <2>2, <2>3, <2>4 DEF Segments, Owning
  <2>10. SegmentMarked'
    BY <1>0, <2>2, <2>3, <2>4 DEF SegmentMarked
  <2>11. Left'
    <3>1. \A d \in Calls, n \in Names :
           Owns(d, n) => Owns(d, n)' \/ n \notin locks' \cup segments' \/ n \in unremoved'
      BY <1>0, <2>2, <2>3, <2>4 DEF Segments, Owns, Owning
    <3>2. \A n \in locks' \cup segments' : n \in locks \cup segments \/ \E d \in Calls : Owns(d, n)'
      BY <1>0, <2>2, <2>3, <2>4 DEF Owns, Owning
    <3>3. unremoved \subseteq unremoved' /\ locks \cup segments \subseteq Names /\ abandoned' = abandoned
      BY <1>0, <2>2 DEF Types
    <3>4. QED
      BY <1>0, <3>1, <3>2, <3>3 DEF Left
  <2>12. OneWorker'
    <3>1. pc[c] \in Installing \ {"installing"}
      BY <2>1 DEF Installing, Owning, Cleaning
    <3>2. QED
      BY <1>0, <2>1, <2>2, <3>1, WorkingStep
  <2>13. Generations'
    BY <1>0, <2>2, <2>4 DEF Generations, OneWorker, Types
  <2>14. Types'
    <3>1. pc' \in [Calls -> Steps]
      BY <1>0, <2>1 DEF Types, Steps
    <3>2. name' \in [Calls -> 0 .. MaxNames] /\ held' \in [Names -> Calls \cup {NoCall}]
      BY <1>0, <2>1, <2>2, <2>3 DEF Types, None, Names
    <3>3. QED
      BY <1>0, <2>2, <2>3, <3>1, <3>2 DEF Types
  <2>15. QED
    BY <2>5, <2>6, <2>7, <2>8, <2>9, <2>10, <2>11, <2>12, <2>13, <2>14 DEF IInv, FilesInv
<1>2. ASSUME NEW to \in {"returning", "creating"}, Goes(c, "locking", to), Remove(locks, name[c]),
             name' = [name EXCEPT ![c] = None], UNCHANGED held
      PROVE  IInv'
  <2>1. /\ pc[c] = "locking"
        /\ pc' = [pc EXCEPT ![c] = to]
        /\ name' = [name EXCEPT ![c] = None]
    BY <1>2 DEF LockIt, Goes, incoming, disk, memory, locals, lists, bounds, removals
  <2>2. /\ locks' \subseteq locks /\ locks \subseteq locks' \cup {name[c]}
        /\ unremoved \subseteq unremoved' /\ unremoved' \subseteq unremoved \cup {name[c]}
        /\ name[c] \in locks' => name[c] \in unremoved'
        /\ UNCHANGED <<generation, set_lock, segments, old, held, work, session, view,
                       planning, todo, strays, attempts, installed, loaded, names_left,
                       abandoned>>
    BY <1>2 DEF LockIt, Goes, incoming, disk, memory, locals, lists, bounds, removals,
       Remove, Stays
  <2>3. name[c] \in Names /\ name[c] > names_left /\ name[c] \notin segments
    <3>1. name[c] # None
      BY <1>0, <2>1 DEF Named, Owning, Cleaning
    <3>2. name[c] \in Names /\ name[c] > names_left
      BY <1>0, <3>1 DEF Types, FreshNames, None, Names
    <3>3. name[c] \notin segments
      BY <1>0, <2>1, <3>1 DEF Segments
    <3>4. QED
      BY <3>2, <3>3
  <2>4. /\ pc[c] = "locking" /\ pc'[c] = to /\ \A d \in Calls : d # c => pc'[d] = pc[d]
        /\ name'[c] = None /\ \A d \in Calls : d # c => name'[d] = name[d]
        /\ held' = held
    BY <1>0, <2>1, <2>2 DEF Types
  <2>5. Named'
    BY <1>0, <2>2, <2>3, <2>4 DEF Named, Owning, Cleaning, None, Names
  <2>6. FreshNames'
    <3>1. \A n \in Names : n <= names_left =>
           n \notin locks' /\ n \notin segments' /\ n \notin old' /\ held'[n] = NoCall
      BY <1>0, <2>2, <2>3, <2>4, FreshOrNot DEF FreshNames
    <3>2. \A d \in Calls : name'[d] # None => name'[d] > names_left
      BY <1>0, <2>2, <2>3, <2>4 DEF FreshNames
    <3>3. \A d \in Calls : \A n \in todo'[d] \cup strays'[d] : n > names_left
      BY <1>0, <2>2 DEF FreshNames
    <3>4. QED
      BY <2>2, <3>1, <3>2, <3>3 DEF FreshNames
  <2>7. OneMaker' /\ Aged'
    <3>1. \A d \in Calls, n \in Names : Owns(d, n)' => Owns(d, n)
      BY <1>0, <2>2, <2>3, <2>4 DEF Owns, Owning, None, Names
    <3>2. old' \subseteq old /\ old \subseteq Names
      BY <1>0, <2>2 DEF Types
    <3>3. QED
      BY <1>0, <3>1, <3>2 DEF OneMaker, Aged
  <2>8. Holding'
    <3>1. \A d \in Calls :
           d # c /\ name[d] # None /\ pc[d] \in {"removing", "unmarking"} \cup (Owning \ {"locking"}) =>
             held[name[d]] = d /\ held'[name[d]] = d /\ name[d] \in Names
      <4>1. \A d \in Calls : name[d] # None => name[d] \in Names
        BY <1>0, NamesOfCalls
      <4>2. \A d \in Calls :
             name[d] # None /\ pc[d] \in {"removing", "unmarking"} \cup (Owning \ {"locking"}) => held[name[d]] = d
        BY <1>0 DEF Holding, Holder
      <4>3. NoCall \notin Calls
        BY VectorSetAssumption
      <4>4. QED
        BY <1>0, <2>2, <2>3, <2>4, <4>1, <4>2, <4>3
    <3>2. \A d \in Calls : pc'[d] \in {"removing", "unmarking"} => held'[name'[d]] = d
      BY <1>0, <2>2, <2>3, <2>4, <3>1 DEF Named, Holding, Holder, Owning, Cleaning
    <3>3. \A d \in Calls : pc'[d] \in Owning \ {"locking"} /\ name'[d] # None =>
           held'[name'[d]] = d /\ name'[d] \in locks'
      <4>1. \A d \in Calls : d # c /\ pc[d] \in Owning \ {"locking"} /\ name[d] # None =>
             name[d] \in locks /\ name[d] # name[c]
        BY <1>0, <2>3, <2>4 DEF Holding, OneMaker, Owns, Owning
      <4>2. QED
        BY <2>2, <2>4, <3>1, <4>1
    <3>4. \A n \in Names : held'[n] # NoCall =>
           name'[held'[n]] = n /\ pc'[held'[n]] \notin {"trying", "locking"}
      BY <1>0, <2>2, <2>3, <2>4 DEF Holding, Holder, Types
    <3>5. QED
      BY <3>2, <3>3, <3>4 DEF Holding, Holder
  <2>9. Segments'
    BY <1>0, <2>2, <2>3, <2>4 DEF Segments, Owning
  <2>10. SegmentMarked'
    BY <1>0, <2>2, <2>3, <2>4 DEF SegmentMarked
  <2>11. Left'
    <3>1. \A d \in Calls, n \in Names :
           Owns(d, n) => Owns(d, n)' \/ n \notin locks' \cup segments' \/ n \in unremoved'
      BY <1>0, <2>2, <2>3, <2>4 DEF Segments, Owns, Owning
    <3>2. \A n \in locks' \cup segments' : n \in locks \cup segments \/ \E d \in Calls : Owns(d, n)'
      BY <1>0, <2>2, <2>3, <2>4 DEF Owns, Owning
    <3>3. unremoved \subseteq unremoved' /\ locks \cup segments \subseteq Names /\ abandoned' = abandoned
      BY <1>0, <2>2 DEF Types
    <3>4. QED
      BY <1>0, <3>1, <3>2, <3>3 DEF Left
  <2>12. OneWorker'
    <3>1. pc[c] \in Installing \ {"installing"}
      BY <2>1 DEF Installing, Owning, Cleaning
    <3>2. QED
      BY <1>0, <2>1, <2>2, <3>1, WorkingStep
  <2>13. Generations'
    BY <1>0, <2>2, <2>4 DEF Generations, OneWorker, Types
  <2>14. Types'
    <3>1. pc' \in [Calls -> Steps]
      BY <1>0, <2>1 DEF Types, Steps
    <3>2. name' \in [Calls -> 0 .. MaxNames] /\ held' \in [Names -> Calls \cup {NoCall}]
      BY <1>0, <2>1, <2>2, <2>3 DEF Types, None, Names
    <3>3. QED
      BY <1>0, <2>2, <2>3, <3>1, <3>2 DEF Types
  <2>15. QED
    BY <2>5, <2>6, <2>7, <2>8, <2>9, <2>10, <2>11, <2>12, <2>13, <2>14 DEF IInv, FilesInv
<1>3. QED
  BY <1>1, <1>2 DEF LockIt

\* A segment is written under a lock file its maker holds.
LEMMA CreateSegmentKeeps ==
  ASSUME IInv, NEW c \in Calls, CreateSegment(c)
  PROVE  IInv'
<1> USE VectorSetAssumption
<1>0. /\ Types /\ FilesInv /\ OneWorker /\ Generations
      /\ Named /\ FreshNames /\ OneMaker /\ Holding /\ Segments /\ Aged /\ SegmentMarked /\ Left
  BY DEF IInv, FilesInv
<1>1. /\ pc[c] = "expanding"
      /\ pc' = [pc EXCEPT ![c] = "writing"]
  BY DEF CreateSegment, Goes, incoming, disk, memory, locals, lists, bounds, removals
<1>2. /\ segments' = segments \cup {name[c]}
      /\ UNCHANGED <<generation, set_lock, locks, old, held, work, session, view, planning,
                     name, todo, strays, attempts, installed, loaded, names_left, abandoned,
                     unremoved>>
  BY DEF CreateSegment, Goes, incoming, disk, memory, locals, lists, bounds, removals
<1>3. name[c] \in Names /\ name[c] > names_left /\ held[name[c]] = c /\ name[c] \in locks
  <2>1. name[c] # None
    BY <1>0, <1>1 DEF Named, Owning, Cleaning
  <2>2. name[c] \in Names /\ name[c] > names_left
    BY <1>0, <2>1 DEF Types, FreshNames, None, Names
  <2>3. held[name[c]] = c
    BY <1>0, <1>1, <2>1 DEF Holding, Holder, Owning
  <2>4. name[c] \in locks
    BY <1>0, <1>1, <2>1 DEF Holding, Holder, Owning
  <2>5. QED
    BY <2>2, <2>3, <2>4
<1>4. /\ pc[c] = "expanding" /\ pc'[c] = "writing" /\ \A d \in Calls : d # c => pc'[d] = pc[d]
      /\ name' = name
      /\ held' = held
  BY <1>0, <1>1, <1>2 DEF Types
<1>5. Named'
  BY <1>0, <1>2, <1>3, <1>4 DEF Named, Owning, Cleaning, None, Names
<1>6. FreshNames'
  <2>1. \A n \in Names : n <= names_left =>
         n \notin locks' /\ n \notin segments' /\ n \notin old' /\ held'[n] = NoCall
    BY <1>0, <1>2, <1>3, <1>4, FreshOrNot DEF FreshNames
  <2>2. \A d \in Calls : name'[d] # None => name'[d] > names_left
    BY <1>0, <1>2, <1>3, <1>4 DEF FreshNames
  <2>3. \A d \in Calls : \A n \in todo'[d] \cup strays'[d] : n > names_left
    BY <1>0, <1>2 DEF FreshNames
  <2>4. QED
    BY <1>2, <2>1, <2>2, <2>3 DEF FreshNames
<1>7. OneMaker' /\ Aged'
  <2>1. \A d \in Calls, n \in Names : Owns(d, n)' => Owns(d, n)
    BY <1>0, <1>2, <1>3, <1>4 DEF Owns, Owning, None, Names
  <2>2. old' \subseteq old /\ old \subseteq Names
    BY <1>0, <1>2 DEF Types
  <2>3. QED
    BY <1>0, <2>1, <2>2 DEF OneMaker, Aged
<1>8. Holding'
  <2>1. \A d \in Calls :
         d # c /\ name[d] # None /\ pc[d] \in {"removing", "unmarking"} \cup (Owning \ {"locking"}) =>
           held[name[d]] = d /\ held'[name[d]] = d /\ name[d] \in Names
    <3>1. \A d \in Calls : name[d] # None => name[d] \in Names
      BY <1>0, NamesOfCalls
    <3>2. \A d \in Calls :
           name[d] # None /\ pc[d] \in {"removing", "unmarking"} \cup (Owning \ {"locking"}) => held[name[d]] = d
      BY <1>0 DEF Holding, Holder
    <3>3. NoCall \notin Calls
      BY VectorSetAssumption
    <3>4. QED
      BY <1>0, <1>2, <1>3, <1>4, <3>1, <3>2, <3>3
  <2>2. \A d \in Calls : pc'[d] \in {"removing", "unmarking"} => held'[name'[d]] = d
    BY <1>0, <1>2, <1>3, <1>4, <2>1 DEF Named, Holding, Holder, Owning, Cleaning
  <2>3. \A d \in Calls : pc'[d] \in Owning \ {"locking"} /\ name'[d] # None =>
         held'[name'[d]] = d /\ name'[d] \in locks'
    BY <1>0, <1>2, <1>3, <1>4, <2>1 DEF Holding, Holder, Owning
  <2>4. \A n \in Names : held'[n] # NoCall =>
         name'[held'[n]] = n /\ pc'[held'[n]] \notin {"trying", "locking"}
    BY <1>0, <1>2, <1>3, <1>4 DEF Holding, Holder, Types
  <2>5. QED
    BY <2>2, <2>3, <2>4 DEF Holding, Holder
<1>9. Segments'
  <2>1. \A d \in Calls : d # c /\ name[d] = name[c] =>
         pc[d] \notin (Owning \ {"locking"}) \cup {"removing", "unmarking"}
    BY <1>0, <1>2, <1>3, <1>4 DEF Holding, Holder, None, Names
  <2>2. \A d \in Calls : d # c /\ name[d] = name[c] => pc[d] # "locking"
    BY <1>0, <1>2, <1>3, <1>4 DEF OneMaker, Owns, Owning
  <2>3. QED
    BY <1>0, <1>2, <1>3, <1>4, <2>1, <2>2 DEF Segments, Owning
<1>10. SegmentMarked'
  BY <1>0, <1>2, <1>3, <1>4 DEF SegmentMarked
<1>11. Left'
  <2>1. \A d \in Calls, n \in Names :
         Owns(d, n) => Owns(d, n)' \/ n \notin locks' \cup segments' \/ n \in unremoved'
    BY <1>0, <1>2, <1>3, <1>4 DEF Segments, Owns, Owning
  <2>2. \A n \in locks' \cup segments' : n \in locks \cup segments \/ \E d \in Calls : Owns(d, n)'
    BY <1>0, <1>2, <1>3, <1>4 DEF Owns, Owning
  <2>3. unremoved \subseteq unremoved' /\ locks \cup segments \subseteq Names /\ abandoned' = abandoned
    BY <1>0, <1>2 DEF Types
  <2>4. QED
    BY <1>0, <2>1, <2>2, <2>3 DEF Left
<1>12. OneWorker'
  <2>1. pc[c] \in Installing \ {"installing"}
    BY <1>1 DEF Installing, Owning, Cleaning
  <2>2. QED
    BY <1>0, <1>1, <1>2, <2>1, WorkingStep
<1>13. Generations'
  BY <1>0, <1>2, <1>4 DEF Generations, OneWorker, Types
<1>14. Types'
  <2>1. pc' \in [Calls -> Steps]
    BY <1>0, <1>1 DEF Types, Steps
  <2>2. name' \in [Calls -> 0 .. MaxNames] /\ held' \in [Names -> Calls \cup {NoCall}]
    BY <1>0, <1>1, <1>2, <1>3 DEF Types, None, Names
  <2>3. QED
    BY <1>0, <1>2, <1>3, <2>1, <2>2 DEF Types
<1>15. QED
  BY <1>5, <1>6, <1>7, <1>8, <1>9, <1>10, <1>11, <1>12, <1>13, <1>14 DEF IInv, FilesInv

\* The end of the writing changes no file.
LEMMA WrittenKeeps ==
  ASSUME IInv, NEW c \in Calls, Written(c)
  PROVE  IInv'
<1> USE VectorSetAssumption
<1>0. /\ Types /\ FilesInv /\ OneWorker /\ Generations
      /\ Named /\ FreshNames /\ OneMaker /\ Holding /\ Segments /\ Aged /\ SegmentMarked /\ Left
  BY DEF IInv, FilesInv
<1>1. /\ pc[c] = "writing"
      /\ pc' = [pc EXCEPT ![c] = "waiting"]
      /\ UNCHANGED <<generation, set_lock, locks, segments, held, work, session, view,
                     planning, name, todo, strays, attempts, installed, loaded, names_left,
                     abandoned, old, unremoved>>
  BY DEF Written, Goes, incoming, disk, memory, locals, lists, bounds, removals
<1>2. FilesInv'
  <2>1. name[c] # None => <<pc[c], pc'[c]>> \in QuietSteps
    BY <1>0, <1>1 DEF Types, Named, QuietSteps, Owning, Cleaning, None
  <2>2. name[c] = None => pc'[c] \notin (Owning \cup Cleaning) \ {"waiting", "installing"}
    BY <1>0, <1>1 DEF Types, Named, Owning, Cleaning, None
  <2>3. \A d \in Calls : todo'[d] \cup strays'[d] \subseteq todo[d] \cup strays[d] \cup locks \cup segments
    BY <1>0, <1>1 DEF Types
  <2>4. pc'[c] \in Steps /\ pc' = [pc EXCEPT ![c] = pc'[c]]
    BY <1>0, <1>1 DEF Types, Steps
  <2>5. QED
    BY <1>0, <2>1, <2>2, <2>3, <2>4, <1>1, QuietStep
<1>3. OneWorker'
  BY <1>0, <1>1 DEF Types, OneWorker, Owning, Cleaning, Installing, None, Names
<1>4. Generations'
  BY <1>0, <1>1 DEF Types, Generations, OneWorker, Owning, Cleaning, Installing, None, Names
<1>5. Types'
  <2>1. pc' \in [Calls -> Steps]
    BY <1>0, <1>1 DEF Types, Steps
  <2>2. generation \in Nat
    BY <1>0 DEF Types
  <2>3. QED
    BY <1>0, <1>1, <2>1, <2>2 DEF Types, None
<1>6. QED
  BY <1>2, <1>3, <1>4, <1>5 DEF IInv, FilesInv

\* A failed expansion keeps its files until they are dropped.
LEMMA FailKeeps ==
  ASSUME IInv, NEW c \in Calls, Fail(c)
  PROVE  IInv'
<1> USE VectorSetAssumption
<1>0. /\ Types /\ FilesInv /\ OneWorker /\ Generations
      /\ Named /\ FreshNames /\ OneMaker /\ Holding /\ Segments /\ Aged /\ SegmentMarked /\ Left
  BY DEF IInv, FilesInv
<1>1. CASE pc[c] = "expanding"
  <2>1. /\ pc[c] = "expanding"
        /\ pc' = [pc EXCEPT ![c] = "unlocking"]
        /\ UNCHANGED <<generation, set_lock, locks, segments, held, work, session, view,
                       planning, name, todo, strays, attempts, installed, loaded, names_left,
                       abandoned, old, unremoved>>
    BY <1>1 DEF Fail, Goes, incoming, disk, memory, locals, lists, bounds, removals
  <2>2. FilesInv'
    <3>1. name[c] # None => <<pc[c], pc'[c]>> \in QuietSteps
      BY <1>1, <1>0, <2>1 DEF Types, Named, QuietSteps, Owning, Cleaning, None
    <3>2. name[c] = None => pc'[c] \notin (Owning \cup Cleaning) \ {"waiting", "installing"}
      BY <1>1, <1>0, <2>1 DEF Types, Named, Owning, Cleaning, None
    <3>3. \A d \in Calls : todo'[d] \cup strays'[d] \subseteq todo[d] \cup strays[d] \cup locks \cup segments
      BY <1>0, <2>1 DEF Types
    <3>4. pc'[c] \in Steps /\ pc' = [pc EXCEPT ![c] = pc'[c]]
      BY <1>0, <2>1 DEF Types, Steps
    <3>5. QED
      BY <1>0, <3>1, <3>2, <3>3, <3>4, <2>1, QuietStep
  <2>3. OneWorker'
    BY <1>1, <1>0, <2>1 DEF Types, OneWorker, Owning, Cleaning, Installing, None, Names
  <2>4. Generations'
    BY <1>1, <1>0, <2>1 DEF Types, Generations, OneWorker, Owning, Cleaning, Installing,
                            None, Names
  <2>5. Types'
    <3>1. pc' \in [Calls -> Steps]
      BY <1>1, <1>0, <2>1 DEF Types, Steps
    <3>2. generation \in Nat
      BY <1>0 DEF Types
    <3>3. QED
      BY <1>1, <1>0, <2>1, <3>1, <3>2 DEF Types, None
  <2>6. QED
    BY <2>2, <2>3, <2>4, <2>5 DEF IInv, FilesInv
<1>2. CASE pc[c] = "writing"
  <2>1. /\ pc[c] = "writing"
        /\ pc' = [pc EXCEPT ![c] = "dropping"]
        /\ UNCHANGED <<generation, set_lock, locks, segments, held, work, session, view,
                       planning, name, todo, strays, attempts, installed, loaded, names_left,
                       abandoned, old, unremoved>>
    BY <1>2 DEF Fail, Goes, incoming, disk, memory, locals, lists, bounds, removals
  <2>2. FilesInv'
    <3>1. name[c] # None => <<pc[c], pc'[c]>> \in QuietSteps
      BY <1>2, <1>0, <2>1 DEF Types, Named, QuietSteps, Owning, Cleaning, None
    <3>2. name[c] = None => pc'[c] \notin (Owning \cup Cleaning) \ {"waiting", "installing"}
      BY <1>2, <1>0, <2>1 DEF Types, Named, Owning, Cleaning, None
    <3>3. \A d \in Calls : todo'[d] \cup strays'[d] \subseteq todo[d] \cup strays[d] \cup locks \cup segments
      BY <1>0, <2>1 DEF Types
    <3>4. pc'[c] \in Steps /\ pc' = [pc EXCEPT ![c] = pc'[c]]
      BY <1>0, <2>1 DEF Types, Steps
    <3>5. QED
      BY <1>0, <3>1, <3>2, <3>3, <3>4, <2>1, QuietStep
  <2>3. OneWorker'
    BY <1>2, <1>0, <2>1 DEF Types, OneWorker, Owning, Cleaning, Installing, None, Names
  <2>4. Generations'
    BY <1>2, <1>0, <2>1 DEF Types, Generations, OneWorker, Owning, Cleaning, Installing,
                            None, Names
  <2>5. Types'
    <3>1. pc' \in [Calls -> Steps]
      BY <1>2, <1>0, <2>1 DEF Types, Steps
    <3>2. generation \in Nat
      BY <1>0 DEF Types
    <3>3. QED
      BY <1>2, <1>0, <2>1, <3>1, <3>2 DEF Types, None
  <2>6. QED
    BY <2>2, <2>3, <2>4, <2>5 DEF IInv, FilesInv
<1>3. QED
  BY <1>1, <1>2 DEF Fail, Goes, incoming, disk

\* Taking the set's lock changes no file of an expansion.
LEMMA LockSetKeeps ==
  ASSUME IInv, NEW c \in Calls, LockSet(c)
  PROVE  IInv'
<1> USE VectorSetAssumption
<1>0. /\ Types /\ FilesInv /\ OneWorker /\ Generations
      /\ Named /\ FreshNames /\ OneMaker /\ Holding /\ Segments /\ Aged /\ SegmentMarked /\ Left
  BY DEF IInv, FilesInv
<1>1. /\ pc[c] = "waiting" /\ set_lock = NoCall
      /\ set_lock' = c
      /\ pc' = [pc EXCEPT ![c] = "installing"]
      /\ UNCHANGED <<generation, locks, segments, held, work, session, view, planning, name,
                     todo, strays, attempts, installed, loaded, names_left, abandoned, old,
                     unremoved>>
  BY DEF LockSet, Goes, incoming, disk, memory, locals, lists, bounds, removals
<1>2. FilesInv'
  <2>1. name[c] # None => <<pc[c], pc'[c]>> \in QuietSteps
    BY <1>0, <1>1 DEF Types, Named, QuietSteps, Owning, Cleaning, None
  <2>2. name[c] = None => pc'[c] \notin (Owning \cup Cleaning) \ {"waiting", "installing"}
    BY <1>0, <1>1 DEF Types, Named, Owning, Cleaning, None
  <2>3. \A d \in Calls : todo'[d] \cup strays'[d] \subseteq todo[d] \cup strays[d] \cup locks \cup segments
    BY <1>0, <1>1 DEF Types
  <2>4. pc'[c] \in Steps /\ pc' = [pc EXCEPT ![c] = pc'[c]]
    BY <1>0, <1>1 DEF Types, Steps
  <2>5. QED
    BY <1>0, <2>1, <2>2, <2>3, <2>4, <1>1, QuietStep
<1>3. OneWorker'
  BY <1>0, <1>1 DEF Types, OneWorker, Owning, Cleaning, Installing, None, Names
<1>4. Generations'
  BY <1>0, <1>1 DEF Types, Generations, OneWorker, Owning, Cleaning, Installing, None, Names
<1>5. Types'
  <2>1. pc' \in [Calls -> Steps]
    BY <1>0, <1>1 DEF Types, Steps
  <2>2. generation \in Nat
    BY <1>0 DEF Types
  <2>3. QED
    BY <1>0, <1>1, <2>1, <2>2 DEF Types, None
<1>6. QED
  BY <1>2, <1>3, <1>4, <1>5 DEF IInv, FilesInv

\* Giving the wait up leads to the dropping of what was expanded.
LEMMA SetBusyKeeps ==
  ASSUME IInv, NEW c \in Calls, SetBusy(c)
  PROVE  IInv'
<1> USE VectorSetAssumption
<1>0. /\ Types /\ FilesInv /\ OneWorker /\ Generations
      /\ Named /\ FreshNames /\ OneMaker /\ Holding /\ Segments /\ Aged /\ SegmentMarked /\ Left
  BY DEF IInv, FilesInv
<1>1. CASE name[c] = None
  <2>1. /\ pc[c] = "waiting"
        /\ pc' = [pc EXCEPT ![c] = "returning"]
        /\ UNCHANGED <<generation, set_lock, locks, segments, held, work, session, view,
                       planning, name, todo, strays, attempts, installed, loaded, names_left,
                       abandoned, old, unremoved>>
    BY <1>1 DEF SetBusy, Goes, Dropping, incoming, disk, memory, locals, lists, bounds, removals
  <2>2. FilesInv'
    <3>1. name[c] # None => <<pc[c], pc'[c]>> \in QuietSteps
      BY <1>1, <1>0, <2>1 DEF Types, Named, QuietSteps, Owning, Cleaning, None
    <3>2. name[c] = None => pc'[c] \notin (Owning \cup Cleaning) \ {"waiting", "installing"}
      BY <1>1, <1>0, <2>1 DEF Types, Named, Owning, Cleaning, None
    <3>3. \A d \in Calls : todo'[d] \cup strays'[d] \subseteq todo[d] \cup strays[d] \cup locks \cup segments
      BY <1>0, <2>1 DEF Types
    <3>4. pc'[c] \in Steps /\ pc' = [pc EXCEPT ![c] = pc'[c]]
      BY <1>0, <2>1 DEF Types, Steps
    <3>5. QED
      BY <1>0, <3>1, <3>2, <3>3, <3>4, <2>1, QuietStep
  <2>3. OneWorker'
    BY <1>1, <1>0, <2>1 DEF Types, OneWorker, Owning, Cleaning, Installing, None, Names
  <2>4. Generations'
    BY <1>1, <1>0, <2>1 DEF Types, Generations, OneWorker, Owning, Cleaning, Installing,
                            None, Names
  <2>5. Types'
    <3>1. pc' \in [Calls -> Steps]
      BY <1>1, <1>0, <2>1 DEF Types, Steps
    <3>2. generation \in Nat
      BY <1>0 DEF Types
    <3>3. QED
      BY <1>1, <1>0, <2>1, <3>1, <3>2 DEF Types, None
  <2>6. QED
    BY <2>2, <2>3, <2>4, <2>5 DEF IInv, FilesInv
<1>2. CASE name[c] # None
  <2>1. /\ pc[c] = "waiting"
        /\ pc' = [pc EXCEPT ![c] = "dropping"]
        /\ UNCHANGED <<generation, set_lock, locks, segments, held, work, session, view,
                       planning, name, todo, strays, attempts, installed, loaded, names_left,
                       abandoned, old, unremoved>>
    BY <1>2 DEF SetBusy, Goes, Dropping, incoming, disk, memory, locals, lists, bounds, removals
  <2>2. FilesInv'
    <3>1. name[c] # None => <<pc[c], pc'[c]>> \in QuietSteps
      BY <1>2, <1>0, <2>1 DEF Types, Named, QuietSteps, Owning, Cleaning, None
    <3>2. name[c] = None => pc'[c] \notin (Owning \cup Cleaning) \ {"waiting", "installing"}
      BY <1>2, <1>0, <2>1 DEF Types, Named, Owning, Cleaning, None
    <3>3. \A d \in Calls : todo'[d] \cup strays'[d] \subseteq todo[d] \cup strays[d] \cup locks \cup segments
      BY <1>0, <2>1 DEF Types
    <3>4. pc'[c] \in Steps /\ pc' = [pc EXCEPT ![c] = pc'[c]]
      BY <1>0, <2>1 DEF Types, Steps
    <3>5. QED
      BY <1>0, <3>1, <3>2, <3>3, <3>4, <2>1, QuietStep
  <2>3. OneWorker'
    BY <1>2, <1>0, <2>1 DEF Types, OneWorker, Owning, Cleaning, Installing, None, Names
  <2>4. Generations'
    BY <1>2, <1>0, <2>1 DEF Types, Generations, OneWorker, Owning, Cleaning, Installing,
                            None, Names
  <2>5. Types'
    <3>1. pc' \in [Calls -> Steps]
      BY <1>2, <1>0, <2>1 DEF Types, Steps
    <3>2. generation \in Nat
      BY <1>0 DEF Types
    <3>3. QED
      BY <1>2, <1>0, <2>1, <3>1, <3>2 DEF Types, None
  <2>6. QED
    BY <2>2, <2>3, <2>4, <2>5 DEF IInv, FilesInv
<1>3. QED
  BY <1>1, <1>2 DEF SetBusy, Goes, Dropping, incoming, disk

\* An install takes the segment it expanded and makes the next generation.
LEMMA install_packageKeeps ==
  ASSUME IInv, NEW c \in Calls, install_package(c)
  PROVE  IInv'
<1> USE VectorSetAssumption
<1>0. /\ Types /\ FilesInv /\ OneWorker /\ Generations
      /\ Named /\ FreshNames /\ OneMaker /\ Holding /\ Segments /\ Aged /\ SegmentMarked /\ Left
  BY DEF IInv, FilesInv
<1>1. CASE name[c] = None
  <2>1. /\ pc[c] = "installing"
        /\ pc' = [pc EXCEPT ![c] = "reloading"]
    BY <1>1 DEF install_package, Goes, incoming, disk, memory, locals, lists, bounds, removals
  <2>2. /\ generation < MaxGeneration /\ generation' = generation + 1
        /\ set_lock' = NoCall
        /\ segments' = segments \ {name[c]}
        /\ installed' = [installed EXCEPT ![c] = generation + 1]
        /\ UNCHANGED <<locks, old, held, work, session, view, planning, name, todo, strays,
                       attempts, loaded, names_left, abandoned, unremoved>>
    BY <1>1 DEF install_package, Goes, incoming, disk, memory, locals, lists, bounds, removals
  <2>3. name[c] = None
    BY <1>1
  <2>4. /\ pc[c] = "installing" /\ pc'[c] = "reloading" /\ \A d \in Calls : d # c => pc'[d] = pc[d]
        /\ name' = name
        /\ held' = held
    BY <1>0, <2>1, <2>2 DEF Types
  <2>5. Named'
    BY <1>0, <2>2, <2>3, <2>4 DEF Named, Owning, Cleaning, None, Names
  <2>6. FreshNames'
    <3>1. \A n \in Names : n <= names_left =>
           n \notin locks' /\ n \notin segments' /\ n \notin old' /\ held'[n] = NoCall
      BY <1>0, <2>2, <2>3, <2>4, FreshOrNot DEF FreshNames
    <3>2. \A d \in Calls : name'[d] # None => name'[d] > names_left
      BY <1>0, <2>2, <2>3, <2>4 DEF FreshNames
    <3>3. \A d \in Calls : \A n \in todo'[d] \cup strays'[d] : n > names_left
      BY <1>0, <2>2 DEF FreshNames
    <3>4. QED
      BY <2>2, <3>1, <3>2, <3>3 DEF FreshNames
  <2>7. OneMaker' /\ Aged'
    <3>1. \A d \in Calls, n \in Names : Owns(d, n)' => Owns(d, n)
      BY <1>0, <2>2, <2>3, <2>4 DEF Owns, Owning, None, Names
    <3>2. old' \subseteq old /\ old \subseteq Names
      BY <1>0, <2>2 DEF Types
    <3>3. QED
      BY <1>0, <3>1, <3>2 DEF OneMaker, Aged
  <2>8. Holding'
    <3>1. \A d \in Calls :
           d # c /\ name[d] # None /\ pc[d] \in {"removing", "unmarking"} \cup (Owning \ {"locking"}) =>
             held[name[d]] = d /\ held'[name[d]] = d /\ name[d] \in Names
      <4>1. \A d \in Calls : name[d] # None => name[d] \in Names
        BY <1>0, NamesOfCalls
      <4>2. \A d \in Calls :
             name[d] # None /\ pc[d] \in {"removing", "unmarking"} \cup (Owning \ {"locking"}) => held[name[d]] = d
        BY <1>0 DEF Holding, Holder
      <4>3. NoCall \notin Calls
        BY VectorSetAssumption
      <4>4. QED
        BY <1>0, <2>2, <2>3, <2>4, <4>1, <4>2, <4>3
    <3>2. \A d \in Calls : pc'[d] \in {"removing", "unmarking"} => held'[name'[d]] = d
      BY <1>0, <2>2, <2>3, <2>4, <3>1 DEF Named, Holding, Holder, Owning, Cleaning
    <3>3. \A d \in Calls : pc'[d] \in Owning \ {"locking"} /\ name'[d] # None =>
           held'[name'[d]] = d /\ name'[d] \in locks'
      BY <1>0, <2>2, <2>3, <2>4, <3>1 DEF Holding, Holder, Owning
    <3>4. \A n \in Names : held'[n] # NoCall =>
           name'[held'[n]] = n /\ pc'[held'[n]] \notin {"trying", "locking"}
      BY <1>0, <2>2, <2>3, <2>4 DEF Holding, Holder, Types
    <3>5. QED
      BY <3>2, <3>3, <3>4 DEF Holding, Holder
  <2>9. Segments'
    BY <1>0, <2>2, <2>3, <2>4 DEF Segments, Owning, Types, None, Names
  <2>10. SegmentMarked'
    BY <1>0, <2>2, <2>3, <2>4 DEF SegmentMarked
  <2>11. Left'
    <3>1. \A d \in Calls, n \in Names :
           Owns(d, n) => Owns(d, n)' \/ n \notin locks' \cup segments' \/ n \in unremoved'
      <4>1. \A d \in Calls : d # c => pc'[d] = pc[d] /\ name'[d] = name[d]
        BY <2>4
      <4>2. \A n \in Names : name[c] # n
        BY <2>3 DEF None, Names
      <4>3. QED
        BY <4>1, <4>2 DEF Owns
    <3>2. \A n \in locks' \cup segments' : n \in locks \cup segments \/ \E d \in Calls : Owns(d, n)'
      BY <1>0, <2>2, <2>3, <2>4 DEF Owns, Owning
    <3>3. unremoved \subseteq unremoved' /\ locks \cup segments \subseteq Names /\ abandoned' = abandoned
      BY <1>0, <2>2 DEF Types
    <3>4. QED
      BY <1>0, <3>1, <3>2, <3>3 DEF Left
  <2>12. OneWorker'
    BY <1>0, <2>2, <2>4 DEF OneWorker, Installing, Owning, Cleaning
  <2>13. Generations'
    BY <1>0, <2>2, <2>4 DEF Generations, OneWorker, Types
  <2>14. Types'
    <3>1. pc' \in [Calls -> Steps]
      BY <1>0, <2>1 DEF Types, Steps
    <3>2. name' \in [Calls -> 0 .. MaxNames] /\ held' \in [Names -> Calls \cup {NoCall}]
      BY <1>0, <2>1, <2>2, <2>3 DEF Types, None, Names
    <3>3. generation \in Nat /\ generation + 1 \in 1 .. MaxGeneration
      BY <1>0, <2>2, VectorSetAssumption DEF Types
    <3>4. installed' \in [Calls -> Nat]
      BY <1>0, <2>2, <3>3 DEF Types
    <3>5. segments' \subseteq Names
      BY <1>0, <2>2 DEF Types
    <3>6. QED
      BY <1>0, <2>2, <3>1, <3>2, <3>3, <3>4, <3>5 DEF Types
  <2>15. QED
    BY <2>5, <2>6, <2>7, <2>8, <2>9, <2>10, <2>11, <2>12, <2>13, <2>14 DEF IInv, FilesInv
<1>2. CASE name[c] # None
  <2>1. /\ pc[c] = "installing"
        /\ pc' = [pc EXCEPT ![c] = "dropping"]
    BY <1>2 DEF install_package, Goes, incoming, disk, memory, locals, lists, bounds, removals
  <2>2. /\ generation < MaxGeneration /\ generation' = generation + 1
        /\ set_lock' = NoCall
        /\ segments' = segments \ {name[c]}
        /\ installed' = [installed EXCEPT ![c] = generation + 1]
        /\ UNCHANGED <<locks, old, held, work, session, view, planning, name, todo, strays,
                       attempts, loaded, names_left, abandoned, unremoved>>
    BY <1>2 DEF install_package, Goes, incoming, disk, memory, locals, lists, bounds, removals
  <2>3. name[c] \in Names /\ name[c] > names_left /\ held[name[c]] = c
    <3>1. name[c] # None
      BY <1>2
    <3>2. name[c] \in Names /\ name[c] > names_left
      BY <1>0, <3>1 DEF Types, FreshNames, None, Names
    <3>3. held[name[c]] = c
      BY <1>0, <2>1, <3>1 DEF Holding, Holder, Owning
    <3>4. QED
      BY <3>2, <3>3
  <2>4. /\ pc[c] = "installing" /\ pc'[c] = "dropping" /\ \A d \in Calls : d # c => pc'[d] = pc[d]
        /\ name' = name
        /\ held' = held
    BY <1>0, <2>1, <2>2 DEF Types
  <2>5. Named'
    BY <1>0, <2>2, <2>3, <2>4 DEF Named, Owning, Cleaning, None, Names
  <2>6. FreshNames'
    <3>1. \A n \in Names : n <= names_left =>
           n \notin locks' /\ n \notin segments' /\ n \notin old' /\ held'[n] = NoCall
      BY <1>0, <2>2, <2>3, <2>4, FreshOrNot DEF FreshNames
    <3>2. \A d \in Calls : name'[d] # None => name'[d] > names_left
      BY <1>0, <2>2, <2>3, <2>4 DEF FreshNames
    <3>3. \A d \in Calls : \A n \in todo'[d] \cup strays'[d] : n > names_left
      BY <1>0, <2>2 DEF FreshNames
    <3>4. QED
      BY <2>2, <3>1, <3>2, <3>3 DEF FreshNames
  <2>7. OneMaker' /\ Aged'
    <3>1. \A d \in Calls, n \in Names : Owns(d, n)' => Owns(d, n)
      BY <1>0, <2>2, <2>3, <2>4 DEF Owns, Owning, None, Names
    <3>2. old' \subseteq old /\ old \subseteq Names
      BY <1>0, <2>2 DEF Types
    <3>3. QED
      BY <1>0, <3>1, <3>2 DEF OneMaker, Aged
  <2>8. Holding'
    <3>1. \A d \in Calls :
           d # c /\ name[d] # None /\ pc[d] \in {"removing", "unmarking"} \cup (Owning \ {"locking"}) =>
             held[name[d]] = d /\ held'[name[d]] = d /\ name[d] \in Names
      <4>1. \A d \in Calls : name[d] # None => name[d] \in Names
        BY <1>0, NamesOfCalls
      <4>2. \A d \in Calls :
             name[d] # None /\ pc[d] \in {"removing", "unmarking"} \cup (Owning \ {"locking"}) => held[name[d]] = d
        BY <1>0 DEF Holding, Holder
      <4>3. NoCall \notin Calls
        BY VectorSetAssumption
      <4>4. QED
        BY <1>0, <2>2, <2>3, <2>4, <4>1, <4>2, <4>3
    <3>2. \A d \in Calls : pc'[d] \in {"removing", "unmarking"} => held'[name'[d]] = d
      BY <1>0, <2>2, <2>3, <2>4, <3>1 DEF Named, Holding, Holder, Owning, Cleaning
    <3>3. \A d \in Calls : pc'[d] \in Owning \ {"locking"} /\ name'[d] # None =>
           held'[name'[d]] = d /\ name'[d] \in locks'
      BY <1>0, <2>2, <2>3, <2>4, <3>1 DEF Holding, Holder, Owning
    <3>4. \A n \in Names : held'[n] # NoCall =>
           name'[held'[n]] = n /\ pc'[held'[n]] \notin {"trying", "locking"}
      BY <1>0, <2>2, <2>3, <2>4 DEF Holding, Holder, Types
    <3>5. QED
      BY <3>2, <3>3, <3>4 DEF Holding, Holder
  <2>9. Segments'
    <3>1. \A d \in Calls : d # c /\ name[d] = name[c] =>
           pc[d] \notin (Owning \ {"locking"}) \cup {"removing", "unmarking"}
      BY <1>0, <2>2, <2>3, <2>4 DEF Holding, Holder, None, Names
    <3>2. QED
      BY <1>0, <2>2, <2>3, <2>4, <3>1 DEF Segments, Owning
  <2>10. SegmentMarked'
    BY <1>0, <2>2, <2>3, <2>4 DEF SegmentMarked
  <2>11. Left'
    <3>1. \A d \in Calls, n \in Names :
           Owns(d, n) => Owns(d, n)' \/ n \notin locks' \cup segments' \/ n \in unremoved'
      BY <1>0, <2>2, <2>3, <2>4 DEF Segments, Owns, Owning
    <3>2. \A n \in locks' \cup segments' : n \in locks \cup segments \/ \E d \in Calls : Owns(d, n)'
      BY <1>0, <2>2, <2>3, <2>4 DEF Owns, Owning
    <3>3. unremoved \subseteq unremoved' /\ locks \cup segments \subseteq Names /\ abandoned' = abandoned
      BY <1>0, <2>2 DEF Types
    <3>4. QED
      BY <1>0, <3>1, <3>2, <3>3 DEF Left
  <2>12. OneWorker'
    BY <1>0, <2>2, <2>4 DEF OneWorker, Installing, Owning, Cleaning
  <2>13. Generations'
    BY <1>0, <2>2, <2>4 DEF Generations, OneWorker, Types
  <2>14. Types'
    <3>1. pc' \in [Calls -> Steps]
      BY <1>0, <2>1 DEF Types, Steps
    <3>2. name' \in [Calls -> 0 .. MaxNames] /\ held' \in [Names -> Calls \cup {NoCall}]
      BY <1>0, <2>1, <2>2, <2>3 DEF Types, None, Names
    <3>3. generation \in Nat /\ generation + 1 \in 1 .. MaxGeneration
      BY <1>0, <2>2, VectorSetAssumption DEF Types
    <3>4. installed' \in [Calls -> Nat]
      BY <1>0, <2>2, <3>3 DEF Types
    <3>5. segments' \subseteq Names
      BY <1>0, <2>2 DEF Types
    <3>6. QED
      BY <1>0, <2>2, <3>1, <3>2, <3>3, <3>4, <3>5 DEF Types
  <2>15. QED
    BY <2>5, <2>6, <2>7, <2>8, <2>9, <2>10, <2>11, <2>12, <2>13, <2>14 DEF IInv, FilesInv
<1>3. QED
  BY <1>1, <1>2 DEF install_package

\* An install that was applied already reloads all the same.
LEMMA AlreadyAppliedKeeps ==
  ASSUME IInv, NEW c \in Calls, AlreadyApplied(c)
  PROVE  IInv'
<1> USE VectorSetAssumption
<1>0. /\ Types /\ FilesInv /\ OneWorker /\ Generations
      /\ Named /\ FreshNames /\ OneMaker /\ Holding /\ Segments /\ Aged /\ SegmentMarked /\ Left
  BY DEF IInv, FilesInv
<1>1. CASE name[c] = None
  <2>1. /\ pc[c] = "installing"
        /\ set_lock' = NoCall
        /\ installed' = [installed EXCEPT ![c] = generation]
        /\ pc' = [pc EXCEPT ![c] = "reloading"]
        /\ UNCHANGED <<generation, locks, segments, held, work, session, view, planning, name,
                       todo, strays, attempts, loaded, names_left, abandoned, old,
                       unremoved>>
    BY <1>1 DEF AlreadyApplied, Goes, incoming, disk, memory, locals, lists, bounds, removals
  <2>2. FilesInv'
    <3>1. name[c] # None => <<pc[c], pc'[c]>> \in QuietSteps
      BY <1>1, <1>0, <2>1 DEF Types, Named, QuietSteps, Owning, Cleaning, None
    <3>2. name[c] = None => pc'[c] \notin (Owning \cup Cleaning) \ {"waiting", "installing"}
      BY <1>1, <1>0, <2>1 DEF Types, Named, Owning, Cleaning, None
    <3>3. \A d \in Calls : todo'[d] \cup strays'[d] \subseteq todo[d] \cup strays[d] \cup locks \cup segments
      BY <1>0, <2>1 DEF Types
    <3>4. pc'[c] \in Steps /\ pc' = [pc EXCEPT ![c] = pc'[c]]
      BY <1>0, <2>1 DEF Types, Steps
    <3>5. QED
      BY <1>0, <3>1, <3>2, <3>3, <3>4, <2>1, QuietStep
  <2>3. OneWorker'
    BY <1>1, <1>0, <2>1 DEF Types, OneWorker, Owning, Cleaning, Installing, None, Names
  <2>4. Generations'
    BY <1>1, <1>0, <2>1 DEF Types, Generations, OneWorker, Owning, Cleaning, Installing,
                            None, Names
  <2>5. Types'
    <3>1. pc' \in [Calls -> Steps]
      BY <1>1, <1>0, <2>1 DEF Types, Steps
    <3>2. generation \in Nat
      BY <1>0 DEF Types
    <3>3. QED
      BY <1>1, <1>0, <2>1, <3>1, <3>2 DEF Types, None
  <2>6. QED
    BY <2>2, <2>3, <2>4, <2>5 DEF IInv, FilesInv
<1>2. CASE name[c] # None
  <2>1. /\ pc[c] = "installing"
        /\ set_lock' = NoCall
        /\ installed' = [installed EXCEPT ![c] = generation]
        /\ pc' = [pc EXCEPT ![c] = "dropping"]
        /\ UNCHANGED <<generation, locks, segments, held, work, session, view, planning, name,
                       todo, strays, attempts, loaded, names_left, abandoned, old,
                       unremoved>>
    BY <1>2 DEF AlreadyApplied, Goes, incoming, disk, memory, locals, lists, bounds, removals
  <2>2. FilesInv'
    <3>1. name[c] # None => <<pc[c], pc'[c]>> \in QuietSteps
      BY <1>2, <1>0, <2>1 DEF Types, Named, QuietSteps, Owning, Cleaning, None
    <3>2. name[c] = None => pc'[c] \notin (Owning \cup Cleaning) \ {"waiting", "installing"}
      BY <1>2, <1>0, <2>1 DEF Types, Named, Owning, Cleaning, None
    <3>3. \A d \in Calls : todo'[d] \cup strays'[d] \subseteq todo[d] \cup strays[d] \cup locks \cup segments
      BY <1>0, <2>1 DEF Types
    <3>4. pc'[c] \in Steps /\ pc' = [pc EXCEPT ![c] = pc'[c]]
      BY <1>0, <2>1 DEF Types, Steps
    <3>5. QED
      BY <1>0, <3>1, <3>2, <3>3, <3>4, <2>1, QuietStep
  <2>3. OneWorker'
    BY <1>2, <1>0, <2>1 DEF Types, OneWorker, Owning, Cleaning, Installing, None, Names
  <2>4. Generations'
    BY <1>2, <1>0, <2>1 DEF Types, Generations, OneWorker, Owning, Cleaning, Installing,
                            None, Names
  <2>5. Types'
    <3>1. pc' \in [Calls -> Steps]
      BY <1>2, <1>0, <2>1 DEF Types, Steps
    <3>2. generation \in Nat
      BY <1>0 DEF Types
    <3>3. QED
      BY <1>2, <1>0, <2>1, <3>1, <3>2 DEF Types, None
  <2>6. QED
    BY <2>2, <2>3, <2>4, <2>5 DEF IInv, FilesInv
<1>3. QED
  BY <1>1, <1>2 DEF AlreadyApplied, Goes, incoming, disk

\* A refused release leads to the dropping of what was expanded.
LEMMA RefusedKeeps ==
  ASSUME IInv, NEW c \in Calls, Refused(c)
  PROVE  IInv'
<1> USE VectorSetAssumption
<1>0. /\ Types /\ FilesInv /\ OneWorker /\ Generations
      /\ Named /\ FreshNames /\ OneMaker /\ Holding /\ Segments /\ Aged /\ SegmentMarked /\ Left
  BY DEF IInv, FilesInv
<1>1. CASE name[c] = None
  <2>1. /\ pc[c] = "installing"
        /\ set_lock' = NoCall
        /\ pc' = [pc EXCEPT ![c] = "returning"]
        /\ UNCHANGED <<generation, locks, segments, held, work, session, view, planning, name,
                       todo, strays, attempts, installed, loaded, names_left, abandoned, old,
                       unremoved>>
    BY <1>1 DEF Refused, Goes, Dropping, incoming, disk, memory, locals, lists, bounds, removals
  <2>2. FilesInv'
    <3>1. name[c] # None => <<pc[c], pc'[c]>> \in QuietSteps
      BY <1>1, <1>0, <2>1 DEF Types, Named, QuietSteps, Owning, Cleaning, None
    <3>2. name[c] = None => pc'[c] \notin (Owning \cup Cleaning) \ {"waiting", "installing"}
      BY <1>1, <1>0, <2>1 DEF Types, Named, Owning, Cleaning, None
    <3>3. \A d \in Calls : todo'[d] \cup strays'[d] \subseteq todo[d] \cup strays[d] \cup locks \cup segments
      BY <1>0, <2>1 DEF Types
    <3>4. pc'[c] \in Steps /\ pc' = [pc EXCEPT ![c] = pc'[c]]
      BY <1>0, <2>1 DEF Types, Steps
    <3>5. QED
      BY <1>0, <3>1, <3>2, <3>3, <3>4, <2>1, QuietStep
  <2>3. OneWorker'
    BY <1>1, <1>0, <2>1 DEF Types, OneWorker, Owning, Cleaning, Installing, None, Names
  <2>4. Generations'
    BY <1>1, <1>0, <2>1 DEF Types, Generations, OneWorker, Owning, Cleaning, Installing,
                            None, Names
  <2>5. Types'
    <3>1. pc' \in [Calls -> Steps]
      BY <1>1, <1>0, <2>1 DEF Types, Steps
    <3>2. generation \in Nat
      BY <1>0 DEF Types
    <3>3. QED
      BY <1>1, <1>0, <2>1, <3>1, <3>2 DEF Types, None
  <2>6. QED
    BY <2>2, <2>3, <2>4, <2>5 DEF IInv, FilesInv
<1>2. CASE name[c] # None
  <2>1. /\ pc[c] = "installing"
        /\ set_lock' = NoCall
        /\ pc' = [pc EXCEPT ![c] = "dropping"]
        /\ UNCHANGED <<generation, locks, segments, held, work, session, view, planning, name,
                       todo, strays, attempts, installed, loaded, names_left, abandoned, old,
                       unremoved>>
    BY <1>2 DEF Refused, Goes, Dropping, incoming, disk, memory, locals, lists, bounds, removals
  <2>2. FilesInv'
    <3>1. name[c] # None => <<pc[c], pc'[c]>> \in QuietSteps
      BY <1>2, <1>0, <2>1 DEF Types, Named, QuietSteps, Owning, Cleaning, None
    <3>2. name[c] = None => pc'[c] \notin (Owning \cup Cleaning) \ {"waiting", "installing"}
      BY <1>2, <1>0, <2>1 DEF Types, Named, Owning, Cleaning, None
    <3>3. \A d \in Calls : todo'[d] \cup strays'[d] \subseteq todo[d] \cup strays[d] \cup locks \cup segments
      BY <1>0, <2>1 DEF Types
    <3>4. pc'[c] \in Steps /\ pc' = [pc EXCEPT ![c] = pc'[c]]
      BY <1>0, <2>1 DEF Types, Steps
    <3>5. QED
      BY <1>0, <3>1, <3>2, <3>3, <3>4, <2>1, QuietStep
  <2>3. OneWorker'
    BY <1>2, <1>0, <2>1 DEF Types, OneWorker, Owning, Cleaning, Installing, None, Names
  <2>4. Generations'
    BY <1>2, <1>0, <2>1 DEF Types, Generations, OneWorker, Owning, Cleaning, Installing,
                            None, Names
  <2>5. Types'
    <3>1. pc' \in [Calls -> Steps]
      BY <1>2, <1>0, <2>1 DEF Types, Steps
    <3>2. generation \in Nat
      BY <1>0 DEF Types
    <3>3. QED
      BY <1>2, <1>0, <2>1, <3>1, <3>2 DEF Types, None
  <2>6. QED
    BY <2>2, <2>3, <2>4, <2>5 DEF IInv, FilesInv
<1>3. QED
  BY <1>1, <1>2 DEF Refused, Goes, Dropping, incoming, disk

\* An expansion drops its own segment while it holds its lock file.
LEMMA DropSegmentKeeps ==
  ASSUME IInv, NEW c \in Calls, DropSegment(c)
  PROVE  IInv'
<1> USE VectorSetAssumption
<1>0. /\ Types /\ FilesInv /\ OneWorker /\ Generations
      /\ Named /\ FreshNames /\ OneMaker /\ Holding /\ Segments /\ Aged /\ SegmentMarked /\ Left
  BY DEF IInv, FilesInv
<1>1. /\ pc[c] = "dropping"
      /\ pc' = [pc EXCEPT ![c] = "unlocking"]
  BY DEF DropSegment, Goes, incoming, disk, memory, locals, lists, bounds, removals
<1>2. /\ segments' \subseteq segments /\ segments \subseteq segments' \cup {name[c]}
      /\ unremoved \subseteq unremoved' /\ unremoved' \subseteq unremoved \cup {name[c]}
      /\ name[c] \in segments' => name[c] \in unremoved'
      /\ UNCHANGED <<generation, set_lock, locks, old, held, work, session, view, planning,
                     name, todo, strays, attempts, installed, loaded, names_left, abandoned>>
  BY DEF DropSegment, Goes, incoming, disk, memory, locals, lists, bounds, removals, Remove,
     Stays
<1>3. name[c] \in Names /\ name[c] > names_left /\ held[name[c]] = c
  <2>1. name[c] # None
    BY <1>0, <1>1 DEF Named, Owning, Cleaning
  <2>2. name[c] \in Names /\ name[c] > names_left
    BY <1>0, <2>1 DEF Types, FreshNames, None, Names
  <2>3. held[name[c]] = c
    BY <1>0, <1>1, <2>1 DEF Holding, Holder, Owning
  <2>4. QED
    BY <2>2, <2>3
<1>4. /\ pc[c] = "dropping" /\ pc'[c] = "unlocking" /\ \A d \in Calls : d # c => pc'[d] = pc[d]
      /\ name' = name
      /\ held' = held
  BY <1>0, <1>1, <1>2 DEF Types
<1>5. Named'
  BY <1>0, <1>2, <1>3, <1>4 DEF Named, Owning, Cleaning, None, Names
<1>6. FreshNames'
  <2>1. \A n \in Names : n <= names_left =>
         n \notin locks' /\ n \notin segments' /\ n \notin old' /\ held'[n] = NoCall
    BY <1>0, <1>2, <1>3, <1>4, FreshOrNot DEF FreshNames
  <2>2. \A d \in Calls : name'[d] # None => name'[d] > names_left
    BY <1>0, <1>2, <1>3, <1>4 DEF FreshNames
  <2>3. \A d \in Calls : \A n \in todo'[d] \cup strays'[d] : n > names_left
    BY <1>0, <1>2 DEF FreshNames
  <2>4. QED
    BY <1>2, <2>1, <2>2, <2>3 DEF FreshNames
<1>7. OneMaker' /\ Aged'
  <2>1. \A d \in Calls, n \in Names : Owns(d, n)' => Owns(d, n)
    BY <1>0, <1>2, <1>3, <1>4 DEF Owns, Owning, None, Names
  <2>2. old' \subseteq old /\ old \subseteq Names
    BY <1>0, <1>2 DEF Types
  <2>3. QED
    BY <1>0, <2>1, <2>2 DEF OneMaker, Aged
<1>8. Holding'
  <2>1. \A d \in Calls :
         d # c /\ name[d] # None /\ pc[d] \in {"removing", "unmarking"} \cup (Owning \ {"locking"}) =>
           held[name[d]] = d /\ held'[name[d]] = d /\ name[d] \in Names
    <3>1. \A d \in Calls : name[d] # None => name[d] \in Names
      BY <1>0, NamesOfCalls
    <3>2. \A d \in Calls :
           name[d] # None /\ pc[d] \in {"removing", "unmarking"} \cup (Owning \ {"locking"}) => held[name[d]] = d
      BY <1>0 DEF Holding, Holder
    <3>3. NoCall \notin Calls
      BY VectorSetAssumption
    <3>4. QED
      BY <1>0, <1>2, <1>3, <1>4, <3>1, <3>2, <3>3
  <2>2. \A d \in Calls : pc'[d] \in {"removing", "unmarking"} => held'[name'[d]] = d
    BY <1>0, <1>2, <1>3, <1>4, <2>1 DEF Named, Holding, Holder, Owning, Cleaning
  <2>3. \A d \in Calls : pc'[d] \in Owning \ {"locking"} /\ name'[d] # None =>
         held'[name'[d]] = d /\ name'[d] \in locks'
    BY <1>0, <1>2, <1>3, <1>4, <2>1 DEF Holding, Holder, Owning
  <2>4. \A n \in Names : held'[n] # NoCall =>
         name'[held'[n]] = n /\ pc'[held'[n]] \notin {"trying", "locking"}
    BY <1>0, <1>2, <1>3, <1>4 DEF Holding, Holder, Types
  <2>5. QED
    BY <2>2, <2>3, <2>4 DEF Holding, Holder
<1>9. Segments'
  <2>1. \A d \in Calls : d # c /\ name[d] = name[c] =>
         pc[d] \notin (Owning \ {"locking"}) \cup {"removing", "unmarking"}
    BY <1>0, <1>2, <1>3, <1>4 DEF Holding, Holder, None, Names
  <2>2. QED
    BY <1>0, <1>2, <1>3, <1>4, <2>1 DEF Segments, Owning
<1>10. SegmentMarked'
  BY <1>0, <1>2, <1>3, <1>4 DEF SegmentMarked
<1>11. Left'
  <2>1. \A d \in Calls, n \in Names :
         Owns(d, n) => Owns(d, n)' \/ n \notin locks' \cup segments' \/ n \in unremoved'
    BY <1>0, <1>2, <1>3, <1>4 DEF Segments, Owns, Owning
  <2>2. \A n \in locks' \cup segments' : n \in locks \cup segments \/ \E d \in Calls : Owns(d, n)'
    BY <1>0, <1>2, <1>3, <1>4 DEF Owns, Owning
  <2>3. unremoved \subseteq unremoved' /\ locks \cup segments \subseteq Names /\ abandoned' = abandoned
    BY <1>0, <1>2 DEF Types
  <2>4. QED
    BY <1>0, <2>1, <2>2, <2>3 DEF Left
<1>12. OneWorker'
  <2>1. pc[c] \in Installing \ {"installing"}
    BY <1>1 DEF Installing, Owning, Cleaning
  <2>2. QED
    BY <1>0, <1>1, <1>2, <2>1, WorkingStep
<1>13. Generations'
  BY <1>0, <1>2, <1>4 DEF Generations, OneWorker, Types
<1>14. Types'
  <2>1. pc' \in [Calls -> Steps]
    BY <1>0, <1>1 DEF Types, Steps
  <2>2. name' \in [Calls -> 0 .. MaxNames] /\ held' \in [Names -> Calls \cup {NoCall}]
    BY <1>0, <1>1, <1>2, <1>3 DEF Types, None, Names
  <2>3. QED
    BY <1>0, <1>2, <1>3, <2>1, <2>2 DEF Types
<1>15. QED
  BY <1>5, <1>6, <1>7, <1>8, <1>9, <1>10, <1>11, <1>12, <1>13, <1>14 DEF IInv, FilesInv

\* An expansion drops its lock file after its segment.
LEMMA DropLockKeeps ==
  ASSUME IInv, NEW c \in Calls, DropLock(c)
  PROVE  IInv'
<1> USE VectorSetAssumption
<1>0. /\ Types /\ FilesInv /\ OneWorker /\ Generations
      /\ Named /\ FreshNames /\ OneMaker /\ Holding /\ Segments /\ Aged /\ SegmentMarked /\ Left
  BY DEF IInv, FilesInv
<1>1. /\ pc[c] = "unlocking"
      /\ pc' = [pc EXCEPT ![c] = IF installed[c] = None THEN "returning" ELSE "reloading"]
      /\ name' = [name EXCEPT ![c] = None]
      /\ held' = [held EXCEPT ![name[c]] = NoCall]
  BY DEF DropLock, Goes, incoming, disk, memory, locals, lists, bounds, removals
<1>2. /\ locks' \subseteq locks /\ locks \subseteq locks' \cup {name[c]}
      /\ unremoved \subseteq unremoved' /\ unremoved' \subseteq unremoved \cup {name[c]}
      /\ name[c] \in locks' => name[c] \in unremoved'
      /\ UNCHANGED <<generation, set_lock, segments, old, work, session, view, planning,
                     todo, strays, attempts, installed, loaded, names_left, abandoned>>
  BY DEF DropLock, Goes, incoming, disk, memory, locals, lists, bounds, removals, Remove,
     Stays
<1>3. name[c] \in Names /\ name[c] > names_left /\ held[name[c]] = c /\ (name[c] \in segments => name[c] \in unremoved)
  <2>1. name[c] # None
    BY <1>0, <1>1 DEF Named, Owning, Cleaning
  <2>2. name[c] \in Names /\ name[c] > names_left
    BY <1>0, <2>1 DEF Types, FreshNames, None, Names
  <2>3. held[name[c]] = c
    BY <1>0, <1>1, <2>1 DEF Holding, Holder, Segments, Owning
  <2>4. (name[c] \in segments => name[c] \in unremoved)
    BY <1>0, <1>1, <2>1 DEF Holding, Holder, Segments, Owning
  <2>5. QED
    BY <2>2, <2>3, <2>4
<1>4. /\ pc[c] = "unlocking" /\ pc'[c] = (IF installed[c] = None THEN "returning" ELSE "reloading") /\ \A d \in Calls : d # c => pc'[d] = pc[d]
      /\ name'[c] = None /\ \A d \in Calls : d # c => name'[d] = name[d]
      /\ held'[name[c]] = NoCall /\ \A n \in Names : n # name[c] => held'[n] = held[n]
  BY <1>0, <1>1, <1>2, <1>3 DEF Types
<1>5. Named'
  BY <1>0, <1>2, <1>3, <1>4 DEF Named, Owning, Cleaning, None, Names
<1>6. FreshNames'
  <2>1. \A n \in Names : n <= names_left =>
         n \notin locks' /\ n \notin segments' /\ n \notin old' /\ held'[n] = NoCall
    BY <1>0, <1>2, <1>3, <1>4, FreshOrNot DEF FreshNames
  <2>2. \A d \in Calls : name'[d] # None => name'[d] > names_left
    BY <1>0, <1>2, <1>3, <1>4 DEF FreshNames
  <2>3. \A d \in Calls : \A n \in todo'[d] \cup strays'[d] : n > names_left
    BY <1>0, <1>2 DEF FreshNames
  <2>4. QED
    BY <1>2, <2>1, <2>2, <2>3 DEF FreshNames
<1>7. OneMaker' /\ Aged'
  <2>1. \A d \in Calls, n \in Names : Owns(d, n)' => Owns(d, n)
    BY <1>0, <1>2, <1>3, <1>4 DEF Owns, Owning, None, Names
  <2>2. old' \subseteq old /\ old \subseteq Names
    BY <1>0, <1>2 DEF Types
  <2>3. QED
    BY <1>0, <2>1, <2>2 DEF OneMaker, Aged
<1>8. Holding'
  <2>1. \A d \in Calls :
         d # c /\ name[d] # None /\ pc[d] \in {"removing", "unmarking"} \cup (Owning \ {"locking"}) =>
           held[name[d]] = d /\ held'[name[d]] = d /\ name[d] \in Names
    <3>1. \A d \in Calls : name[d] # None => name[d] \in Names
      BY <1>0, NamesOfCalls
    <3>2. \A d \in Calls :
           name[d] # None /\ pc[d] \in {"removing", "unmarking"} \cup (Owning \ {"locking"}) => held[name[d]] = d
      BY <1>0 DEF Holding, Holder
    <3>3. NoCall \notin Calls
      BY VectorSetAssumption
    <3>4. QED
      BY <1>0, <1>2, <1>3, <1>4, <3>1, <3>2, <3>3
  <2>2. \A d \in Calls : pc'[d] \in {"removing", "unmarking"} => held'[name'[d]] = d
    BY <1>0, <1>2, <1>3, <1>4, <2>1 DEF Named, Holding, Holder, Owning, Cleaning
  <2>3. \A d \in Calls : pc'[d] \in Owning \ {"locking"} /\ name'[d] # None =>
         held'[name'[d]] = d /\ name'[d] \in locks'
    BY <1>0, <1>2, <1>3, <1>4, <2>1 DEF Holding, Holder, Owning
  <2>4. \A n \in Names : held'[n] # NoCall =>
         name'[held'[n]] = n /\ pc'[held'[n]] \notin {"trying", "locking"}
    BY <1>0, <1>2, <1>3, <1>4 DEF Holding, Holder, Types
  <2>5. QED
    BY <2>2, <2>3, <2>4 DEF Holding, Holder
<1>9. Segments'
  BY <1>0, <1>2, <1>3, <1>4 DEF Segments, Owning
<1>10. SegmentMarked'
  BY <1>0, <1>2, <1>3, <1>4 DEF SegmentMarked
<1>11. Left'
  <2>1. \A d \in Calls, n \in Names :
         Owns(d, n) => Owns(d, n)' \/ n \notin locks' \cup segments' \/ n \in unremoved'
    BY <1>0, <1>2, <1>3, <1>4 DEF Segments, Owns, Owning
  <2>2. \A n \in locks' \cup segments' : n \in locks \cup segments \/ \E d \in Calls : Owns(d, n)'
    BY <1>0, <1>2, <1>3, <1>4 DEF Owns, Owning
  <2>3. unremoved \subseteq unremoved' /\ locks \cup segments \subseteq Names /\ abandoned' = abandoned
    BY <1>0, <1>2 DEF Types
  <2>4. QED
    BY <1>0, <2>1, <2>2, <2>3 DEF Left
<1>12. OneWorker'
  <2>1. pc[c] \in Installing \ {"installing"}
    BY <1>1 DEF Installing, Owning, Cleaning
  <2>2. QED
    BY <1>0, <1>1, <1>2, <2>1, WorkingStep
<1>13. Generations'
  BY <1>0, <1>2, <1>4 DEF Generations, OneWorker, Types
<1>14. Types'
  <2>1. pc' \in [Calls -> Steps]
    BY <1>0, <1>1 DEF Types, Steps
  <2>2. name' \in [Calls -> 0 .. MaxNames] /\ held' \in [Names -> Calls \cup {NoCall}]
    BY <1>0, <1>1, <1>2, <1>3 DEF Types, None, Names
  <2>3. QED
    BY <1>0, <1>2, <1>3, <2>1, <2>2 DEF Types
<1>15. QED
  BY <1>5, <1>6, <1>7, <1>8, <1>9, <1>10, <1>11, <1>12, <1>13, <1>14 DEF IInv, FilesInv

\* The reload of an open session is the work of the call that holds the set's work.
LEMMA reload_open_vectorsKeeps ==
  ASSUME IInv, NEW c \in Calls, reload_open_vectors(c)
  PROVE  IInv'
<1> USE VectorSetAssumption
<1>0. /\ Types /\ FilesInv /\ OneWorker /\ Generations
      /\ Named /\ FreshNames /\ OneMaker /\ Holding /\ Segments /\ Aged /\ SegmentMarked /\ Left
  BY DEF IInv, FilesInv
<1>1. CASE session[ProcessOf(c)] = None
  <2>1. /\ pc[c] = "reloading"
        /\ pc' = [pc EXCEPT ![c] = "returning"]
        /\ UNCHANGED <<generation, set_lock, locks, segments, held, work, session, view,
                       planning, name, todo, strays, attempts, installed, loaded, names_left,
                       abandoned, old, unremoved>>
    BY <1>1 DEF reload_open_vectors, Goes, incoming, disk, memory, locals, lists, bounds, removals
  <2>2. FilesInv'
    <3>1. name[c] # None => <<pc[c], pc'[c]>> \in QuietSteps
      BY <1>1, <1>0, <2>1 DEF Types, Named, QuietSteps, Owning, Cleaning, None
    <3>2. name[c] = None => pc'[c] \notin (Owning \cup Cleaning) \ {"waiting", "installing"}
      BY <1>1, <1>0, <2>1 DEF Types, Named, Owning, Cleaning, None
    <3>3. \A d \in Calls : todo'[d] \cup strays'[d] \subseteq todo[d] \cup strays[d] \cup locks \cup segments
      BY <1>0, <2>1 DEF Types
    <3>4. pc'[c] \in Steps /\ pc' = [pc EXCEPT ![c] = pc'[c]]
      BY <1>0, <2>1 DEF Types, Steps
    <3>5. QED
      BY <1>0, <3>1, <3>2, <3>3, <3>4, <2>1, QuietStep
  <2>3. OneWorker'
    BY <1>1, <1>0, <2>1 DEF Types, OneWorker, Owning, Cleaning, Installing, None, Names
  <2>4. Generations'
    BY <1>1, <1>0, <2>1 DEF Types, Generations, OneWorker, Owning, Cleaning, Installing,
                            None, Names
  <2>5. Types'
    <3>1. pc' \in [Calls -> Steps]
      BY <1>1, <1>0, <2>1 DEF Types, Steps
    <3>2. generation \in Nat
      BY <1>0 DEF Types
    <3>3. QED
      BY <1>1, <1>0, <2>1, <3>1, <3>2 DEF Types, None
  <2>6. QED
    BY <2>2, <2>3, <2>4, <2>5 DEF IInv, FilesInv
<1>2. CASE session[ProcessOf(c)] # None
  <2>1. /\ pc[c] = "reloading"
        /\ view' = [view EXCEPT ![ProcessOf(c)] = None]
        /\ pc' = [pc EXCEPT ![c] = "loading"]
        /\ UNCHANGED <<generation, set_lock, locks, segments, held, work, session, planning,
                       name, todo, strays, attempts, installed, loaded, names_left, abandoned,
                       old, unremoved>>
    BY <1>2 DEF reload_open_vectors, Goes, incoming, disk, memory, locals, lists, bounds, removals
  <2>2. FilesInv'
    <3>1. name[c] # None => <<pc[c], pc'[c]>> \in QuietSteps
      BY <1>2, <1>0, <2>1 DEF Types, Named, QuietSteps, Owning, Cleaning, None
    <3>2. name[c] = None => pc'[c] \notin (Owning \cup Cleaning) \ {"waiting", "installing"}
      BY <1>2, <1>0, <2>1 DEF Types, Named, Owning, Cleaning, None
    <3>3. \A d \in Calls : todo'[d] \cup strays'[d] \subseteq todo[d] \cup strays[d] \cup locks \cup segments
      BY <1>0, <2>1 DEF Types
    <3>4. pc'[c] \in Steps /\ pc' = [pc EXCEPT ![c] = pc'[c]]
      BY <1>0, <2>1 DEF Types, Steps
    <3>5. QED
      BY <1>0, <3>1, <3>2, <3>3, <3>4, <2>1, QuietStep
  <2>3. OneWorker'
    BY <1>2, <1>0, <2>1 DEF Types, OneWorker, Owning, Cleaning, Installing, None, Names
  <2>4. Generations'
    BY <1>2, <1>0, <2>1 DEF Types, Generations, OneWorker, Owning, Cleaning, Installing,
                            None, Names
  <2>5. Types'
    <3>1. pc' \in [Calls -> Steps]
      BY <1>2, <1>0, <2>1 DEF Types, Steps
    <3>2. generation \in Nat
      BY <1>0 DEF Types
    <3>3. QED
      BY <1>2, <1>0, <2>1, <3>1, <3>2 DEF Types, None
  <2>6. QED
    BY <2>2, <2>3, <2>4, <2>5 DEF IInv, FilesInv
<1>3. QED
  BY <1>1, <1>2 DEF reload_open_vectors, Goes, incoming, disk

\* What a reload loads is the live generation, no older than the session's.
LEMMA LoadKeeps ==
  ASSUME IInv, NEW c \in Calls, Load(c)
  PROVE  IInv'
<1> USE VectorSetAssumption
<1>0. /\ Types /\ FilesInv /\ OneWorker /\ Generations
      /\ Named /\ FreshNames /\ OneMaker /\ Holding /\ Segments /\ Aged /\ SegmentMarked /\ Left
  BY DEF IInv, FilesInv
<1>1. /\ pc[c] = "loading"
      /\ pc' = [pc EXCEPT ![c] = "swapping"]
      /\ loaded' = [loaded EXCEPT ![c] = generation]
      /\ UNCHANGED <<generation, set_lock, locks, segments, held, work, session, view,
                     planning, name, todo, strays, attempts, installed, names_left, abandoned,
                     old, unremoved>>
  BY DEF Load, Goes, incoming, disk, memory, locals, lists, bounds, removals
<1>2. FilesInv'
  <2>1. name[c] # None => <<pc[c], pc'[c]>> \in QuietSteps
    BY <1>0, <1>1 DEF Types, Named, QuietSteps, Owning, Cleaning, None
  <2>2. name[c] = None => pc'[c] \notin (Owning \cup Cleaning) \ {"waiting", "installing"}
    BY <1>0, <1>1 DEF Types, Named, Owning, Cleaning, None
  <2>3. \A d \in Calls : todo'[d] \cup strays'[d] \subseteq todo[d] \cup strays[d] \cup locks \cup segments
    BY <1>0, <1>1 DEF Types
  <2>4. pc'[c] \in Steps /\ pc' = [pc EXCEPT ![c] = pc'[c]]
    BY <1>0, <1>1 DEF Types, Steps
  <2>5. QED
    BY <1>0, <2>1, <2>2, <2>3, <2>4, <1>1, QuietStep
<1>3. OneWorker'
  BY <1>0, <1>1 DEF Types, OneWorker, Owning, Cleaning, Installing, None, Names
<1>4. Generations'
  <2>1. /\ pc'[c] = "swapping" /\ loaded'[c] = generation
        /\ \A d \in Calls : d # c => pc'[d] = pc[d] /\ loaded'[d] = loaded[d]
    BY <1>0, <1>1 DEF Types
  <2>2. generation <= generation
    BY <1>0 DEF Types
  <2>3. /\ \A d \in Calls : ProcessOf(d) \in Processes
        /\ UNCHANGED <<generation, session, view, planning>>
    BY <1>1
  <2>4. QED
    BY <1>0, <1>1, <2>1, <2>2, <2>3 DEF Generations
<1>5. Types'
  <2>1. generation \in Nat
    BY <1>0 DEF Types
  <2>2. loaded' \in [Calls -> Nat]
    BY <1>0, <1>1, <2>1 DEF Types
  <2>3. QED
    BY <1>0, <1>1, <2>2 DEF Types, Steps
<1>6. QED
  BY <1>2, <1>3, <1>4, <1>5 DEF IInv, FilesInv

\* A reload that fails leaves the session as it was.
LEMMA LoadFailsKeeps ==
  ASSUME IInv, NEW c \in Calls, LoadFails(c)
  PROVE  IInv'
<1> USE VectorSetAssumption
<1>0. /\ Types /\ FilesInv /\ OneWorker /\ Generations
      /\ Named /\ FreshNames /\ OneMaker /\ Holding /\ Segments /\ Aged /\ SegmentMarked /\ Left
  BY DEF IInv, FilesInv
<1>1. /\ pc[c] = "loading"
      /\ pc' = [pc EXCEPT ![c] = "returning"]
      /\ UNCHANGED <<generation, set_lock, locks, segments, held, work, session, view,
                     planning, name, todo, strays, attempts, installed, loaded, names_left,
                     abandoned, old, unremoved>>
  BY DEF LoadFails, Goes, incoming, disk, memory, locals, lists, bounds, removals
<1>2. FilesInv'
  <2>1. name[c] # None => <<pc[c], pc'[c]>> \in QuietSteps
    BY <1>0, <1>1 DEF Types, Named, QuietSteps, Owning, Cleaning, None
  <2>2. name[c] = None => pc'[c] \notin (Owning \cup Cleaning) \ {"waiting", "installing"}
    BY <1>0, <1>1 DEF Types, Named, Owning, Cleaning, None
  <2>3. \A d \in Calls : todo'[d] \cup strays'[d] \subseteq todo[d] \cup strays[d] \cup locks \cup segments
    BY <1>0, <1>1 DEF Types
  <2>4. pc'[c] \in Steps /\ pc' = [pc EXCEPT ![c] = pc'[c]]
    BY <1>0, <1>1 DEF Types, Steps
  <2>5. QED
    BY <1>0, <2>1, <2>2, <2>3, <2>4, <1>1, QuietStep
<1>3. OneWorker'
  BY <1>0, <1>1 DEF Types, OneWorker, Owning, Cleaning, Installing, None, Names
<1>4. Generations'
  BY <1>0, <1>1 DEF Types, Generations, OneWorker, Owning, Cleaning, Installing, None, Names
<1>5. Types'
  <2>1. pc' \in [Calls -> Steps]
    BY <1>0, <1>1 DEF Types, Steps
  <2>2. generation \in Nat
    BY <1>0 DEF Types
  <2>3. QED
    BY <1>0, <1>1, <2>1, <2>2 DEF Types, None
<1>6. QED
  BY <1>2, <1>3, <1>4, <1>5 DEF IInv, FilesInv

\* The session is given a generation that was live.
LEMMA SwapKeeps ==
  ASSUME IInv, NEW c \in Calls, Swap(c)
  PROVE  IInv'
<1> USE VectorSetAssumption
<1>0. /\ Types /\ FilesInv /\ OneWorker /\ Generations
      /\ Named /\ FreshNames /\ OneMaker /\ Holding /\ Segments /\ Aged /\ SegmentMarked /\ Left
  BY DEF IInv, FilesInv
<1>1. /\ pc[c] = "swapping"
      /\ session' = [session EXCEPT ![ProcessOf(c)] = loaded[c]]
      /\ pc' = [pc EXCEPT ![c] = "returning"]
      /\ UNCHANGED <<generation, set_lock, locks, segments, held, work, view, planning, name,
                     todo, strays, attempts, installed, loaded, names_left, abandoned, old,
                     unremoved>>
  BY DEF Swap, Goes, incoming, disk, memory, locals, lists, bounds, removals
<1>2. FilesInv'
  <2>1. name[c] # None => <<pc[c], pc'[c]>> \in QuietSteps
    BY <1>0, <1>1 DEF Types, Named, QuietSteps, Owning, Cleaning, None
  <2>2. name[c] = None => pc'[c] \notin (Owning \cup Cleaning) \ {"waiting", "installing"}
    BY <1>0, <1>1 DEF Types, Named, Owning, Cleaning, None
  <2>3. \A d \in Calls : todo'[d] \cup strays'[d] \subseteq todo[d] \cup strays[d] \cup locks \cup segments
    BY <1>0, <1>1 DEF Types
  <2>4. pc'[c] \in Steps /\ pc' = [pc EXCEPT ![c] = pc'[c]]
    BY <1>0, <1>1 DEF Types, Steps
  <2>5. QED
    BY <1>0, <2>1, <2>2, <2>3, <2>4, <1>1, QuietStep
<1>3. OneWorker'
  BY <1>0, <1>1 DEF Types, OneWorker, Owning, Cleaning, Installing, None, Names
<1>4. Generations'
  BY <1>0, <1>1 DEF Types, Generations, OneWorker, Owning, Cleaning, Installing, None, Names
<1>5. Types'
  <2>1. pc' \in [Calls -> Steps]
    BY <1>0, <1>1 DEF Types, Steps
  <2>2. generation \in Nat
    BY <1>0 DEF Types
  <2>3. QED
    BY <1>0, <1>1, <2>1, <2>2 DEF Types, None
<1>6. QED
  BY <1>2, <1>3, <1>4, <1>5 DEF IInv, FilesInv

\* A call that returns has no expansion, and gives up the set's work if it has it.
LEMMA ReturnKeeps ==
  ASSUME IInv, NEW c \in Calls, Return(c)
  PROVE  IInv'
<1> USE VectorSetAssumption
<1>0. /\ Types /\ FilesInv /\ OneWorker /\ Generations
      /\ Named /\ FreshNames /\ OneMaker /\ Holding /\ Segments /\ Aged /\ SegmentMarked /\ Left
  BY DEF IInv, FilesInv
<1>1. /\ pc[c] = "returning"
      /\ work' = [work EXCEPT ![ProcessOf(c)] = IF @ = c THEN NoCall ELSE @]
      /\ pc' = [pc EXCEPT ![c] = "idle"]
      /\ attempts' = [attempts EXCEPT ![c] = 0]
      /\ installed' = [installed EXCEPT ![c] = None]
      /\ loaded' = [loaded EXCEPT ![c] = None]
      /\ UNCHANGED <<generation, set_lock, locks, segments, held, session, view, planning,
                     name, todo, strays, names_left, abandoned, old, unremoved>>
  BY DEF Return, Goes, incoming, disk, memory, locals, lists, bounds, removals
<1>2. FilesInv'
  <2>1. name[c] # None => <<pc[c], pc'[c]>> \in QuietSteps
    BY <1>0, <1>1 DEF Types, Named, QuietSteps, Owning, Cleaning, None
  <2>2. name[c] = None => pc'[c] \notin (Owning \cup Cleaning) \ {"waiting", "installing"}
    BY <1>0, <1>1 DEF Types, Named, Owning, Cleaning, None
  <2>3. \A d \in Calls : todo'[d] \cup strays'[d] \subseteq todo[d] \cup strays[d] \cup locks \cup segments
    BY <1>0, <1>1 DEF Types
  <2>4. pc'[c] \in Steps /\ pc' = [pc EXCEPT ![c] = pc'[c]]
    BY <1>0, <1>1 DEF Types, Steps
  <2>5. QED
    BY <1>0, <2>1, <2>2, <2>3, <2>4, <1>1, QuietStep
<1>3. OneWorker'
  BY <1>0, <1>1 DEF Types, OneWorker, Owning, Cleaning, Installing, None, Names
<1>4. Generations'
  BY <1>0, <1>1 DEF Types, Generations, OneWorker, Owning, Cleaning, Installing, None, Names
<1>5. Types'
  <2>1. pc' \in [Calls -> Steps]
    BY <1>0, <1>1 DEF Types, Steps
  <2>2. generation \in Nat
    BY <1>0 DEF Types
  <2>3. QED
    BY <1>0, <1>1, <2>1, <2>2 DEF Types, None
<1>6. QED
  BY <1>2, <1>3, <1>4, <1>5 DEF IInv, FilesInv

\* Opening a session may take the set's lock, and changes no file.
LEMMA open_semantic_artifactKeeps ==
  ASSUME IInv, NEW c \in Calls, open_semantic_artifact(c)
  PROVE  IInv'
<1> USE VectorSetAssumption
<1>0. /\ Types /\ FilesInv /\ OneWorker /\ Generations
      /\ Named /\ FreshNames /\ OneMaker /\ Holding /\ Segments /\ Aged /\ SegmentMarked /\ Left
  BY DEF IInv, FilesInv
<1>1. CASE set_lock' = set_lock
  <2>1. /\ pc[c] = "idle"
        /\ pc' = [pc EXCEPT ![c] = "opening"]
        /\ UNCHANGED <<generation, set_lock, locks, segments, held, work, session, view,
                       planning, name, todo, strays, attempts, installed, loaded, names_left,
                       abandoned, old, unremoved>>
    BY <1>1 DEF open_semantic_artifact, Begins, Goes, incoming, disk, memory, locals, lists, bounds, removals
  <2>2. FilesInv'
    <3>1. name[c] # None => <<pc[c], pc'[c]>> \in QuietSteps
      BY <1>1, <1>0, <2>1 DEF Types, Named, QuietSteps, Owning, Cleaning, None
    <3>2. name[c] = None => pc'[c] \notin (Owning \cup Cleaning) \ {"waiting", "installing"}
      BY <1>1, <1>0, <2>1 DEF Types, Named, Owning, Cleaning, None
    <3>3. \A d \in Calls : todo'[d] \cup strays'[d] \subseteq todo[d] \cup strays[d] \cup locks \cup segments
      BY <1>0, <2>1 DEF Types
    <3>4. pc'[c] \in Steps /\ pc' = [pc EXCEPT ![c] = pc'[c]]
      BY <1>0, <2>1 DEF Types, Steps
    <3>5. QED
      BY <1>0, <3>1, <3>2, <3>3, <3>4, <2>1, QuietStep
  <2>3. OneWorker'
    BY <1>1, <1>0, <2>1 DEF Types, OneWorker, Owning, Cleaning, Installing, None, Names
  <2>4. Generations'
    BY <1>1, <1>0, <2>1 DEF Types, Generations, OneWorker, Owning, Cleaning, Installing,
                            None, Names
  <2>5. Types'
    <3>1. pc' \in [Calls -> Steps]
      BY <1>1, <1>0, <2>1 DEF Types, Steps
    <3>2. generation \in Nat
      BY <1>0 DEF Types
    <3>3. QED
      BY <1>1, <1>0, <2>1, <3>1, <3>2 DEF Types, None
  <2>6. QED
    BY <2>2, <2>3, <2>4, <2>5 DEF IInv, FilesInv
<1>2. CASE set_lock = NoCall /\ set_lock' = c
  <2>1. /\ pc[c] = "idle"
        /\ set_lock' = c
        /\ pc' = [pc EXCEPT ![c] = "opening"]
        /\ UNCHANGED <<generation, locks, segments, held, work, session, view, planning, name,
                       todo, strays, attempts, installed, loaded, names_left, abandoned, old,
                       unremoved>>
    BY <1>2 DEF open_semantic_artifact, Begins, Goes, incoming, disk, memory, locals, lists, bounds, removals
  <2>2. FilesInv'
    <3>1. name[c] # None => <<pc[c], pc'[c]>> \in QuietSteps
      BY <1>2, <1>0, <2>1 DEF Types, Named, QuietSteps, Owning, Cleaning, None
    <3>2. name[c] = None => pc'[c] \notin (Owning \cup Cleaning) \ {"waiting", "installing"}
      BY <1>2, <1>0, <2>1 DEF Types, Named, Owning, Cleaning, None
    <3>3. \A d \in Calls : todo'[d] \cup strays'[d] \subseteq todo[d] \cup strays[d] \cup locks \cup segments
      BY <1>0, <2>1 DEF Types
    <3>4. pc'[c] \in Steps /\ pc' = [pc EXCEPT ![c] = pc'[c]]
      BY <1>0, <2>1 DEF Types, Steps
    <3>5. QED
      BY <1>0, <3>1, <3>2, <3>3, <3>4, <2>1, QuietStep
  <2>3. OneWorker'
    BY <1>2, <1>0, <2>1 DEF Types, OneWorker, Owning, Cleaning, Installing, None, Names
  <2>4. Generations'
    BY <1>2, <1>0, <2>1 DEF Types, Generations, OneWorker, Owning, Cleaning, Installing,
                            None, Names
  <2>5. Types'
    <3>1. pc' \in [Calls -> Steps]
      BY <1>2, <1>0, <2>1 DEF Types, Steps
    <3>2. generation \in Nat
      BY <1>0 DEF Types
    <3>3. QED
      BY <1>2, <1>0, <2>1, <3>1, <3>2 DEF Types, None
  <2>6. QED
    BY <2>2, <2>3, <2>4, <2>5 DEF IInv, FilesInv
<1>3. QED
  BY <1>1, <1>2 DEF open_semantic_artifact, Begins, Goes, incoming, disk

\* What opening loads is the live generation, and the set's lock is let go.
LEMMA OpenedKeeps ==
  ASSUME IInv, NEW c \in Calls, Opened(c)
  PROVE  IInv'
<1> USE VectorSetAssumption
<1>0. /\ Types /\ FilesInv /\ OneWorker /\ Generations
      /\ Named /\ FreshNames /\ OneMaker /\ Holding /\ Segments /\ Aged /\ SegmentMarked /\ Left
  BY DEF IInv, FilesInv
<1>1. CASE Goes(c, "opening", "storing") /\ loaded' = [loaded EXCEPT ![c] = generation]
  <2>1. /\ pc[c] = "opening"
        /\ set_lock' = IF set_lock = c THEN NoCall ELSE set_lock
        /\ pc' = [pc EXCEPT ![c] = "storing"]
        /\ loaded' = [loaded EXCEPT ![c] = generation]
        /\ UNCHANGED <<generation, locks, segments, held, work, session, view, planning, name,
                       todo, strays, attempts, installed, names_left, abandoned, old,
                       unremoved>>
    BY <1>1 DEF Opened, Goes, incoming, disk, memory, locals, lists, bounds, removals
  <2>2. FilesInv'
    <3>1. name[c] # None => <<pc[c], pc'[c]>> \in QuietSteps
      BY <1>1, <1>0, <2>1 DEF Types, Named, QuietSteps, Owning, Cleaning, None
    <3>2. name[c] = None => pc'[c] \notin (Owning \cup Cleaning) \ {"waiting", "installing"}
      BY <1>1, <1>0, <2>1 DEF Types, Named, Owning, Cleaning, None
    <3>3. \A d \in Calls : todo'[d] \cup strays'[d] \subseteq todo[d] \cup strays[d] \cup locks \cup segments
      BY <1>0, <2>1 DEF Types
    <3>4. pc'[c] \in Steps /\ pc' = [pc EXCEPT ![c] = pc'[c]]
      BY <1>0, <2>1 DEF Types, Steps
    <3>5. QED
      BY <1>0, <3>1, <3>2, <3>3, <3>4, <2>1, QuietStep
  <2>3. OneWorker'
    BY <1>1, <1>0, <2>1 DEF Types, OneWorker, Owning, Cleaning, Installing, None, Names
  <2>4. Generations'
    BY <1>1, <1>0, <2>1 DEF Types, Generations, OneWorker, Owning, Cleaning, Installing,
                            None, Names
  <2>5. Types'
    <3>1. generation \in Nat
      BY <1>0 DEF Types
    <3>2. loaded' \in [Calls -> Nat]
      BY <1>0, <2>1, <3>1 DEF Types
    <3>3. set_lock' \in Calls \cup {NoCall}
      BY <1>0, <2>1 DEF Types
    <3>4. QED
      BY <1>0, <2>1, <3>2, <3>3 DEF Types, Steps
  <2>6. QED
    BY <2>2, <2>3, <2>4, <2>5 DEF IInv, FilesInv
<1>2. CASE Goes(c, "opening", "returning") /\ UNCHANGED loaded
  <2>1. /\ pc[c] = "opening"
        /\ set_lock' = IF set_lock = c THEN NoCall ELSE set_lock
        /\ pc' = [pc EXCEPT ![c] = "returning"]
        /\ UNCHANGED <<generation, locks, segments, held, work, session, view, planning, name,
                       todo, strays, attempts, installed, loaded, names_left, abandoned, old,
                       unremoved>>
    BY <1>2 DEF Opened, Goes, incoming, disk, memory, locals, lists, bounds, removals
  <2>2. FilesInv'
    <3>1. name[c] # None => <<pc[c], pc'[c]>> \in QuietSteps
      BY <1>2, <1>0, <2>1 DEF Types, Named, QuietSteps, Owning, Cleaning, None
    <3>2. name[c] = None => pc'[c] \notin (Owning \cup Cleaning) \ {"waiting", "installing"}
      BY <1>2, <1>0, <2>1 DEF Types, Named, Owning, Cleaning, None
    <3>3. \A d \in Calls : todo'[d] \cup strays'[d] \subseteq todo[d] \cup strays[d] \cup locks \cup segments
      BY <1>0, <2>1 DEF Types
    <3>4. pc'[c] \in Steps /\ pc' = [pc EXCEPT ![c] = pc'[c]]
      BY <1>0, <2>1 DEF Types, Steps
    <3>5. QED
      BY <1>0, <3>1, <3>2, <3>3, <3>4, <2>1, QuietStep
  <2>3. OneWorker'
    BY <1>2, <1>0, <2>1 DEF Types, OneWorker, Owning, Cleaning, Installing, None, Names
  <2>4. Generations'
    BY <1>2, <1>0, <2>1 DEF Types, Generations, OneWorker, Owning, Cleaning, Installing,
                            None, Names
  <2>5. Types'
    <3>1. pc' \in [Calls -> Steps]
      BY <1>2, <1>0, <2>1 DEF Types, Steps
    <3>2. generation \in Nat
      BY <1>0 DEF Types
    <3>3. QED
      BY <1>2, <1>0, <2>1, <3>1, <3>2 DEF Types, None
  <2>6. QED
    BY <2>2, <2>3, <2>4, <2>5 DEF IInv, FilesInv
<1>3. QED
  BY <1>1, <1>2 DEF Opened, Goes, incoming, disk

\* The session stored is of a generation that was live.
LEMMA StoreKeeps ==
  ASSUME IInv, NEW c \in Calls, Store(c)
  PROVE  IInv'
<1> USE VectorSetAssumption
<1>0. /\ Types /\ FilesInv /\ OneWorker /\ Generations
      /\ Named /\ FreshNames /\ OneMaker /\ Holding /\ Segments /\ Aged /\ SegmentMarked /\ Left
  BY DEF IInv, FilesInv
<1>1. /\ pc[c] = "storing"
      /\ session' = [session EXCEPT ![ProcessOf(c)] = IF @ = None THEN loaded[c] ELSE @]
      /\ pc' = [pc EXCEPT ![c] = "returning"]
      /\ UNCHANGED <<generation, set_lock, locks, segments, held, work, view, planning, name,
                     todo, strays, attempts, installed, loaded, names_left, abandoned, old,
                     unremoved>>
  BY DEF Store, Goes, incoming, disk, memory, locals, lists, bounds, removals
<1>2. FilesInv'
  <2>1. name[c] # None => <<pc[c], pc'[c]>> \in QuietSteps
    BY <1>0, <1>1 DEF Types, Named, QuietSteps, Owning, Cleaning, None
  <2>2. name[c] = None => pc'[c] \notin (Owning \cup Cleaning) \ {"waiting", "installing"}
    BY <1>0, <1>1 DEF Types, Named, Owning, Cleaning, None
  <2>3. \A d \in Calls : todo'[d] \cup strays'[d] \subseteq todo[d] \cup strays[d] \cup locks \cup segments
    BY <1>0, <1>1 DEF Types
  <2>4. pc'[c] \in Steps /\ pc' = [pc EXCEPT ![c] = pc'[c]]
    BY <1>0, <1>1 DEF Types, Steps
  <2>5. QED
    BY <1>0, <2>1, <2>2, <2>3, <2>4, <1>1, QuietStep
<1>3. OneWorker'
  BY <1>0, <1>1 DEF Types, OneWorker, Owning, Cleaning, Installing, None, Names
<1>4. Generations'
  BY <1>0, <1>1 DEF Types, Generations, OneWorker, Owning, Cleaning, Installing, None, Names
<1>5. Types'
  <2>1. pc' \in [Calls -> Steps]
    BY <1>0, <1>1 DEF Types, Steps
  <2>2. generation \in Nat
    BY <1>0 DEF Types
  <2>3. QED
    BY <1>0, <1>1, <2>1, <2>2 DEF Types, None
<1>6. QED
  BY <1>2, <1>3, <1>4, <1>5 DEF IInv, FilesInv

\* A session is closed when no call of its process runs.
LEMMA disable_semanticKeeps ==
  ASSUME IInv, NEW p \in Processes, disable_semantic(p)
  PROVE  IInv'
<1> USE VectorSetAssumption
<1>0. /\ Types /\ FilesInv /\ OneWorker /\ Generations
      /\ Named /\ FreshNames /\ OneMaker /\ Holding /\ Segments /\ Aged /\ SegmentMarked /\ Left
  BY DEF IInv, FilesInv
<1>1. /\ \A d \in Calls : ProcessOf(d) = p => pc[d] = "idle"
      /\ session' = [session EXCEPT ![p] = None]
      /\ view' = [view EXCEPT ![p] = None]
      /\ UNCHANGED <<generation, set_lock, locks, segments, held, work, planning, pc, name,
                     todo, strays, attempts, installed, loaded, names_left, abandoned, old,
                     unremoved>>
  BY DEF disable_semantic, CallsOf, incoming, disk, memory, locals, lists, bounds, removals
<1>2. Named'
  BY <1>0, <1>1 DEF Named
<1>3. FreshNames'
  BY <1>0, <1>1 DEF FreshNames
<1>4. OneMaker'
  BY <1>0, <1>1 DEF OneMaker, Owns
<1>5. Holding'
  BY <1>0, <1>1 DEF Holding, Holder
<1>6. Segments'
  BY <1>0, <1>1 DEF Segments
<1>7. SegmentMarked' /\ Aged'
  <2>1. SegmentMarked'
    BY <1>0, <1>1 DEF SegmentMarked
  <2>2. Aged'
    BY <1>0, <1>1 DEF Types, Aged, Owns, Owning, Cleaning, FreshNames, Named, None, Names
  <2>3. QED
    BY <2>1, <2>2
<1>8. Left'
  BY <1>0, <1>1 DEF Left, Owns
<1>9. OneWorker'
  BY <1>0, <1>1 DEF OneWorker
<1>10. Generations'
  BY <1>0, <1>1 DEF Types, Generations, OneWorker, Owning, Cleaning, Installing, None, Names
<1>11. Types'
  <2>1. pc' \in [Calls -> Steps]
    BY <1>0, <1>1 DEF Types, Steps
  <2>2. generation \in Nat
    BY <1>0 DEF Types
  <2>3. QED
    BY <1>0, <1>1, <2>1, <2>2 DEF Types, None
<1>12. QED
  BY <1>2, <1>3, <1>4, <1>5, <1>6, <1>7, <1>8, <1>9, <1>10, <1>11 DEF IInv, FilesInv

\* A search plans by the generation its session serves.
LEMMA plan_semantic_scanKeeps ==
  ASSUME IInv, NEW p \in Processes, plan_semantic_scan(p)
  PROVE  IInv'
<1> USE VectorSetAssumption
<1>0. /\ Types /\ FilesInv /\ OneWorker /\ Generations
      /\ Named /\ FreshNames /\ OneMaker /\ Holding /\ Segments /\ Aged /\ SegmentMarked /\ Left
  BY DEF IInv, FilesInv
<1>1. /\ session[p] # None
      /\ planning' = [planning EXCEPT ![p] = session[p]]
      /\ UNCHANGED <<generation, set_lock, locks, segments, held, work, session, view, pc,
                     name, todo, strays, attempts, installed, loaded, names_left, abandoned,
                     old, unremoved>>
  BY DEF plan_semantic_scan, incoming, disk, memory, locals, lists, bounds, removals
<1>2. Named'
  BY <1>0, <1>1 DEF Named
<1>3. FreshNames'
  BY <1>0, <1>1 DEF FreshNames
<1>4. OneMaker'
  BY <1>0, <1>1 DEF OneMaker, Owns
<1>5. Holding'
  BY <1>0, <1>1 DEF Holding, Holder
<1>6. Segments'
  BY <1>0, <1>1 DEF Segments
<1>7. SegmentMarked' /\ Aged'
  <2>1. SegmentMarked'
    BY <1>0, <1>1 DEF SegmentMarked
  <2>2. Aged'
    BY <1>0, <1>1 DEF Types, Aged, Owns, Owning, Cleaning, FreshNames, Named, None, Names
  <2>3. QED
    BY <2>1, <2>2
<1>8. Left'
  BY <1>0, <1>1 DEF Left, Owns
<1>9. OneWorker'
  BY <1>0, <1>1 DEF OneWorker
<1>10. Generations'
  BY <1>0, <1>1 DEF Types, Generations, OneWorker, Owning, Cleaning, Installing, None, Names
<1>11. Types'
  <2>1. pc' \in [Calls -> Steps]
    BY <1>0, <1>1 DEF Types, Steps
  <2>2. generation \in Nat
    BY <1>0 DEF Types
  <2>3. QED
    BY <1>0, <1>1, <2>1, <2>2 DEF Types, None
<1>12. QED
  BY <1>2, <1>3, <1>4, <1>5, <1>6, <1>7, <1>8, <1>9, <1>10, <1>11 DEF IInv, FilesInv

\* The view taken is of the live generation or the one kept.
LEMMA semantic_set_viewKeeps ==
  ASSUME IInv, NEW p \in Processes, semantic_set_view(p)
  PROVE  IInv'
<1> USE VectorSetAssumption
<1>0. /\ Types /\ FilesInv /\ OneWorker /\ Generations
      /\ Named /\ FreshNames /\ OneMaker /\ Holding /\ Segments /\ Aged /\ SegmentMarked /\ Left
  BY DEF IInv, FilesInv
<1>1. /\ planning[p] # None
      /\ view' = [view EXCEPT ![p] = IF planning[p] \in {@, generation} THEN planning[p] ELSE None]
      /\ planning' = [planning EXCEPT ![p] = None]
      /\ UNCHANGED <<generation, set_lock, locks, segments, held, work, session, pc, name,
                     todo, strays, attempts, installed, loaded, names_left, abandoned, old,
                     unremoved>>
  BY DEF semantic_set_view, incoming, disk, memory, locals, lists, bounds, removals
<1>2. Named'
  BY <1>0, <1>1 DEF Named
<1>3. FreshNames'
  BY <1>0, <1>1 DEF FreshNames
<1>4. OneMaker'
  BY <1>0, <1>1 DEF OneMaker, Owns
<1>5. Holding'
  BY <1>0, <1>1 DEF Holding, Holder
<1>6. Segments'
  BY <1>0, <1>1 DEF Segments
<1>7. SegmentMarked' /\ Aged'
  <2>1. SegmentMarked'
    BY <1>0, <1>1 DEF SegmentMarked
  <2>2. Aged'
    BY <1>0, <1>1 DEF Types, Aged, Owns, Owning, Cleaning, FreshNames, Named, None, Names
  <2>3. QED
    BY <2>1, <2>2
<1>8. Left'
  BY <1>0, <1>1 DEF Left, Owns
<1>9. OneWorker'
  BY <1>0, <1>1 DEF OneWorker
<1>10. Generations'
  BY <1>0, <1>1 DEF Types, Generations, OneWorker, Owning, Cleaning, Installing, None, Names
<1>11. Types'
  <2>1. pc' \in [Calls -> Steps]
    BY <1>0, <1>1 DEF Types, Steps
  <2>2. generation \in Nat
    BY <1>0 DEF Types
  <2>3. QED
    BY <1>0, <1>1, <2>1, <2>2 DEF Types, None
<1>12. QED
  BY <1>2, <1>3, <1>4, <1>5, <1>6, <1>7, <1>8, <1>9, <1>10, <1>11 DEF IInv, FilesInv

\* A dead process takes its locks with it, and its expansions are abandoned.
LEMMA CrashKeeps ==
  ASSUME IInv, NEW p \in Processes, Crash(p)
  PROVE  IInv'
<1> USE VectorSetAssumption
<1>0. /\ Types /\ FilesInv /\ OneWorker /\ Generations
      /\ Named /\ FreshNames /\ OneMaker /\ Holding /\ Segments /\ Aged /\ SegmentMarked /\ Left
  BY DEF IInv, FilesInv
<1>1. /\ set_lock' = IF set_lock \in CallsOf(p) THEN NoCall ELSE set_lock
      /\ held' = [n \in Names |-> IF held[n] \in CallsOf(p) THEN NoCall ELSE held[n]]
      /\ abandoned' = abandoned \cup ({name[c] : c \in CallsOf(p)} \ {None})
      /\ work' = [work EXCEPT ![p] = NoCall]
      /\ session' = [session EXCEPT ![p] = None]
      /\ view' = [view EXCEPT ![p] = None]
      /\ planning' = [planning EXCEPT ![p] = None]
      /\ UNCHANGED <<generation, locks, segments, old, names_left, unremoved>>
  BY DEF Crash
<1>2. /\ pc' = [c \in Calls |-> IF ProcessOf(c) = p THEN "idle" ELSE pc[c]]
      /\ name' = [c \in Calls |-> IF ProcessOf(c) = p THEN None ELSE name[c]]
      /\ todo' = [c \in Calls |-> IF ProcessOf(c) = p THEN {} ELSE todo[c]]
      /\ strays' = [c \in Calls |-> IF ProcessOf(c) = p THEN {} ELSE strays[c]]
      /\ attempts' = [c \in Calls |-> IF ProcessOf(c) = p THEN 0 ELSE attempts[c]]
      /\ installed' = [c \in Calls |-> IF ProcessOf(c) = p THEN None ELSE installed[c]]
      /\ loaded' = [c \in Calls |-> IF ProcessOf(c) = p THEN None ELSE loaded[c]]
  BY DEF Crash
<1>3. /\ \A c \in Calls : ProcessOf(c) = p =>
           /\ pc'[c] = "idle" /\ name'[c] = None /\ todo'[c] = {} /\ strays'[c] = {}
           /\ installed'[c] = None /\ loaded'[c] = None
      /\ \A c \in Calls : ProcessOf(c) # p =>
           /\ pc'[c] = pc[c] /\ name'[c] = name[c] /\ todo'[c] = todo[c] /\ strays'[c] = strays[c]
           /\ installed'[c] = installed[c] /\ loaded'[c] = loaded[c]
  BY <1>2
<1>4. Types'
  <2>1. set_lock' \in Calls \cup {NoCall} /\ held' \in [Names -> Calls \cup {NoCall}]
    BY <1>0, <1>1 DEF Types
  <2>2. /\ work' \in [Processes -> Calls \cup {NoCall}]
        /\ session' \in [Processes -> Nat] /\ view' \in [Processes -> Nat] /\ planning' \in [Processes -> Nat]
    BY <1>0, <1>1 DEF Types, None
  <2>3. pc' \in [Calls -> Steps]
    BY <1>0, <1>2 DEF Types, Steps
  <2>4. name' \in [Calls -> 0 .. MaxNames]
    BY <1>0, <1>2 DEF Types, None
  <2>5. todo' \in [Calls -> SUBSET Names] /\ strays' \in [Calls -> SUBSET Names]
    BY <1>0, <1>2 DEF Types
  <2>6. attempts' \in [Calls -> Nat] /\ installed' \in [Calls -> Nat] /\ loaded' \in [Calls -> Nat]
    BY <1>0, <1>2 DEF Types, None
  <2>7. QED
    BY <1>0, <1>1, <2>1, <2>2, <2>3, <2>4, <2>5, <2>6 DEF Types
<1>5. Named'
  BY <1>0, <1>3 DEF Named, Owning, Cleaning
<1>6. \A n \in Names : /\ held[n] \in CallsOf(p) => held'[n] = NoCall
                       /\ held[n] \notin CallsOf(p) => held'[n] = held[n]
  BY <1>1
<1>7. FreshNames'
  <2>1. \A n \in Names : n <= names_left => 
          n \notin locks /\ n \notin segments /\ n \notin old /\ held'[n] = NoCall
    BY <1>0, <1>6 DEF FreshNames
  <2>2. \A c \in Calls : /\ name'[c] # None => name'[c] > names_left
                         /\ \A n \in todo'[c] \cup strays'[c] : n > names_left
    BY <1>0, <1>3 DEF FreshNames
  <2>3. QED
    BY <1>1, <2>1, <2>2 DEF FreshNames
<1>8. \A c \in Calls : pc'[c] # "idle" => /\ ProcessOf(c) # p /\ c \notin CallsOf(p)
                                          /\ pc'[c] = pc[c] /\ name'[c] = name[c]
  BY <1>3 DEF CallsOf
<1>9. OneMaker' /\ Aged'
  BY <1>0, <1>1, <1>8 DEF OneMaker, Aged, Owns, Owning
<1>10. Holding'
  <2>1. \A c \in Calls : pc'[c] \in {"removing", "unmarking"} => held'[name'[c]] = c
    <3>1. SUFFICES ASSUME NEW c \in Calls, pc'[c] \in {"removing", "unmarking"}
                   PROVE  held'[name'[c]] = c
      OBVIOUS
    <3>2. c \notin CallsOf(p) /\ pc'[c] = pc[c] /\ name'[c] = name[c]
      BY <1>8, <3>1
    <3>3. held[name[c]] = c
      BY <1>0, <3>1, <3>2 DEF Holding, Holder
    <3>4. name[c] # None
      BY <1>0, <3>1, <3>2 DEF Named, Owning, Cleaning
    <3>5. name[c] \in Names
      BY <1>0, <3>4 DEF Types, None, Names
    <3>6. QED
      BY <1>6, <3>2, <3>3, <3>5
  <2>2. \A c \in Calls : pc'[c] \in Owning \ {"locking"} /\ name'[c] # None =>
          held'[name'[c]] = c /\ name'[c] \in locks
    <3>1. SUFFICES ASSUME NEW c \in Calls, pc'[c] \in Owning \ {"locking"}, name'[c] # None
                   PROVE  held'[name'[c]] = c /\ name'[c] \in locks
      OBVIOUS
    <3>2. c \notin CallsOf(p) /\ pc'[c] = pc[c] /\ name'[c] = name[c]
      BY <1>8, <3>1 DEF Owning
    <3>3. held[name[c]] = c /\ name[c] \in locks
      BY <1>0, <3>1, <3>2 DEF Holding, Holder
    <3>4. name[c] \in Names
      BY <1>0, <3>3 DEF Types
    <3>5. QED
      BY <1>6, <3>2, <3>3, <3>4
  <2>3. \A n \in Names : held'[n] # NoCall =>
          name'[held'[n]] = n /\ pc'[held'[n]] \notin {"trying", "locking"}
    <3>1. SUFFICES ASSUME NEW n \in Names, held'[n] # NoCall
                   PROVE  name'[held'[n]] = n /\ pc'[held'[n]] \notin {"trying", "locking"}
      OBVIOUS
    <3>2. held[n] \in Calls /\ held[n] # NoCall /\ held'[n] = held[n] /\ held[n] \notin CallsOf(p)
      BY <1>0, <1>6, <3>1 DEF Types
    <3>3. pc'[held[n]] = pc[held[n]] /\ name'[held[n]] = name[held[n]]
      BY <1>3, <3>2 DEF CallsOf
    <3>4. QED
      BY <1>0, <3>2, <3>3 DEF Holding
  <2>4. QED
    BY <1>1, <2>1, <2>2, <2>3 DEF Holding, Holder
<1>11. Segments'
  BY <1>0, <1>1, <1>3 DEF Segments
<1>12. SegmentMarked'
  BY <1>0, <1>1 DEF SegmentMarked
<1>13. Left'
  <2>1. SUFFICES ASSUME NEW n \in locks \cup segments
                 PROVE  n \in abandoned' \cup unremoved \/ \E c \in Calls : Owns(c, n)'
    BY <1>1 DEF Left
  <2>2. CASE n \in abandoned \cup unremoved
    BY <1>1, <2>2
  <2>3. CASE \E c \in Calls : Owns(c, n)
    <3>1. PICK c \in Calls : Owns(c, n)
      BY <2>3
    <3>2. CASE ProcessOf(c) = p
      <4>1. c \in CallsOf(p) /\ name[c] = n /\ n # None
        BY <1>0, <3>1, <3>2 DEF CallsOf, Owns, Types, None, Names
      <4>2. QED
        BY <1>1, <4>1
    <3>3. CASE ProcessOf(c) # p
      BY <1>3, <3>1, <3>3 DEF Owns
    <3>4. QED
      BY <3>2, <3>3
  <2>4. QED
    BY <1>0, <2>2, <2>3 DEF Left
<1>14. OneWorker'
  <2>1. \A c \in Calls : pc'[c] \in Installing \/ installed'[c] # None => work'[ProcessOf(c)] = c
    BY <1>0, <1>1, <1>3 DEF OneWorker, Installing, Owning, Cleaning, Types
  <2>2. set_lock' # NoCall => pc'[set_lock'] \in {"installing", "opening"}
    BY <1>0, <1>1, <1>3 DEF OneWorker, Types, CallsOf
  <2>3. QED
    BY <2>1, <2>2 DEF OneWorker
<1>15. Generations'
  <2>1. generation \in Nat /\ \A q \in Processes : q # p =>
          session'[q] = session[q] /\ view'[q] = view[q] /\ planning'[q] = planning[q]
    BY <1>0, <1>1 DEF Types
  <2>2. session'[p] = 0 /\ view'[p] = 0 /\ planning'[p] = 0
    BY <1>0, <1>1 DEF Types, None
  <2>3. \A q \in Processes : session'[q] <= generation /\ view'[q] <= generation /\ planning'[q] <= generation
    BY <1>0, <2>1, <2>2 DEF Generations
  <2>4. \A c \in Calls : loaded'[c] <= generation
    BY <1>0, <1>3, <2>1 DEF Generations, None
  <2>5. \A c \in Calls : pc'[c] \in {"loading", "swapping"} =>
          session'[ProcessOf(c)] = session[ProcessOf(c)] /\ pc'[c] = pc[c] /\ loaded'[c] = loaded[c]
    BY <1>3, <2>1
  <2>6. QED
    BY <1>0, <1>1, <2>3, <2>4, <2>5 DEF Generations
<1>16. QED
  BY <1>4, <1>5, <1>7, <1>9, <1>10, <1>11, <1>12, <1>13, <1>14, <1>15 DEF IInv, FilesInv

----------------------------------------------------------------------------
(* What lay there when a cleanup began is cleared when it is over.           *)

\* A cleanup that has begun and is not over, and what it has listed.
Looking == {"listing_segments", "cleaning"} \cup Cleaning
Listed ==
  \A c \in Calls : pc[c] \notin Looking => todo[c] = {} /\ strays[c] = {}

\* What lay there at the start of a cleanup has no maker; nobody is between the
\* removals of its two files with the first still there; of its two files the
\* segment is alone only if old; and while one is left it is still to be
\* looked at, or a cleanup is at it.
Debris(c, n) ==
  /\ \A d \in Calls : ~Owns(d, n)
  /\ \A d \in Calls : pc[d] = "unmarking" /\ name[d] = n => n \notin segments
  /\ n \in segments \ locks => n \in old /\ n \notin todo[c]
  /\ n \in strays[c] => n \notin locks
  /\ pc[c] = "listing_segments" /\ n \in locks => n \in todo[c]
  /\ pc[c] # "listing_segments" /\ n \in locks \cup segments =>
       n \in todo[c] \cup strays[c] \/ \E d \in Calls : name[d] = n

DebrisInv ==
  /\ debris \in [Calls -> SUBSET Names]
  /\ Listed
  /\ \A c \in Calls : \A n \in debris[c] : n > names_left /\ Debris(c, n)

\* A step of a call keeps it that changes nothing but what has the name m, which
\* no cleanup counts any more.
LEMMA AwayStep ==
  ASSUME DebrisInv, NEW c \in Calls, NEW m, debris' \in [Calls -> SUBSET Names],
         \A d \in Calls : debris'[d] \subseteq debris[d] /\ m \notin debris'[d],
         \A d \in Calls : todo'[d] \subseteq todo[d] /\ strays'[d] \subseteq strays[d],
         \A d \in Calls : todo[d] \subseteq todo'[d] \cup {m} /\ strays[d] \subseteq strays'[d] \cup {m},
         \A n \in Names : n # m => /\ (n \in locks' <=> n \in locks) /\ (n \in segments' <=> n \in segments)
                                   /\ n \in segments /\ n \in old => n \in old'
                                   /\ n > names_left => n > names_left',
         \A d \in Calls : d # c => pc'[d] = pc[d] /\ name'[d] = name[d],
         name'[c] = name[c] \/ {name[c], name'[c]} \subseteq {m, None},
         name'[c] \notin {m, None} =>
           pc'[c] # "unmarking" /\ (pc'[c] \in Owning => pc[c] \in Owning),
         "listing_segments" \notin {pc[c], pc'[c]},
         pc'[c] \in Looking \/ pc[c] \notin Looking \/ (todo[c] = {} /\ strays[c] = {})
  PROVE  DebrisInv'
<1>1. Listed'
  <2>1. SUFFICES ASSUME NEW d \in Calls, pc'[d] \notin Looking
                 PROVE  todo'[d] = {} /\ strays'[d] = {}
    BY DEF Listed
  <2>2. todo[d] = {} /\ strays[d] = {}
    BY <2>1 DEF DebrisInv, Listed
  <2>3. QED
    BY <2>2
<1>2. ASSUME NEW d \in Calls, NEW n \in debris'[d]
      PROVE  n > names_left' /\ Debris(d, n)'
  <2>1. n \in Names /\ n # m /\ n # None
    BY <1>2 DEF Names, None
  <2>2. n > names_left /\ Debris(d, n)
    BY <1>2 DEF DebrisInv
  <2>3. /\ (n \in locks' <=> n \in locks) /\ (n \in segments' <=> n \in segments)
        /\ n \in segments /\ n \in old => n \in old'
        /\ (n \in todo'[d] <=> n \in todo[d]) /\ (n \in strays'[d] <=> n \in strays[d])
    BY <2>1
  <2>4. \A e \in Calls : name'[e] = n <=> name[e] = n
    BY <2>1
  <2>5. \A e \in Calls : name[e] = n => /\ pc'[e] \in Owning => pc[e] \in Owning
                                        /\ pc'[e] = "unmarking" => pc[e] = "unmarking"
    BY <2>1, <2>4
  <2>6. pc'[d] = "listing_segments" <=> pc[d] = "listing_segments"
    OBVIOUS
  <2>8. \A e \in Calls : ~Owns(e, n)'
    BY <2>2, <2>4, <2>5 DEF Debris, Owns
  <2>9. \A e \in Calls : pc'[e] = "unmarking" /\ name'[e] = n => n \notin segments'
    BY <2>2, <2>3, <2>4, <2>5 DEF Debris
  <2>10. /\ n \in segments' \ locks' => n \in old' /\ n \notin todo'[d]
         /\ n \in strays'[d] => n \notin locks'
         /\ pc'[d] = "listing_segments" /\ n \in locks' => n \in todo'[d]
    BY <2>2, <2>3, <2>6 DEF Debris
  <2>7. pc'[d] # "listing_segments" /\ n \in locks' \cup segments' =>
           n \in todo'[d] \cup strays'[d] \/ \E e \in Calls : name'[e] = n
    BY <2>2, <2>3, <2>4, <2>6 DEF Debris
  <2>11. QED
    BY <2>1, <2>2, <2>7, <2>8, <2>9, <2>10 DEF Debris
<1>3. QED
  BY <1>1, <1>2 DEF DebrisInv

\* So does one that changes no file and no list.
LEMMA CalmStep ==
  ASSUME Types, DebrisInv, NEW c \in Calls, pc' = [pc EXCEPT ![c] = pc'[c]],
         UNCHANGED <<locks, segments, old, name, names_left, todo, strays>>,
         debris' \in [Calls -> SUBSET Names], \A d \in Calls : debris'[d] \subseteq debris[d],
         "listing_segments" \notin {pc[c], pc'[c]}, pc'[c] # "unmarking",
         pc'[c] \in Owning => pc[c] \in Owning \/ name[c] = None,
         pc'[c] \in Looking \/ pc[c] \notin Looking \/ (todo[c] = {} /\ strays[c] = {})
  PROVE  DebrisInv'
<1>1. \A d \in Calls : None \notin debris'[d]
  BY DEF None, Names
<1>2. \A d \in Calls : d # c => pc'[d] = pc[d] /\ name'[d] = name[d]
  BY DEF Types
<1>3. name'[c] \notin {None} => pc'[c] # "unmarking" /\ (pc'[c] \in Owning => pc[c] \in Owning)
  OBVIOUS
<1>4. QED
  BY <1>1, <1>2, <1>3, AwayStep

Still == UNCHANGED <<locks, segments, old, name, names_left, todo, strays, debris>>

\* A call that only moves on begins no removal and becomes no maker of what it cleaned.
LEMMA CalmMove ==
  ASSUME IInv, DebrisInv, NEW c \in Calls, NEW from \in Steps \ {"listing_segments"},
         NEW to \in Steps \ {"unmarking", "listing_segments"}, Goes(c, from, to), Still,
         to \in Owning => from \notin Cleaning,
         to \in Looking \/ from \notin Looking \/ (todo[c] = {} /\ strays[c] = {})
  PROVE  DebrisInv'
<1>1. /\ pc[c] = from /\ pc' = [pc EXCEPT ![c] = to]
      /\ UNCHANGED <<locks, segments, old, name, names_left, todo, strays, debris>>
  BY DEF Goes, Still
<1>2. Types /\ Named
  BY DEF IInv, FilesInv
<1>3. pc'[c] = to
  BY <1>1, <1>2 DEF Types
<1>4. to \in Owning => from \in Owning \/ name[c] = None
  BY <1>1, <1>2 DEF Named
<1>5. debris' \in [Calls -> SUBSET Names] /\ \A d \in Calls : debris'[d] \subseteq debris[d]
  BY <1>1 DEF DebrisInv
<1>6. QED
  BY <1>1, <1>2, <1>3, <1>4, <1>5, CalmStep

\* The actions of an install, a cleanup and a session that touch no file and no list.
LEMMA CalmActionsClear ==
  ASSUME IInv, DebrisInv, NEW c \in Calls,
         \/ \E compressed \in BOOLEAN : take(c, compressed)
         \/ ListFails(c) \/ Cleaned(c) \/ CreateFails(c) \/ Written(c) \/ Fail(c)
         \/ LockSet(c) \/ SetBusy(c) \/ AlreadyApplied(c) \/ Refused(c)
         \/ reload_open_vectors(c) \/ Load(c) \/ LoadFails(c) \/ Swap(c) \/ Return(c)
         \/ open_semantic_artifact(c) \/ Opened(c) \/ Store(c)
  PROVE  DebrisInv'
<1>0. Dropping(c) \in {"returning", "dropping"}
  BY DEF Dropping
<1>1. CASE \E compressed \in BOOLEAN : take(c, compressed)
  <2>1. Still
    BY <1>1 DEF take, Begins, Still, disk, incoming, memory, locals, lists,
              bounds, removals
  <2>2. Goes(c, "idle", "listing") \/ Goes(c, "idle", "waiting")
    BY <1>1 DEF take, Begins
  <2>3. QED
    BY <1>0, <2>1, <2>2, CalmMove DEF Steps, Owning, Looking, Cleaning
<1>2. CASE ListFails(c)
  <2>1. Still
    BY <1>2 DEF ListFails, Still, disk, incoming, memory, locals, lists,
              bounds, removals
  <2>2. Goes(c, "listing", "returning") \/ Goes(c, "listing", "creating")
    BY <1>2 DEF ListFails
  <2>3. QED
    BY <1>0, <2>1, <2>2, CalmMove DEF Steps, Owning, Looking, Cleaning
<1>3. CASE CreateFails(c)
  <2>1. Still
    BY <1>3 DEF CreateFails, Still, disk, incoming, memory, locals, lists,
              bounds, removals
  <2>2. Goes(c, "creating", "returning")
    BY <1>3 DEF CreateFails
  <2>3. QED
    BY <1>0, <2>1, <2>2, CalmMove DEF Steps, Owning, Looking, Cleaning
<1>4. CASE Written(c)
  <2>1. Still
    BY <1>4 DEF Written, Still, disk, incoming, memory, locals, lists,
              bounds, removals
  <2>2. Goes(c, "writing", "waiting")
    BY <1>4 DEF Written
  <2>3. QED
    BY <1>0, <2>1, <2>2, CalmMove DEF Steps, Owning, Looking, Cleaning
<1>5. CASE Fail(c)
  <2>1. Still
    BY <1>5 DEF Fail, Still, disk, incoming, memory, locals, lists,
              bounds, removals
  <2>2. Goes(c, "expanding", "unlocking") \/ Goes(c, "writing", "dropping")
    BY <1>5 DEF Fail
  <2>3. QED
    BY <1>0, <2>1, <2>2, CalmMove DEF Steps, Owning, Looking, Cleaning
<1>6. CASE LockSet(c)
  <2>1. Still
    BY <1>6 DEF LockSet, Still, disk, incoming, memory, locals, lists,
              bounds, removals
  <2>2. Goes(c, "waiting", "installing")
    BY <1>6 DEF LockSet
  <2>3. QED
    BY <1>0, <2>1, <2>2, CalmMove DEF Steps, Owning, Looking, Cleaning
<1>7. CASE SetBusy(c)
  <2>1. Still
    BY <1>7 DEF SetBusy, Still, disk, incoming, memory, locals, lists,
              bounds, removals
  <2>2. Goes(c, "waiting", Dropping(c))
    BY <1>7 DEF SetBusy
  <2>3. QED
    BY <1>0, <2>1, <2>2, CalmMove DEF Steps, Owning, Looking, Cleaning
<1>8. CASE AlreadyApplied(c)
  <2>1. Still
    BY <1>8 DEF AlreadyApplied, Still, disk, incoming, memory, locals, lists,
              bounds, removals
  <2>2. Goes(c, "installing", "reloading") \/ Goes(c, "installing", "dropping")
    BY <1>8 DEF AlreadyApplied
  <2>3. QED
    BY <1>0, <2>1, <2>2, CalmMove DEF Steps, Owning, Looking, Cleaning
<1>9. CASE Refused(c)
  <2>1. Still
    BY <1>9 DEF Refused, Still, disk, incoming, memory, locals, lists,
              bounds, removals
  <2>2. Goes(c, "installing", Dropping(c))
    BY <1>9 DEF Refused
  <2>3. QED
    BY <1>0, <2>1, <2>2, CalmMove DEF Steps, Owning, Looking, Cleaning
<1>10. CASE reload_open_vectors(c)
  <2>1. Still
    BY <1>10 DEF reload_open_vectors, Still, disk, incoming, memory, locals, lists,
              bounds, removals
  <2>2. Goes(c, "reloading", "returning") \/ Goes(c, "reloading", "loading")
    BY <1>10 DEF reload_open_vectors
  <2>3. QED
    BY <1>0, <2>1, <2>2, CalmMove DEF Steps, Owning, Looking, Cleaning
<1>11. CASE Load(c)
  <2>1. Still
    BY <1>11 DEF Load, Still, disk, incoming, memory, locals, lists,
              bounds, removals
  <2>2. Goes(c, "loading", "swapping")
    BY <1>11 DEF Load
  <2>3. QED
    BY <1>0, <2>1, <2>2, CalmMove DEF Steps, Owning, Looking, Cleaning
<1>12. CASE LoadFails(c)
  <2>1. Still
    BY <1>12 DEF LoadFails, Still, disk, incoming, memory, locals, lists,
              bounds, removals
  <2>2. Goes(c, "loading", "returning")
    BY <1>12 DEF LoadFails
  <2>3. QED
    BY <1>0, <2>1, <2>2, CalmMove DEF Steps, Owning, Looking, Cleaning
<1>13. CASE Swap(c)
  <2>1. Still
    BY <1>13 DEF Swap, Still, disk, incoming, memory, locals, lists,
              bounds, removals
  <2>2. Goes(c, "swapping", "returning")
    BY <1>13 DEF Swap
  <2>3. QED
    BY <1>0, <2>1, <2>2, CalmMove DEF Steps, Owning, Looking, Cleaning
<1>14. CASE open_semantic_artifact(c)
  <2>1. Still
    BY <1>14 DEF open_semantic_artifact, Begins, Still, disk, incoming, memory, locals, lists,
              bounds, removals
  <2>2. Goes(c, "idle", "opening")
    BY <1>14 DEF open_semantic_artifact, Begins
  <2>3. QED
    BY <1>0, <2>1, <2>2, CalmMove DEF Steps, Owning, Looking, Cleaning
<1>15. CASE Opened(c)
  <2>1. Still
    BY <1>15 DEF Opened, Still, disk, incoming, memory, locals, lists,
              bounds, removals
  <2>2. Goes(c, "opening", "storing") \/ Goes(c, "opening", "returning")
    BY <1>15 DEF Opened
  <2>3. QED
    BY <1>0, <2>1, <2>2, CalmMove DEF Steps, Owning, Looking, Cleaning
<1>16. CASE Store(c)
  <2>1. Still
    BY <1>16 DEF Store, Still, disk, incoming, memory, locals, lists,
              bounds, removals
  <2>2. Goes(c, "storing", "returning")
    BY <1>16 DEF Store
  <2>3. QED
    BY <1>0, <2>1, <2>2, CalmMove DEF Steps, Owning, Looking, Cleaning
<1>17. CASE Cleaned(c)
  <2>1. Still
    BY <1>17 DEF Cleaned, Still, disk, incoming, memory, locals, lists, bounds, removals
  <2>2. Goes(c, "cleaning", "creating") /\ todo[c] = {} /\ strays[c] = {}
    BY <1>17 DEF Cleaned
  <2>3. QED
    BY <2>1, <2>2, CalmMove DEF Steps, Owning, Looking, Cleaning
<1>18. CASE Return(c)
  <2>1. /\ pc[c] = "returning" /\ pc' = [pc EXCEPT ![c] = "idle"]
        /\ debris' = [debris EXCEPT ![c] = {}]
        /\ UNCHANGED <<locks, segments, old, name, names_left, todo, strays>>
    BY <1>18 DEF Return, Goes, disk, incoming, lists
  <2>2. Types
    BY DEF IInv
  <2>3. pc'[c] = "idle"
    BY <2>1, <2>2 DEF Types
  <2>4. debris' \in [Calls -> SUBSET Names] /\ \A d \in Calls : debris'[d] \subseteq debris[d]
    BY <2>1 DEF DebrisInv
  <2>5. QED
    BY <2>1, <2>2, <2>3, <2>4, CalmStep DEF Owning, Looking, Cleaning
<1>19. QED
  BY <1>1, <1>2, <1>3, <1>4, <1>5, <1>6, <1>7, <1>8, <1>9, <1>10, <1>11, <1>12, <1>13, <1>14, <1>15, <1>16, <1>17, <1>18

\* A maker's expansion is in no cleanup's count, so that what its maker does with
\* it changes nothing for a cleanup.
LEMMA OwnerStep ==
  ASSUME Types, DebrisInv, NEW c \in Calls, pc[c] \in Owning,
         pc'[c] \notin {"unmarking", "listing_segments"},
         \A d \in Calls : d # c => pc'[d] = pc[d] /\ name'[d] = name[d],
         name'[c] \in {name[c], None},
         UNCHANGED <<old, names_left, todo, strays>>,
         \A n \in Names : n # name[c] => (n \in locks' <=> n \in locks) /\ (n \in segments' <=> n \in segments),
         debris' \in [Calls -> SUBSET Names], \A d \in Calls : debris'[d] \subseteq debris[d]
  PROVE  DebrisInv'
<1>1. \A d \in Calls : name[c] \notin debris'[d]
  <2>1. SUFFICES ASSUME NEW d \in Calls, name[c] \in debris[d] PROVE FALSE
    OBVIOUS
  <2>2. ~Owns(c, name[c])
    BY <2>1 DEF DebrisInv, Debris
  <2>3. QED
    BY <2>2 DEF Owns
<1>2. pc[c] \notin Looking
  BY DEF Owning, Looking, Cleaning
<1>3. "listing_segments" \notin {pc[c], pc'[c]}
  BY DEF Owning
<1>4. name'[c] \notin {name[c], None} =>
        pc'[c] # "unmarking" /\ (pc'[c] \in Owning => pc[c] \in Owning)
  OBVIOUS
<1>5. \A n \in Names : n # name[c] => /\ (n \in locks' <=> n \in locks) /\ (n \in segments' <=> n \in segments)
                                      /\ n \in segments /\ n \in old => n \in old'
                                      /\ n > names_left => n > names_left'
  OBVIOUS
<1>6. name'[c] = name[c] \/ {name[c], name'[c]} \subseteq {name[c], None}
  OBVIOUS
<1>7. QED
  BY <1>1, <1>2, <1>3, <1>4, <1>5, <1>6, AwayStep

\* Locking a lock file or giving it up, writing a segment, installing it and
\* removing what is left of an expansion are a maker's steps.
LEMMA MakerActionsClear ==
  ASSUME IInv, DebrisInv, NEW c \in Calls,
         LockIt(c) \/ CreateSegment(c) \/ install_package(c) \/ DropSegment(c) \/ DropLock(c)
  PROVE  DebrisInv'
<1>0. Types /\ debris \in [Calls -> SUBSET Names]
  BY DEF IInv, DebrisInv
<1>1. CASE LockIt(c)
  <2>1. /\ pc[c] = "locking" /\ pc'[c] \in {"expanding", "returning", "creating"}
        /\ \A d \in Calls : d # c => pc'[d] = pc[d]
    BY <1>0, <1>1 DEF LockIt, Goes, Types
  <2>2. name'[c] \in {name[c], None} /\ \A d \in Calls : d # c => name'[d] = name[d]
    BY <1>0, <1>1 DEF LockIt, Types
  <2>3. /\ UNCHANGED <<segments, old, names_left, todo, strays>>
        /\ \A n \in Names : n # name[c] => (n \in locks' <=> n \in locks)
    BY <1>1 DEF LockIt, Remove, disk, incoming, locals, lists, bounds
  <2>4. debris' \in [Calls -> SUBSET Names] /\ \A d \in Calls : debris'[d] \subseteq debris[d]
    <3>1. debris' = debris \/ debris' = [d \in Calls |-> debris[d] \ {name[c]}]
      BY <1>1 DEF LockIt, Remove, Stays, removals
    <3>2. QED
      BY <1>0, <3>1
  <2>5. QED
    BY <1>0, <2>1, <2>2, <2>3, <2>4, OwnerStep DEF Owning
<1>2. CASE CreateSegment(c)
  <2>1. /\ pc[c] = "expanding" /\ pc'[c] \in {"writing"}
        /\ \A d \in Calls : d # c => pc'[d] = pc[d]
    BY <1>0, <1>2 DEF CreateSegment, Goes, Types
  <2>2. name'[c] \in {name[c], None} /\ \A d \in Calls : d # c => name'[d] = name[d]
    BY <1>0, <1>2 DEF CreateSegment, Types
  <2>3. /\ UNCHANGED <<locks, old, names_left, todo, strays>>
        /\ \A n \in Names : n # name[c] => (n \in segments' <=> n \in segments)
    BY <1>2 DEF CreateSegment, Remove, disk, incoming, locals, lists, bounds
  <2>4. debris' \in [Calls -> SUBSET Names] /\ \A d \in Calls : debris'[d] \subseteq debris[d]
    BY <1>0, <1>2 DEF CreateSegment, bounds, removals
  <2>5. QED
    BY <1>0, <2>1, <2>2, <2>3, <2>4, OwnerStep DEF Owning
<1>3. CASE install_package(c)
  <2>1. /\ pc[c] = "installing" /\ pc'[c] \in {"reloading", "dropping"}
        /\ \A d \in Calls : d # c => pc'[d] = pc[d]
    BY <1>0, <1>3 DEF install_package, Goes, Types
  <2>2. name'[c] \in {name[c], None} /\ \A d \in Calls : d # c => name'[d] = name[d]
    BY <1>0, <1>3 DEF install_package, Types
  <2>3. /\ UNCHANGED <<locks, old, names_left, todo, strays>>
        /\ \A n \in Names : n # name[c] => (n \in segments' <=> n \in segments)
    BY <1>3 DEF install_package, Remove, disk, incoming, locals, lists, bounds
  <2>4. debris' \in [Calls -> SUBSET Names] /\ \A d \in Calls : debris'[d] \subseteq debris[d]
    BY <1>0, <1>3 DEF install_package, bounds, removals
  <2>5. QED
    BY <1>0, <2>1, <2>2, <2>3, <2>4, OwnerStep DEF Owning
<1>4. CASE DropSegment(c)
  <2>1. /\ pc[c] = "dropping" /\ pc'[c] \in {"unlocking"}
        /\ \A d \in Calls : d # c => pc'[d] = pc[d]
    BY <1>0, <1>4 DEF DropSegment, Goes, Types
  <2>2. name'[c] \in {name[c], None} /\ \A d \in Calls : d # c => name'[d] = name[d]
    BY <1>0, <1>4 DEF DropSegment, Types
  <2>3. /\ UNCHANGED <<locks, old, names_left, todo, strays>>
        /\ \A n \in Names : n # name[c] => (n \in segments' <=> n \in segments)
    BY <1>4 DEF DropSegment, Remove, disk, incoming, locals, lists, bounds
  <2>4. debris' \in [Calls -> SUBSET Names] /\ \A d \in Calls : debris'[d] \subseteq debris[d]
    <3>1. debris' = debris \/ debris' = [d \in Calls |-> debris[d] \ {name[c]}]
      BY <1>4 DEF DropSegment, Remove, Stays, removals
    <3>2. QED
      BY <1>0, <3>1
  <2>5. QED
    BY <1>0, <2>1, <2>2, <2>3, <2>4, OwnerStep DEF Owning
<1>5. CASE DropLock(c)
  <2>1. /\ pc[c] = "unlocking" /\ pc'[c] \in {"returning", "reloading"}
        /\ \A d \in Calls : d # c => pc'[d] = pc[d]
    BY <1>0, <1>5 DEF DropLock, Goes, Types
  <2>2. name'[c] \in {name[c], None} /\ \A d \in Calls : d # c => name'[d] = name[d]
    BY <1>0, <1>5 DEF DropLock, Types
  <2>3. /\ UNCHANGED <<segments, old, names_left, todo, strays>>
        /\ \A n \in Names : n # name[c] => (n \in locks' <=> n \in locks)
    BY <1>5 DEF DropLock, Remove, disk, incoming, locals, lists, bounds
  <2>4. debris' \in [Calls -> SUBSET Names] /\ \A d \in Calls : debris'[d] \subseteq debris[d]
    <3>1. debris' = debris \/ debris' = [d \in Calls |-> debris[d] \ {name[c]}]
      BY <1>5 DEF DropLock, Remove, Stays, removals
    <3>2. QED
      BY <1>0, <3>1
  <2>5. QED
    BY <1>0, <2>1, <2>2, <2>3, <2>4, OwnerStep DEF Owning
<1>6. QED
  BY <1>1, <1>2, <1>3, <1>4, <1>5

\* A new expansion has a name no cleanup counts.
LEMMA CreateLockClears ==
  ASSUME IInv, DebrisInv, NEW c \in Calls, CreateLock(c)
  PROVE  DebrisInv'
<1>0. Types /\ Named /\ debris \in [Calls -> SUBSET Names]
  BY DEF IInv, FilesInv, DebrisInv
<1>1. /\ pc[c] = "creating" /\ pc' = [pc EXCEPT ![c] = "locking"]
      /\ name' = [name EXCEPT ![c] = names_left]
      /\ names_left > 0 /\ names_left' = names_left - 1 /\ locks' = locks \cup {names_left}
      /\ UNCHANGED <<segments, old, todo, strays, debris>>
  BY DEF CreateLock, Goes, lists, removals
<1>2. /\ pc'[c] = "locking" /\ name'[c] = names_left
      /\ \A d \in Calls : d # c => pc'[d] = pc[d] /\ name'[d] = name[d]
  BY <1>0, <1>1 DEF Types
<1>3. name[c] = None
  BY <1>0, <1>1 DEF Named, Owning, Cleaning
<1>4. names_left \in Nat /\ ~(names_left > names_left) /\ names_left > names_left'
  BY <1>0, <1>1 DEF Types
<1>5. \A n \in Names : n > names_left => n > names_left'
  BY <1>1, <1>4 DEF Names
<1>6. \A d \in Calls : names_left \notin debris'[d]
  BY <1>1, <1>4 DEF DebrisInv
<1>7. "creating" \notin Looking
  BY DEF Looking, Cleaning
<1>8. QED
  BY <1>0, <1>1, <1>2, <1>3, <1>5, <1>6, <1>7, AwayStep

\* A cleanup that begins counts what nobody is at, and has listed its lock files.
LEMMA ListClears ==
  ASSUME IInv, DebrisInv, NEW c \in Calls, List(c)
  PROVE  DebrisInv'
<1>0. /\ Types /\ FreshNames /\ Listed /\ debris \in [Calls -> SUBSET Names]
      /\ \A d \in Calls : \A n \in debris[d] : n > names_left /\ Debris(d, n)
  BY DEF IInv, FilesInv, DebrisInv
<1>1. /\ pc[c] = "listing" /\ pc' = [pc EXCEPT ![c] = "listing_segments"]
      /\ todo' = [todo EXCEPT ![c] = locks] /\ debris' = [debris EXCEPT ![c] = Lying]
      /\ UNCHANGED <<locks, segments, old, name, names_left, strays>>
  BY DEF List, Goes, disk, incoming
<1>2. /\ pc'[c] = "listing_segments" /\ todo'[c] = locks /\ debris'[c] = Lying
      /\ \A d \in Calls : d # c => pc'[d] = pc[d] /\ todo'[d] = todo[d] /\ debris'[d] = debris[d]
  BY <1>0, <1>1 DEF Types
<1>3. strays[c] = {}
  BY <1>0, <1>1 DEF Listed, Looking, Cleaning
<1>4. Lying \subseteq locks \cup old /\ Lying \subseteq Names
  BY <1>0 DEF Lying, Types
<1>5. debris' \in [Calls -> SUBSET Names]
  BY <1>0, <1>1, <1>4
<1>6. Listed'
  <2>1. "listing_segments" \in Looking
    BY DEF Looking
  <2>2. QED
    BY <1>0, <1>1, <1>2, <2>1 DEF Listed
<1>7. \A d \in Calls : /\ pc'[d] \in Owning => pc'[d] = pc[d]
                       /\ pc'[d] = "unmarking" => pc'[d] = pc[d]
  BY <1>1, <1>2 DEF Owning
<1>8. ASSUME NEW n \in Lying PROVE n > names_left /\ Debris(c, n)'
  <2>1. n \in Names /\ ~(n <= names_left) /\ \A d \in Calls : name[d] # n
    BY <1>0, <1>4 DEF FreshNames, Lying
  <2>2. n > names_left
    <3>1. n \in Nat /\ names_left \in Nat
      BY <1>0, <2>1 DEF Types, Names
    <3>2. QED
      BY <2>1, <3>1
  <2>3. n \in segments \ locks => n \in old
    BY DEF Lying
  <2>4. QED
    BY <1>1, <1>2, <1>3, <2>1, <2>2, <2>3 DEF Debris, Owns
<1>9. ASSUME NEW d \in Calls, d # c, NEW n \in debris[d] PROVE n > names_left /\ Debris(d, n)'
  <2>1. n > names_left /\ Debris(d, n)
    BY <1>0
  <2>2. \A e \in Calls : ~Owns(e, n)'
    BY <1>1, <1>7, <2>1 DEF Debris, Owns
  <2>3. \A e \in Calls : pc'[e] = "unmarking" /\ name'[e] = n => n \notin segments'
    BY <1>1, <1>7, <2>1 DEF Debris
  <2>4. QED
    BY <1>1, <1>2, <1>9, <2>1, <2>2, <2>3 DEF Debris
<1>10. QED
  BY <1>1, <1>2, <1>5, <1>6, <1>8, <1>9 DEF DebrisInv

\* What it counts is among what it has listed, once it has listed the segments too.
LEMMA ListSegmentsClears ==
  ASSUME IInv, DebrisInv, NEW c \in Calls, ListSegments(c)
  PROVE  DebrisInv'
<1>0. /\ Types /\ Listed /\ debris \in [Calls -> SUBSET Names]
      /\ \A d \in Calls : \A n \in debris[d] : n > names_left /\ Debris(d, n)
  BY DEF IInv, DebrisInv
<1>1. /\ pc[c] = "listing_segments" /\ pc' = [pc EXCEPT ![c] = "cleaning"]
      /\ strays' = [strays EXCEPT ![c] = segments \ todo[c]]
      /\ UNCHANGED <<locks, segments, old, name, names_left, todo, debris>>
  BY DEF ListSegments, Goes, disk, incoming, bounds, removals
<1>2. /\ pc'[c] = "cleaning" /\ strays'[c] = segments \ todo[c]
      /\ \A d \in Calls : d # c => pc'[d] = pc[d] /\ strays'[d] = strays[d]
  BY <1>0, <1>1 DEF Types
<1>3. Listed'
  <2>1. "cleaning" \in Looking
    BY DEF Looking
  <2>2. QED
    BY <1>0, <1>1, <1>2, <2>1 DEF Listed
<1>4. \A d \in Calls : /\ pc'[d] \in Owning => pc'[d] = pc[d]
                       /\ pc'[d] = "unmarking" => pc'[d] = pc[d]
  BY <1>1, <1>2 DEF Owning
<1>5. ASSUME NEW d \in Calls, NEW n \in debris[d] PROVE Debris(d, n)'
  <2>1. n > names_left /\ Debris(d, n)
    BY <1>0
  <2>2. \A e \in Calls : ~Owns(e, n)'
    BY <1>1, <1>4, <2>1 DEF Debris, Owns
  <2>3. \A e \in Calls : pc'[e] = "unmarking" /\ name'[e] = n => n \notin segments'
    BY <1>1, <1>4, <2>1 DEF Debris
  <2>4. CASE d = c
    BY <1>1, <1>2, <2>1, <2>2, <2>3, <2>4 DEF Debris
  <2>5. CASE d # c
    BY <1>1, <1>2, <2>1, <2>2, <2>3, <2>5 DEF Debris
  <2>6. QED
    BY <2>4, <2>5
<1>6. QED
  BY <1>0, <1>1, <1>3, <1>5 DEF DebrisInv

\* A lock file is opened, is gone, or does not open: then it counts no more.
LEMMA OpenLockClears ==
  ASSUME IInv, DebrisInv, NEW c \in Calls, OpenLock(c)
  PROVE  DebrisInv'
<1>0. /\ Types /\ Named /\ Listed /\ debris \in [Calls -> SUBSET Names]
      /\ \A d \in Calls : \A n \in debris[d] : n > names_left /\ Debris(d, n)
  BY DEF IInv, FilesInv, DebrisInv
<1>1. PICK m \in todo[c] :
        /\ todo' = [todo EXCEPT ![c] = todo[c] \ {m}]
        /\ \/ /\ m \in locks /\ Goes(c, "cleaning", "trying") /\ name' = [name EXCEPT ![c] = m]
              /\ UNCHANGED removals
           \/ m \notin locks /\ UNCHANGED <<pc, name, removals>>
           \/ m \in locks /\ Stays(m) /\ UNCHANGED <<pc, name, unremoved>>
  BY DEF OpenLock
<1>2. pc[c] = "cleaning" /\ UNCHANGED <<locks, segments, old, names_left, strays>>
  BY DEF OpenLock, disk, incoming
<1>3. todo'[c] = todo[c] \ {m} /\ \A d \in Calls : d # c => todo'[d] = todo[d]
  BY <1>0, <1>1 DEF Types
<1>4. "cleaning" \in Looking /\ "trying" \in Looking /\ "cleaning" \notin Owning /\ "trying" \notin Owning
  BY DEF Looking, Cleaning, Owning
<1>5. name[c] = None
  BY <1>0, <1>2 DEF Named, Owning, Cleaning
<1>6. CASE m \in locks /\ Goes(c, "cleaning", "trying") /\ name' = [name EXCEPT ![c] = m] /\ UNCHANGED removals
  <2>1. /\ pc'[c] = "trying" /\ name'[c] = m /\ debris' = debris
        /\ \A d \in Calls : d # c => pc'[d] = pc[d] /\ name'[d] = name[d]
    BY <1>0, <1>6 DEF Goes, Types, removals
  <2>2. Listed'
    BY <1>0, <1>2, <1>3, <1>4, <2>1 DEF Listed
  <2>3. ASSUME NEW d \in Calls, NEW n \in debris[d] PROVE Debris(d, n)'
    <3>1. n # None /\ Debris(d, n)
      BY <1>0, <2>3 DEF Names, None
    <3>2. \A e \in Calls : ~Owns(e, n)'
      BY <1>4, <2>1, <3>1 DEF Debris, Owns
    <3>3. \A e \in Calls : pc'[e] = "unmarking" /\ name'[e] = n => n \notin segments'
      BY <1>2, <2>1, <3>1 DEF Debris
    <3>4. \A e \in Calls : name[e] = n => name'[e] = n
      BY <1>5, <2>1, <3>1
    <3>5. pc'[d] # "listing_segments" /\ n \in locks' \cup segments' =>
            n \in todo'[d] \cup strays'[d] \/ \E e \in Calls : name'[e] = n
      <4>1. SUFFICES ASSUME pc'[d] # "listing_segments", n \in locks \cup segments
                     PROVE  n \in todo'[d] \cup strays[d] \/ \E e \in Calls : name'[e] = n
        BY <1>2
      <4>2. n \in todo[d] \cup strays[d] \/ \E e \in Calls : name[e] = n
        BY <1>2, <2>1, <3>1, <4>1 DEF Debris
      <4>3. CASE d = c /\ n = m
        BY <2>1, <4>3
      <4>4. CASE d # c \/ n # m
        BY <1>3, <3>4, <4>2, <4>4
      <4>5. QED
        BY <4>3, <4>4
    <3>6. QED
      BY <1>2, <1>3, <2>1, <3>1, <3>2, <3>3, <3>5 DEF Debris
  <2>4. QED
    BY <1>0, <1>2, <2>1, <2>2, <2>3 DEF DebrisInv
<1>7. CASE m \notin locks /\ UNCHANGED <<pc, name, removals>>
  <2>1. pc' = pc /\ name' = name /\ debris' = debris
    BY <1>7 DEF removals
  <2>2. Listed'
    BY <1>0, <1>2, <1>3, <1>4, <2>1 DEF Listed
  <2>3. ASSUME NEW d \in Calls, NEW n \in debris[d] PROVE Debris(d, n)'
    <3>1. Debris(d, n)
      BY <1>0, <2>3
    <3>2. d = c /\ n = m => n \notin locks \cup segments
      BY <1>1, <1>7, <3>1 DEF Debris
    <3>3. QED
      BY <1>2, <1>3, <2>1, <3>1, <3>2 DEF Debris, Owns
  <2>4. QED
    BY <1>0, <1>2, <2>1, <2>2, <2>3 DEF DebrisInv
<1>8. CASE m \in locks /\ Stays(m) /\ UNCHANGED <<pc, name, unremoved>>
  <2>1. pc' = pc /\ name' = name /\ debris' = [d \in Calls |-> debris[d] \ {m}]
    BY <1>8 DEF Stays
  <2>2. debris' \in [Calls -> SUBSET Names] /\ \A d \in Calls : debris'[d] \subseteq debris[d] /\ m \notin debris'[d]
    BY <1>0, <2>1
  <2>3. /\ \A d \in Calls : todo'[d] \subseteq todo[d] /\ strays'[d] \subseteq strays[d]
        /\ \A d \in Calls : todo[d] \subseteq todo'[d] \cup {m} /\ strays[d] \subseteq strays'[d] \cup {m}
    BY <1>2, <1>3
  <2>4. QED
    BY <1>2, <1>4, <1>5, <2>1, <2>2, <2>3, AwayStep
<1>9. QED
  BY <1>1, <1>6, <1>7, <1>8

\* A cleanup that finds a lock file locked leaves it to who holds it.
LEMMA TryLockClears ==
  ASSUME IInv, DebrisInv, NEW c \in Calls, TryLock(c)
  PROVE  DebrisInv'
<1>0. /\ Types /\ Named /\ Holding /\ Listed /\ debris \in [Calls -> SUBSET Names]
      /\ \A d \in Calls : \A n \in debris[d] : n > names_left /\ Debris(d, n)
  BY DEF IInv, FilesInv, DebrisInv
<1>1. UNCHANGED <<locks, segments, old, names_left, todo, strays, debris>>
  BY DEF TryLock, locals, lists, bounds, removals
<1>2. CASE Goes(c, "trying", "removing") /\ UNCHANGED name
  BY <1>1, <1>2, CalmMove DEF Still, Steps, Owning, Looking, Cleaning
<1>3. CASE Goes(c, "trying", "cleaning") /\ Holder(c) # NoCall /\ name' = [name EXCEPT ![c] = None]
  <2>1. /\ pc[c] = "trying" /\ pc'[c] = "cleaning" /\ name'[c] = None
        /\ \A d \in Calls : d # c => pc'[d] = pc[d] /\ name'[d] = name[d]
    BY <1>0, <1>3 DEF Goes, Types
  <2>2. Listed'
    BY <1>0, <1>1, <2>1 DEF Listed, Looking, Cleaning
  <2>3. ASSUME NEW d \in Calls, NEW n \in debris[d] PROVE Debris(d, n)'
    <3>1. n \in Names /\ n # None /\ Debris(d, n)
      BY <1>0, <2>3 DEF Names, None
    <3>2. \A e \in Calls : ~Owns(e, n)'
      BY <2>1, <3>1 DEF Debris, Owns
    <3>3. \A e \in Calls : pc'[e] = "unmarking" /\ name'[e] = n => n \notin segments'
      BY <1>1, <2>1, <3>1 DEF Debris
    <3>4. (\E e \in Calls : name[e] = n) => \E e \in Calls : name'[e] = n
      <4>1. CASE name[c] = n
        <5>1. held[n] \in Calls /\ name[held[n]] = n /\ pc[held[n]] # "trying"
          BY <1>0, <1>3, <3>1, <4>1 DEF Holding, Holder, Types
        <5>2. name'[held[n]] = n
          BY <2>1, <5>1
        <5>3. QED
          BY <5>1, <5>2
      <4>2. CASE name[c] # n
        BY <2>1, <4>2
      <4>3. QED
        BY <4>1, <4>2
    <3>5. QED
      BY <1>1, <2>1, <3>1, <3>2, <3>3, <3>4 DEF Debris
  <2>4. QED
    BY <1>0, <1>1, <2>2, <2>3 DEF DebrisInv
<1>4. QED
  BY <1>2, <1>3 DEF TryLock

\* The segment goes first, and the lock file then still marks what is counted ...
LEMMA RemoveSegmentClears ==
  ASSUME IInv, DebrisInv, NEW c \in Calls, RemoveSegment(c)
  PROVE  DebrisInv'
<1>0. /\ Types /\ Listed /\ debris \in [Calls -> SUBSET Names]
      /\ \A d \in Calls : \A n \in debris[d] : n > names_left /\ Debris(d, n)
  BY DEF IInv, DebrisInv
<1>1. /\ pc[c] = "removing" /\ pc' = [pc EXCEPT ![c] = "unmarking"]
      /\ old' = old \cap segments'
      /\ UNCHANGED <<locks, name, names_left, todo, strays>>
  BY DEF RemoveSegment, Goes, locals, lists
<1>2. pc'[c] = "unmarking" /\ \A d \in Calls : d # c => pc'[d] = pc[d]
  BY <1>0, <1>1 DEF Types
<1>3. CASE segments' = segments \ {name[c]} /\ UNCHANGED removals
  <2>1. debris' = debris
    BY <1>3 DEF removals
  <2>2. Listed'
    BY <1>0, <1>1, <1>2 DEF Listed, Looking, Cleaning
  <2>3. ASSUME NEW d \in Calls, NEW n \in debris[d] PROVE Debris(d, n)'
    <3>1. Debris(d, n)
      BY <1>0, <2>3
    <3>2. \A e \in Calls : ~Owns(e, n)'
      BY <1>1, <1>2, <3>1 DEF Debris, Owns, Owning
    <3>3. \A e \in Calls : pc'[e] = "unmarking" /\ name'[e] = n => n \notin segments'
      BY <1>1, <1>2, <1>3, <3>1 DEF Debris
    <3>4. QED
      BY <1>1, <1>2, <1>3, <3>1, <3>2, <3>3 DEF Debris
  <2>4. QED
    BY <1>0, <1>1, <2>1, <2>2, <2>3 DEF DebrisInv
<1>4. CASE UNCHANGED segments /\ Stays(name[c])
  <2>1. /\ debris' \in [Calls -> SUBSET Names]
        /\ \A d \in Calls : debris'[d] \subseteq debris[d] /\ name[c] \notin debris'[d]
    BY <1>0, <1>4 DEF Stays
  <2>2. "unmarking" \in Looking
    BY DEF Looking, Cleaning
  <2>3. QED
    BY <1>0, <1>1, <1>2, <1>4, <2>1, <2>2, AwayStep
<1>5. QED
  BY <1>3, <1>4 DEF RemoveSegment, Remove

\* ... and the lock file of what is counted goes after its segment.
LEMMA RemoveLockClears ==
  ASSUME IInv, DebrisInv, NEW c \in Calls, RemoveLock(c)
  PROVE  DebrisInv'
<1>0. /\ Types /\ Listed /\ debris \in [Calls -> SUBSET Names]
      /\ \A d \in Calls : \A n \in debris[d] : n > names_left /\ Debris(d, n)
  BY DEF IInv, DebrisInv
<1>1. /\ pc[c] = "unmarking" /\ pc' = [pc EXCEPT ![c] = "cleaning"]
      /\ name' = [name EXCEPT ![c] = None]
      /\ UNCHANGED <<segments, old, names_left, todo, strays>>
  BY DEF RemoveLock, Goes, locals, lists
<1>2. /\ pc'[c] = "cleaning" /\ name'[c] = None
      /\ \A d \in Calls : d # c => pc'[d] = pc[d] /\ name'[d] = name[d]
  BY <1>0, <1>1 DEF Types
<1>3. CASE locks' = locks \ {name[c]} /\ UNCHANGED removals
  <2>1. debris' = debris
    BY <1>3 DEF removals
  <2>2. Listed'
    BY <1>0, <1>1, <1>2 DEF Listed, Looking, Cleaning
  <2>3. ASSUME NEW d \in Calls, NEW n \in debris[d] PROVE Debris(d, n)'
    <3>1. n # None /\ Debris(d, n)
      BY <1>0, <2>3 DEF Names, None
    <3>2. \A e \in Calls : ~Owns(e, n)'
      BY <1>1, <1>2, <3>1 DEF Debris, Owns
    <3>3. \A e \in Calls : pc'[e] = "unmarking" /\ name'[e] = n => n \notin segments'
      BY <1>1, <1>2, <3>1 DEF Debris
    <3>4. n = name[c] => n \notin locks' \cup segments'
      BY <1>1, <1>3, <3>1 DEF Debris
    <3>5. \A e \in Calls : name[e] = n /\ n # name[c] => name'[e] = n
      BY <1>2
    <3>6. n # name[c] => (n \in locks' <=> n \in locks)
      BY <1>3
    <3>7. CASE n = name[c]
      BY <1>1, <1>2, <3>1, <3>2, <3>3, <3>4, <3>7 DEF Debris
    <3>8. CASE n # name[c]
      BY <1>1, <1>2, <3>1, <3>2, <3>3, <3>5, <3>6, <3>8 DEF Debris
    <3>9. QED
      BY <3>7, <3>8
  <2>4. QED
    BY <1>0, <1>1, <2>1, <2>2, <2>3 DEF DebrisInv
<1>4. CASE UNCHANGED locks /\ Stays(name[c])
  <2>1. /\ debris' \in [Calls -> SUBSET Names]
        /\ \A d \in Calls : debris'[d] \subseteq debris[d] /\ name[c] \notin debris'[d]
    BY <1>0, <1>4 DEF Stays
  <2>2. "cleaning" \in Looking /\ "cleaning" \notin Owning
    BY DEF Looking, Owning
  <2>3. QED
    BY <1>0, <1>1, <1>2, <1>4, <2>1, <2>2, AwayStep
<1>5. QED
  BY <1>3, <1>4 DEF RemoveLock, Remove

\* An old segment alone is removed; what is counted and alone is old.
LEMMA RemoveStrayClears ==
  ASSUME IInv, DebrisInv, NEW c \in Calls, RemoveStray(c)
  PROVE  DebrisInv'
<1>0. /\ Types /\ Named /\ Listed /\ debris \in [Calls -> SUBSET Names]
      /\ \A d \in Calls : \A n \in debris[d] : n > names_left /\ Debris(d, n)
  BY DEF IInv, FilesInv, DebrisInv
<1>1. PICK m \in strays[c] :
        /\ strays' = [strays EXCEPT ![c] = strays[c] \ {m}]
        /\ IF m \in old THEN Remove(segments, m) /\ old' = old \cap segments'
           ELSE UNCHANGED <<segments, old, removals>>
  BY DEF RemoveStray
<1>2. pc[c] = "cleaning" /\ UNCHANGED <<locks, pc, name, names_left, todo>>
  BY DEF RemoveStray
<1>3. strays'[c] = strays[c] \ {m} /\ \A d \in Calls : d # c => strays'[d] = strays[d]
  BY <1>0, <1>1 DEF Types
<1>4. "cleaning" \in Looking
  BY DEF Looking
<1>5. Listed'
  BY <1>0, <1>2, <1>3, <1>4 DEF Listed
<1>6. CASE \/ segments' = segments \ {m} /\ old' = old \cap segments' /\ UNCHANGED removals
           \/ m \notin old /\ UNCHANGED <<segments, old, removals>>
  <2>1. /\ debris' = debris /\ segments' \subseteq segments
        /\ \A n \in old : n \in segments' => n \in old'
    BY <1>6 DEF removals
  <2>2. ASSUME NEW d \in Calls, NEW n \in debris[d] PROVE Debris(d, n)'
    <3>1. Debris(d, n)
      BY <1>0, <2>2
    <3>2. \A e \in Calls : ~Owns(e, n)'
      BY <1>2, <3>1 DEF Debris, Owns
    <3>3. d = c /\ n = m => n \notin locks \cup segments'
      BY <1>1, <1>6, <3>1 DEF Debris
    <3>4. d # c \/ n # m => (n \in strays'[d] <=> n \in strays[d])
      BY <1>3
    <3>5. n \in strays'[d] => n \in strays[d]
      BY <1>3
    <3>6. QED
      BY <1>2, <2>1, <3>1, <3>2, <3>3, <3>4, <3>5 DEF Debris
  <2>3. QED
    BY <1>0, <1>2, <1>5, <2>1, <2>2 DEF DebrisInv
<1>7. CASE UNCHANGED segments /\ old' = old \cap segments' /\ Stays(m)
  <2>1. /\ debris' \in [Calls -> SUBSET Names]
        /\ \A d \in Calls : debris'[d] \subseteq debris[d] /\ m \notin debris'[d]
    BY <1>0, <1>7 DEF Stays
  <2>2. /\ \A d \in Calls : todo'[d] \subseteq todo[d] /\ strays'[d] \subseteq strays[d]
        /\ \A d \in Calls : todo[d] \subseteq todo'[d] \cup {m} /\ strays[d] \subseteq strays'[d] \cup {m}
    BY <1>2, <1>3
  <2>3. name[c] = None
    BY <1>0, <1>2 DEF Named, Owning, Cleaning
  <2>4. QED
    BY <1>2, <1>4, <1>7, <2>1, <2>2, <2>3, AwayStep
<1>8. QED
  BY <1>1, <1>6, <1>7 DEF Remove

\* Growing old takes nothing from what a cleanup counts.
LEMMA GrowOldClears ==
  ASSUME DebrisInv, NEW m \in Names, GrowOld(m)
  PROVE  DebrisInv'
<1>1. /\ old \subseteq old'
      /\ UNCHANGED <<locks, segments, pc, name, names_left, todo, strays, debris>>
  BY DEF GrowOld, locals, lists, bounds, removals
<1>2. QED
  BY <1>1 DEF DebrisInv, Debris, Listed, Owns

\* What a dying process was at counts no more, nor what its own cleanups counted.
LEMMA CrashClears ==
  ASSUME IInv, DebrisInv, NEW p \in Processes, Crash(p)
  PROVE  DebrisInv'
<1> DEFINE left == {name[c] : c \in CallsOf(p)} \ {None}
<1>0. /\ Types /\ Listed /\ debris \in [Calls -> SUBSET Names]
      /\ \A d \in Calls : \A n \in debris[d] : n > names_left /\ Debris(d, n)
  BY DEF IInv, DebrisInv
<1>1. /\ debris' = [c \in Calls |-> IF ProcessOf(c) = p THEN {} ELSE debris[c] \ left]
      /\ pc' = [c \in Calls |-> IF ProcessOf(c) = p THEN "idle" ELSE pc[c]]
      /\ name' = [c \in Calls |-> IF ProcessOf(c) = p THEN None ELSE name[c]]
      /\ todo' = [c \in Calls |-> IF ProcessOf(c) = p THEN {} ELSE todo[c]]
      /\ strays' = [c \in Calls |-> IF ProcessOf(c) = p THEN {} ELSE strays[c]]
      /\ UNCHANGED <<locks, segments, old, names_left>>
  BY DEF Crash
<1>2. /\ \A c \in Calls : ProcessOf(c) = p =>
           pc'[c] = "idle" /\ name'[c] = None /\ todo'[c] = {} /\ strays'[c] = {} /\ debris'[c] = {}
      /\ \A c \in Calls : ProcessOf(c) # p =>
           /\ pc'[c] = pc[c] /\ name'[c] = name[c] /\ todo'[c] = todo[c] /\ strays'[c] = strays[c]
           /\ debris'[c] = debris[c] \ left
  BY <1>1
<1>3. debris' \in [Calls -> SUBSET Names]
  BY <1>0, <1>1
<1>4. Listed'
  BY <1>0, <1>2 DEF Listed
<1>5. ASSUME NEW d \in Calls, NEW n \in debris'[d] PROVE n > names_left /\ Debris(d, n)'
  <2>1. ProcessOf(d) # p /\ n \in debris[d] /\ n \notin left /\ n \in Names
    BY <1>2, <1>3, <1>5
  <2>2. n > names_left /\ Debris(d, n) /\ n # None
    BY <1>0, <2>1 DEF Names, None
  <2>3. \A e \in Calls : name[e] = n => ProcessOf(e) # p
    BY <2>1, <2>2 DEF CallsOf
  <2>4. \A e \in Calls : /\ name[e] = n => name'[e] = n
                         /\ name'[e] = n => name[e] = n /\ pc'[e] = pc[e]
    BY <1>2, <2>2, <2>3
  <2>5. \A e \in Calls : ~Owns(e, n)'
    BY <2>2, <2>4 DEF Debris, Owns
  <2>6. \A e \in Calls : pc'[e] = "unmarking" /\ name'[e] = n => n \notin segments'
    BY <1>1, <2>2, <2>4 DEF Debris
  <2>7. /\ pc'[d] = pc[d] /\ todo'[d] = todo[d] /\ strays'[d] = strays[d]
        /\ UNCHANGED <<locks, segments, old>>
    BY <1>1, <1>2, <2>1
  <2>8. QED
    BY <2>2, <2>4, <2>5, <2>6, <2>7 DEF Debris
<1>6. QED
  BY <1>1, <1>3, <1>4, <1>5 DEF DebrisInv

\* Every step keeps it.
LEMMA NextDebris == IInv /\ DebrisInv /\ [Next]_vars => DebrisInv'
<1>1. SUFFICES ASSUME IInv, DebrisInv, [Next]_vars PROVE DebrisInv'
  OBVIOUS
<1>2. CASE UNCHANGED <<locks, segments, old, pc, name, names_left, todo, strays, debris>>
  BY <1>1, <1>2 DEF DebrisInv, Debris, Listed, Owns
<1>3. ASSUME NEW c \in Calls,
             \/ \E compressed \in BOOLEAN : take(c, compressed)
             \/ ListFails(c) \/ Cleaned(c) \/ CreateFails(c) \/ Written(c) \/ Fail(c)
             \/ LockSet(c) \/ SetBusy(c) \/ AlreadyApplied(c) \/ Refused(c)
             \/ reload_open_vectors(c) \/ Load(c) \/ LoadFails(c) \/ Swap(c) \/ Return(c)
             \/ open_semantic_artifact(c) \/ Opened(c) \/ Store(c)
      PROVE  DebrisInv'
  BY <1>1, <1>3, CalmActionsClear
<1>4. ASSUME NEW c \in Calls,
             LockIt(c) \/ CreateSegment(c) \/ install_package(c) \/ DropSegment(c) \/ DropLock(c)
      PROVE  DebrisInv'
  BY <1>1, <1>4, MakerActionsClear
<1>5. ASSUME NEW c \in Calls,
             \/ List(c) \/ ListSegments(c) \/ OpenLock(c) \/ TryLock(c)
             \/ RemoveSegment(c) \/ RemoveLock(c) \/ RemoveStray(c) \/ CreateLock(c)
      PROVE  DebrisInv'
  BY <1>1, <1>5, ListClears, ListSegmentsClears, OpenLockClears, TryLockClears,
     RemoveSegmentClears, RemoveLockClears, RemoveStrayClears, CreateLockClears
<1>6. ASSUME NEW n \in Names, GrowOld(n) PROVE DebrisInv'
  BY <1>1, <1>6, GrowOldClears
<1>7. ASSUME NEW p \in Processes,
             disable_semantic(p) \/ plan_semantic_scan(p) \/ semantic_set_view(p)
      PROVE  UNCHANGED <<locks, segments, old, pc, name, names_left, todo, strays, debris>>
  BY <1>7 DEF disable_semantic, plan_semantic_scan, semantic_set_view, disk, incoming, locals, lists,
              bounds, removals
<1>8. ASSUME NEW p \in Processes, Crash(p) PROVE DebrisInv'
  BY <1>1, <1>8, CrashClears
<1>9. UNCHANGED vars => UNCHANGED <<locks, segments, old, pc, name, names_left, todo, strays, debris>>
  BY DEF vars, disk, incoming, locals, lists, bounds, removals
<1>10. QED
  BY <1>1, <1>2, <1>3, <1>4, <1>5, <1>6, <1>7, <1>8, <1>9 DEF Next

----------------------------------------------------------------------------
(* What follows.                                                            *)

\* The invariant holds at the start: no file, no call, no session.
LEMMA InitIInv == Init => IInv
<1> SUFFICES ASSUME Init PROVE IInv
  OBVIOUS
<1> USE VectorSetAssumption DEF Init, None
<1>1. Types
  BY DEF Types, Steps, Names
<1>2. Named /\ FreshNames /\ OneMaker /\ Segments /\ Aged /\ SegmentMarked /\ Left
  BY DEF Named, FreshNames, OneMaker, Owns, Segments, Aged, SegmentMarked, Left, Owning, Cleaning,
         Names
<1>3. Holding
  BY DEF Holding, Holder, Names
<1>4. OneWorker
  BY DEF OneWorker, Installing, Owning, Cleaning
<1>5. Generations
  BY DEF Generations
<1>6. QED
  BY <1>1, <1>2, <1>3, <1>4, <1>5 DEF IInv, FilesInv

\* Every step of a call or of a process keeps it.
LEMMA NextIInv == IInv /\ [Next]_vars => IInv'
<1>1. SUFFICES ASSUME IInv, [Next]_vars PROVE IInv'
  OBVIOUS
<1>2. CASE UNCHANGED vars
  <2>1. UNCHANGED <<generation, set_lock, locks, segments, held, work, session, view, planning,
                    pc, name, todo, strays, attempts, installed, loaded, abandoned, names_left,
                    old, unremoved>>
    BY <1>2 DEF vars, disk, incoming, memory, locals, lists, bounds, removals
  <2>2. QED
    BY <1>1, <2>1 DEF IInv, FilesInv, Types, Named, FreshNames, OneMaker, Owns, Holding, Holder,
                      Segments, Aged, SegmentMarked, Left, OneWorker, Generations
<1>3. ASSUME NEW c \in Calls, NEW compressed \in BOOLEAN, take(c, compressed) PROVE IInv'
  BY <1>1, <1>3, TakeKeeps
<1>4. ASSUME NEW c \in Calls,
             \/ List(c) \/ ListFails(c) \/ ListSegments(c) \/ OpenLock(c) \/ TryLock(c)
             \/ RemoveSegment(c) \/ RemoveLock(c) \/ RemoveStray(c) \/ Cleaned(c)
             \/ CreateLock(c) \/ CreateFails(c) \/ LockIt(c) \/ CreateSegment(c)
      PROVE  IInv'
  BY <1>1, <1>4, ListKeeps, ListFailsKeeps, ListSegmentsKeeps, OpenLockKeeps, TryLockKeeps,
     RemoveSegmentKeeps, RemoveLockKeeps, RemoveStrayKeeps, CleanedKeeps, CreateLockKeeps,
     CreateFailsKeeps, LockItKeeps, CreateSegmentKeeps
<1>5. ASSUME NEW c \in Calls,
             \/ Written(c) \/ Fail(c) \/ LockSet(c) \/ SetBusy(c)
             \/ install_package(c) \/ AlreadyApplied(c) \/ Refused(c) \/ DropSegment(c) \/ DropLock(c)
      PROVE  IInv'
  BY <1>1, <1>5, WrittenKeeps, FailKeeps, LockSetKeeps, SetBusyKeeps, install_packageKeeps,
     AlreadyAppliedKeeps, RefusedKeeps, DropSegmentKeeps, DropLockKeeps
<1>6. ASSUME NEW c \in Calls,
             \/ reload_open_vectors(c) \/ Load(c) \/ LoadFails(c) \/ Swap(c) \/ Return(c)
             \/ open_semantic_artifact(c) \/ Opened(c) \/ Store(c)
      PROVE  IInv'
  BY <1>1, <1>6, reload_open_vectorsKeeps, LoadKeeps, LoadFailsKeeps, SwapKeeps, ReturnKeeps,
     open_semantic_artifactKeeps, OpenedKeeps, StoreKeeps
<1>7. ASSUME NEW p \in Processes,
             disable_semantic(p) \/ plan_semantic_scan(p) \/ semantic_set_view(p) \/ Crash(p)
      PROVE  IInv'
  BY <1>1, <1>7, disable_semanticKeeps, plan_semantic_scanKeeps, semantic_set_viewKeeps,
     CrashKeeps
<1>8. ASSUME NEW n \in Names, GrowOld(n) PROVE IInv'
  BY <1>1, <1>8, GrowOldKeeps
<1>9. QED
  BY <1>1, <1>2, <1>3, <1>4, <1>5, <1>6, <1>7, <1>8 DEF Next

\* The inductive invariant holds throughout.
THEOREM Inductive == Spec => []IInv
  BY InitIInv, NextIInv, PTL DEF Spec

\* The state is typed, and each lock has the holder that is at the work it is for.
THEOREM TypeCorrect == Spec => []TypeOK
<1>1. IInv => TypeOK
  <2>1. SUFFICES ASSUME IInv PROVE TypeOK
    OBVIOUS
  <2>2. Types /\ Holding /\ OneWorker /\ Generations
    BY <2>1 DEF IInv, FilesInv
  <2>3. \A p \in Processes : {session[p], view[p], planning[p]} \subseteq 0 .. generation
    BY <2>2, VectorSetAssumption DEF Types, Generations
  <2>4. \A p \in Processes : \A c \in CallsOf(p) : installed[c] # None => work[p] = c
    BY <2>2 DEF OneWorker, CallsOf
  <2>5. QED
    BY <2>2, <2>3, <2>4 DEF TypeOK, Types, Holding, OneWorker
<1>2. QED
  BY <1>1, Inductive, PTL

\* No cleanup takes the lock file or the segment of an install that runs
\* (expand_segment, remove_abandoned_expansions).
THEOREM ExpansionIsKept == Spec => []ExpansionKept
<1>1. IInv => ExpansionKept
  BY DEF IInv, FilesInv, Holding, Segments, ExpansionKept, Holder, Owning
<1>2. QED
  BY <1>1, Inductive, PTL

\* Only a removal that failed leaves a segment without its lock file: a process
\* that dies between any two steps of an expansion or of a cleanup does not
\* (Expansion, remove_abandoned_expansions).
THEOREM SegmentsAreMarked == Spec => []SegmentMarked
  BY Inductive, PTL DEF IInv, FilesInv

\* Only a dead process and a removal that failed leave files of an expansion behind.
THEOREM NothingIsLeft == Spec => []NothingLeft
<1>1. IInv => NothingLeft
  BY DEF IInv, FilesInv, Left, NothingLeft, Owns
<1>2. QED
  BY <1>1, Inductive, PTL

\* A cleanup that is over has cleared what lay there when it began and nobody was
\* at, old segments without lock files among it, but for what another cleanup is
\* at, or could not remove, or died at (remove_abandoned_expansions).
THEOREM DebrisIsCleared == Spec => []DebrisCleared
<1>1. Init => DebrisInv
  BY DEF Init, DebrisInv, Listed
<1>2. DebrisInv => DebrisCleared
  <2>1. SUFFICES ASSUME DebrisInv, NEW c \in Calls,
                        pc[c] \notin {"listing_segments", "cleaning", "trying", "removing", "unmarking"},
                        NEW n \in debris[c] \cap (locks \cup segments)
                 PROVE  \E d \in Calls : name[d] = n
    BY DEF DebrisCleared
  <2>2. todo[c] = {} /\ strays[c] = {}
    BY <2>1 DEF DebrisInv, Listed, Looking, Cleaning
  <2>3. QED
    BY <2>1, <2>2 DEF DebrisInv, Debris
<1>3. QED
  BY <1>1, <1>2, NextDebris, Inductive, PTL DEF Spec

\* No session is moved back to an older generation (reload_open_vectors,
\* open_semantic_artifact).
THEOREM SessionsNeverGoBack == Spec => SessionNeverGoesBack
<1>1. IInv /\ [Next]_vars =>
        [\A p \in Processes :
           session[p] # None /\ session'[p] # None => session'[p] >= session[p]]_vars
  <2>1. SUFFICES ASSUME IInv, Next, NEW p \in Processes, session[p] # None, session'[p] # None
                 PROVE  session'[p] >= session[p]
    OBVIOUS
  <2>2. Types /\ OneWorker /\ Generations
    BY <2>1 DEF IInv
  <2>3. CASE session' = session
    BY <2>2, <2>3 DEF Types
  <2>4. ASSUME NEW c \in Calls, Swap(c) PROVE session'[p] >= session[p]
    BY <2>2, <2>4 DEF Swap, Goes, Types, Generations
  <2>5. ASSUME NEW c \in Calls, Store(c) PROVE session'[p] >= session[p]
    BY <2>1, <2>2, <2>5 DEF Store, Types
  <2>6. ASSUME NEW q \in Processes, disable_semantic(q) \/ Crash(q)
        PROVE  session'[p] >= session[p]
    BY <2>1, <2>2, <2>6 DEF disable_semantic, Crash, Types
  <2>7. session' = session \/ (\E c \in Calls : Swap(c) \/ Store(c))
          \/ (\E q \in Processes : disable_semantic(q) \/ Crash(q))
    BY <2>1 DEF Next, take, Begins, List, ListFails, ListSegments, OpenLock, TryLock,
       RemoveSegment, RemoveLock, RemoveStray, GrowOld, Cleaned, CreateLock, CreateFails, LockIt,
       CreateSegment, Written, Fail, LockSet, SetBusy, install_package, AlreadyApplied, Refused,
       DropSegment, DropLock, reload_open_vectors, Load, LoadFails, Return,
       open_semantic_artifact, Opened, plan_semantic_scan, semantic_set_view, memory
  <2>8. QED
    BY <2>3, <2>4, <2>5, <2>6, <2>7
<1>2. QED
  BY <1>1, Inductive, PTL DEF Spec, SessionNeverGoesBack

\* The view of a generation that a session was moved off is not brought back
\* (semantic_set_view, forget_set_view).
THEOREM ViewsNotBroughtBack == Spec => ViewNotBroughtBack
<1>1. IInv /\ IInv' /\ [Next]_vars =>
        [\A p \in Processes : view'[p] \in {None, view[p]} \/ view'[p] >= session'[p]]_vars
  <2>1. SUFFICES ASSUME IInv, IInv', Next, NEW p \in Processes
                 PROVE  view'[p] \in {None, view[p]} \/ view'[p] >= session'[p]
    OBVIOUS
  <2>2. Types /\ Generations /\ Types' /\ Generations'
    BY <2>1 DEF IInv
  <2>3. CASE view' = view
    BY <2>3
  <2>4. ASSUME NEW c \in Calls, reload_open_vectors(c) PROVE view'[p] \in {None, view[p]}
    BY <2>2, <2>4 DEF reload_open_vectors, Types
  <2>5. ASSUME NEW q \in Processes, disable_semantic(q) \/ Crash(q)
        PROVE  view'[p] \in {None, view[p]}
    BY <2>2, <2>5 DEF disable_semantic, Crash, Types
  <2>6. ASSUME NEW q \in Processes, semantic_set_view(q)
        PROVE  view'[p] \in {None, view[p]} \/ view'[p] >= session'[p]
    <3>1. view'[p] \in {None, view[p], generation} /\ generation' = generation
      BY <2>2, <2>6 DEF semantic_set_view, Types, disk
    <3>2. session'[p] <= generation /\ session'[p] \in Nat /\ generation \in Nat
      BY <2>2, <3>1 DEF Generations, Types
    <3>3. QED
      BY <3>1, <3>2
  <2>7. view' = view \/ (\E c \in Calls : reload_open_vectors(c))
          \/ (\E q \in Processes : disable_semantic(q) \/ Crash(q) \/ semantic_set_view(q))
    BY <2>1 DEF Next, take, Begins, List, ListFails, ListSegments, OpenLock, TryLock,
       RemoveSegment, RemoveLock, RemoveStray, GrowOld, Cleaned, CreateLock, CreateFails, LockIt,
       CreateSegment, Written, Fail, LockSet, SetBusy, install_package, AlreadyApplied, Refused,
       DropSegment, DropLock, Swap, Store, Load, LoadFails, Return,
       open_semantic_artifact, Opened, plan_semantic_scan, memory
  <2>8. QED
    BY <2>3, <2>4, <2>5, <2>6, <2>7
<1>2. QED
  BY <1>1, Inductive, PTL DEF Spec, ViewNotBroughtBack
=============================================================================
