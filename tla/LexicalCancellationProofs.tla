--------------------- MODULE LexicalCancellationProofs ---------------------
(* Theorems about cancelled lexical searches: a cancel reaches every       *)
(* running call of its id, the registry does not grow, what is handed out  *)
(* is whole, a stream sends at most one event after its cancel, and a      *)
(* cancelled call ends within four steps of its own.                       *)
EXTENDS LexicalCancellation, FiniteSetTheorems, TLAPS

CallsOf(i) == {c \in Calls : calls[c].id = i}

\* The calls of an id share the flag of its entry, which counts them.
CallsShareEntry ==
  /\ \A i \in Ids : entries[i].running = Cardinality(CallsOf(i))
  /\ \A i \in Ids : entries[i].flag = NoFlag => entries[i] = Absent
  /\ \A c \in Calls : calls[c].id # NoId =>
       calls[c].flag = entries[calls[c].id].flag /\ calls[c].flag # NoFlag
  /\ \A c \in Calls : ~Running(c) => calls[c].id = NoId
  /\ \A c \in told : calls[c].id # NoId

IInv == TypeOK /\ CallsShareEntry /\ CancelReaches /\ NothingLeaks

----------------------------------------------------------------------------

\* There is a first segment.
LEMMA SomeSegment == Len(Segments) \in Nat /\ 1 \in 1 .. Len(Segments)
<1>1. Len(Segments) \in Nat /\ Len(Segments) # 0
  BY SearchAssumption
<1>2. QED
  BY <1>1

\* Setting one field of a call leaves it a call.
LEMMA FieldSet ==
  ASSUME NEW call \in Call
  PROVE  /\ \A b \in BOOLEAN : [call EXCEPT !.whole = b] \in Call
         /\ \A k \in 1 .. Len(Segments) : [call EXCEPT !.segment = k] \in Call
         /\ \A n \in Nat : [call EXCEPT !.left = n] \in Call
         /\ [call EXCEPT !.left = 0, !.whole = FALSE] \in Call
  BY DEF Call

\* The registry begins empty and no call runs.
THEOREM InitIInv == Init => IInv
<1> SUFFICES ASSUME Init PROVE IInv
  OBVIOUS
<1>1. TypeOK
  BY SomeSegment, RegistryAssumption DEF Init, TypeOK, Entry, Absent, Call, Idle, Phases, Kinds
<1>2. \A i \in Ids : CallsOf(i) = {}
  BY RegistryAssumption DEF Init, CallsOf, Idle
<1>3. CallsShareEntry
  BY <1>2, FS_EmptySet DEF Init, CallsShareEntry, Absent, Idle, Running
<1>4. QED
  BY <1>1, <1>3 DEF Init, IInv, CancelReaches, NothingLeaks
----------------------------------------------------------------------------
(* Steps of a call that leave the registry alone.                          *)

\* The call moves to another phase; its id and its flag stay.
LEMMA QuietCall ==
  ASSUME IInv, NEW c \in Calls, NEW call \in Call,
         calls' = [calls EXCEPT ![c] = call],
         call.id = calls[c].id, call.flag = calls[c].flag,
         Running(c), call.phase # "idle",
         UNCHANGED registry, told' = told,
         cache' \in {"none", "whole", "part"}, late' \in [Calls -> Nat]
  PROVE  IInv'
<1>1. TypeOK'
  BY DEF IInv, TypeOK, registry
<1>2. \A d \in Calls : /\ calls'[d].id = calls[d].id
                       /\ calls'[d].flag = calls[d].flag
                       /\ Running(d)' => Running(d)
                       /\ ~Running(d)' => ~Running(d)
  BY DEF IInv, TypeOK, Running
<1>3. \A i : CallsOf(i)' = CallsOf(i)
  BY <1>2 DEF CallsOf
<1>4. CallsShareEntry'
  BY <1>2, <1>3 DEF IInv, CallsShareEntry, registry, Absent, TypeOK
<1>5. CancelReaches'
  BY <1>2 DEF IInv, CancelReaches, Raised, TypeOK, registry
<1>6. NothingLeaks'
  BY DEF IInv, NothingLeaks, registry
<1>7. QED
  BY <1>1, <1>4, <1>5, <1>6 DEF IInv

\* The records the steps of a call write.
LEMMA MovedCall ==
  ASSUME IInv, NEW c \in Calls, NEW phase \in Phases \ {"idle"}
  PROVE  /\ To(c, phase) \in Call
         /\ To(c, phase).id = calls[c].id /\ To(c, phase).flag = calls[c].flag
         /\ To(c, phase).phase = phase /\ To(c, phase).segment = calls[c].segment
  BY DEF IInv, TypeOK, To, Call

\* Every step of a call but its last leaves the registry alone.
LEMMA StepIInv ==
  ASSUME IInv, NEW c \in Calls, Step(c), ~Leave(c)
  PROVE  IInv'
<1>1. PICK from \in Phases \ {"idle"}, call \in Call :
        /\ Moves(c, from, call)
        /\ call.id = calls[c].id /\ call.flag = calls[c].flag
        /\ call.phase # "idle"
        /\ UNCHANGED <<registry, told>>
        /\ cache' \in {"none", "whole", "part"} /\ late' \in [Calls -> Nat]
  <2> DEFINE Result(from, call) ==
        /\ Moves(c, from, call)
        /\ call.id = calls[c].id /\ call.flag = calls[c].flag
        /\ call.phase # "idle"
        /\ UNCHANGED <<registry, told>>
        /\ cache' \in {"none", "whole", "part"} /\ late' \in [Calls -> Nat]
  <2> SUFFICES \E from \in Phases \ {"idle"}, call \in Call : Result(from, call)
    OBVIOUS
  <2>1. /\ cache \in {"none", "whole", "part"} /\ late \in [Calls -> Nat]
        /\ calls[c] \in Call
    BY DEF IInv, TypeOK
  <2>2. \A phase \in Phases \ {"idle"} :
          /\ To(c, phase) \in Call
          /\ To(c, phase).id = calls[c].id /\ To(c, phase).flag = calls[c].flag
          /\ To(c, phase).phase = phase /\ To(c, phase).segment = calls[c].segment
    BY MovedCall
  <2>3. \A from, phase \in Phases \ {"idle"} :
          Look(c, from, phase) => \E call \in Call :
            /\ Moves(c, from, call) /\ call.phase # "idle"
            /\ call.id = calls[c].id /\ call.flag = calls[c].flag
    BY <2>2 DEF Look, Phases
  <2>4. CASE scope(c)
    BY <2>1, <2>3, <2>4 DEF scope, Phases
  <2>5. CASE GiveUp(c)
    BY <2>1, <2>2, <2>5 DEF GiveUp, Phases
  <2>6. CASE Prepared(c)
    BY <2>1, <2>2, <2>3, <2>6 DEF Prepared, Phases
  <2>7. CASE Cached(c)
    <3>1. PICK call : call = [To(c, "ranked") EXCEPT !.whole = (cache = "whole")]
      OBVIOUS
    <3>2. (cache = "whole") \in BOOLEAN /\ To(c, "ranked") \in Call
      BY <2>2 DEF Phases
    <3>3. call \in Call
      BY <3>1, <3>2, FieldSet
    <3>4. call.id = calls[c].id /\ call.flag = calls[c].flag /\ call.phase # "idle"
      BY <2>2, <3>1, <3>2 DEF Call, Phases
    <3>5. QED
      BY <2>1, <2>7, <3>1, <3>3, <3>4 DEF Cached, Phases
  <2>8. CASE weight(c)
    BY <2>1, <2>3, <2>8 DEF weight, Phases
  <2>9. CASE scorer(c)
    <3>1. PICK call : call = [To(c, "scanning") EXCEPT !.left = Segments[calls[c].segment]]
      OBVIOUS
    <3>2. Segments[calls[c].segment] \in Nat
      BY <2>1, SearchAssumption DEF Call
    <3>3. PICK onward : onward = To(c, "scanning")
      OBVIOUS
    <3>4. onward \in Call /\ onward.id = calls[c].id /\ onward.flag = calls[c].flag
          /\ onward.phase = "scanning"
      BY <2>2, <3>3 DEF Phases
    <3>5. call \in Call
      BY <3>1, <3>2, <3>3, <3>4, FieldSet
    <3>6. call.id = calls[c].id /\ call.flag = calls[c].flag /\ call.phase # "idle"
      BY <3>1, <3>3, <3>4 DEF Call
    <3>7. IF Raised(c) THEN Moves(c, "segment", To(c, "leaving")) ELSE Moves(c, "segment", call)
      BY <2>9, <3>1 DEF scorer
    <3>8. UNCHANGED <<registry, cache, told, late>>
      BY <2>9 DEF scorer
    <3>9. CASE Raised(c)
      BY <2>1, <2>2, <3>7, <3>8, <3>9 DEF Phases
    <3>10. CASE ~Raised(c)
      BY <2>1, <3>5, <3>6, <3>7, <3>8, <3>10 DEF Phases
    <3>11. QED
      BY <3>9, <3>10
  <2>10. CASE Block(c)
    <3>1. PICK call : call = IF Raised(c) THEN [calls[c] EXCEPT !.left = 0, !.whole = FALSE]
                             ELSE [calls[c] EXCEPT !.left = @ - 1]
      OBVIOUS
    <3>2. calls[c].phase = "scanning" /\ calls[c].left > 0
      BY <2>10 DEF Block, Moves
    <3>3. calls[c].left - 1 \in Nat
      BY <2>1, <3>2 DEF Call
    <3>4. call \in Call
      BY <2>1, <3>1, <3>3, FieldSet
    <3>5. call.id = calls[c].id /\ call.flag = calls[c].flag /\ call.phase # "idle"
      BY <2>1, <3>1, <3>2 DEF Call
    <3>6. QED
      BY <2>1, <2>10, <3>1, <3>4, <3>5 DEF Block, Phases
  <2>11. CASE SegmentDone(c)
    <3>1. PICK call : call = IF Raised(c) THEN To(c, "leaving") ELSE NextSegment(c)
      OBVIOUS
    <3>2. PICK onward : onward = To(c, "segment")
      OBVIOUS
    <3>3. [onward EXCEPT !.segment = @ + 1] \in Call \/ calls[c].segment = Len(Segments)
      <4>1. onward \in Call /\ onward.segment = calls[c].segment
        BY <2>2, <3>2 DEF Phases
      <4>2. calls[c].segment \in 1 .. Len(Segments)
        BY <2>1 DEF Call
      <4>3. onward.segment + 1 \in 1 .. Len(Segments) \/ calls[c].segment = Len(Segments)
        BY <4>1, <4>2, SomeSegment
      <4>4. QED
        BY <4>1, <4>3, FieldSet
    <3>4. call \in Call /\ call.id = calls[c].id /\ call.flag = calls[c].flag
          /\ call.phase # "idle"
      BY <2>2, <3>1, <3>2, <3>3 DEF NextSegment, Call, Phases
    <3>5. QED
      BY <2>1, <2>11, <3>1, <3>4 DEF SegmentDone, Phases
  <2>12. CASE Store(c)
    BY <2>1, <2>2, <2>12 DEF Store, Phases
  <2>13. CASE Ranked(c)
    BY <2>1, <2>3, <2>13 DEF Ranked, Phases
  <2>14. CASE Hydrated(c)
    BY <2>1, <2>2, <2>14 DEF Hydrated, Phases
  <2>15. CASE ChunkBuilt(c)
    BY <2>1, <2>3, <2>15 DEF ChunkBuilt, Phases
  <2>16. CASE Add(c)
    <3>1. PICK phase \in {"checking", "finishing"} :
            Moves(c, "adding", [To(c, phase) EXCEPT !.sent = @ + 1])
      BY <2>16 DEF Add
    <3>2. PICK call : call = [To(c, phase) EXCEPT !.sent = @ + 1]
      OBVIOUS
    <3>3. call \in Call /\ call.id = calls[c].id /\ call.flag = calls[c].flag
          /\ call.phase # "idle"
      BY <2>2, <3>1, <3>2 DEF Call, Phases
    <3>4. late' \in [Calls -> Nat]
      BY <2>1, <2>16 DEF Add
    <3>5. QED
      BY <2>1, <2>16, <3>1, <3>2, <3>3, <3>4 DEF Add, Phases
  <2>17. CASE finish(c)
    BY <2>1, <2>3, <2>17 DEF finish, Phases
  <2>18. QED
    BY <2>4, <2>5, <2>6, <2>7, <2>8, <2>9, <2>10, <2>11, <2>12, <2>13, <2>14,
       <2>15, <2>16, <2>17 DEF Step
<1>2. Running(c)
  BY <1>1 DEF Moves, Running
<1>3. QED
  BY <1>1, <1>2, QuietCall DEF Moves

----------------------------------------------------------------------------
(* Steps of the registry.                                                  *)

Holds(queue, i) == \E k \in 1 .. Len(queue) : queue[k] = i

\* What remember leaves: an id it does not forget is in the queue.
LEMMA RememberOK ==
  ASSUME NEW es \in [Ids -> Entry], NEW i \in Ids,
         remembered \in Seq(Ids), Len(remembered) <= REMEMBERED,
         remember(es, i)
  PROVE  /\ remembered' \in Seq(Ids) /\ Len(remembered') <= REMEMBERED
         /\ entries' \in [Ids -> Entry]
         /\ \A j \in Ids : \/ entries'[j] = es[j]
                           \/ es[j].running = 0 /\ entries'[j] = Absent
         /\ \A j \in Ids :
              /\ entries'[j] # Absent /\ entries'[j].running = 0
              /\ j = i \/ Holds(remembered, j)
              => Holds(remembered', j)
<1>1. PICK queue : queue = Append(remembered, i)
  OBVIOUS
<1>2. /\ queue \in Seq(Ids) /\ Len(queue) = Len(remembered) + 1
      /\ Len(remembered) \in Nat
      /\ queue[Len(remembered) + 1] = i
      /\ \A k \in 1 .. Len(remembered) : queue[k] = remembered[k]
  BY <1>1
<1>3. \A j \in Ids : j = i \/ Holds(remembered, j) => Holds(queue, j)
  BY <1>2 DEF Holds
<1>4. Absent \in Entry
  BY DEF Absent, Entry
<1>5. CASE Len(queue) <= REMEMBERED
  <2>1. remembered' = queue /\ entries' = es
    BY <1>1, <1>2, <1>5, RegistryAssumption DEF remember
  <2>2. QED
    BY <1>2, <1>3, <1>5, <2>1
<1>6. CASE Len(queue) > REMEMBERED
  <2>1. remembered' = Tail(queue) /\ entries' = Evicted(es, Head(queue))
    BY <1>1, <1>6 DEF remember
  <2>2. /\ Head(queue) = queue[1] /\ queue[1] \in Ids
        /\ remembered' \in Seq(Ids) /\ Len(remembered') = Len(remembered)
        /\ \A k \in 2 .. Len(queue) : remembered'[k - 1] = queue[k]
    BY <1>2, <2>1
  <2>3. /\ entries' \in [Ids -> Entry]
        /\ \A j \in Ids : \/ entries'[j] = es[j]
                          \/ es[j].running = 0 /\ entries'[j] = Absent
        /\ es[queue[1]].running = 0 => entries'[queue[1]] = Absent
        /\ es[queue[1]].running # 0 => entries'[queue[1]] = es[queue[1]]
    BY <1>4, <2>1, <2>2 DEF Evicted
  <2>4. ASSUME NEW j \in Ids, entries'[j] # Absent, entries'[j].running = 0,
               j = i \/ Holds(remembered, j)
        PROVE  Holds(remembered', j)
    <3>1. PICK k \in 1 .. Len(queue) : queue[k] = j
      BY <1>3, <2>4 DEF Holds
    <3>2. k # 1
      BY <2>3, <2>4, <3>1
    <3>3. k - 1 \in 1 .. Len(remembered') /\ remembered'[k - 1] = j
      BY <1>2, <2>2, <3>1, <3>2
    <3>4. QED
      BY <3>3 DEF Holds
  <2>5. QED
    BY <1>2, <2>2, <2>3, <2>4
<1>7. QED
  BY <1>2, <1>5, <1>6, RegistryAssumption

\* Entries that agree with the calls still do when idle ones are forgotten.
LEMMA SharedAfter ==
  ASSUME NEW es \in [Ids -> Entry],
         calls' \in [Calls -> Call],
         \A j \in Ids : es[j].running = Cardinality(CallsOf(j)'),
         \A j \in Ids : es[j].flag = NoFlag => es[j] = Absent,
         \A d \in Calls : calls'[d].id # NoId =>
           calls'[d].flag = es[calls'[d].id].flag /\ calls'[d].flag # NoFlag,
         \A j \in Ids : \/ entries'[j] = es[j]
                        \/ es[j].running = 0 /\ entries'[j] = Absent
  PROVE  /\ \A j \in Ids : entries'[j].running = Cardinality(CallsOf(j)')
         /\ \A j \in Ids : entries'[j].flag = NoFlag => entries'[j] = Absent
         /\ \A d \in Calls : calls'[d].id # NoId =>
              calls'[d].flag = entries'[calls'[d].id].flag /\ calls'[d].flag # NoFlag
<1>1. \A j \in Ids : entries'[j].running = Cardinality(CallsOf(j)')
  BY DEF Absent
<1>2. \A j \in Ids : entries'[j].flag = NoFlag => entries'[j] = Absent
  OBVIOUS
<1>3. ASSUME NEW d \in Calls, calls'[d].id # NoId
      PROVE  calls'[d].flag = entries'[calls'[d].id].flag /\ calls'[d].flag # NoFlag
  <2>1. PICK j \in Ids : j = calls'[d].id
    BY <1>3 DEF Call
  <2>2. d \in CallsOf(j)' /\ IsFiniteSet(CallsOf(j)')
    BY <2>1, FS_Subset, RegistryAssumption DEF CallsOf
  <2>3. Cardinality(CallsOf(j)') # 0
    BY <2>2, FS_EmptySet
  <2>4. entries'[j] = es[j]
    BY <2>3
  <2>5. QED
    BY <1>3, <2>1, <2>4
<1>4. QED
  BY <1>1, <1>2, <1>3

\* The entry a call begins under, or a cancel raises the flag of.
LEMMA EntryOK ==
  ASSUME IInv, CanAllocate, NEW i \in Ids
  PROVE  /\ entry(i, NewFlag) \in Entry
         /\ entry(i, NewFlag).flag # NoFlag
         /\ entry(i, NewFlag).running = entries[i].running
         /\ entries[i] # Absent => entry(i, NewFlag) = entries[i]
         /\ entries[i] = Absent => entry(i, NewFlag).flag \notin FlagsInUse
<1>1. NewFlag \in Flags /\ NewFlag \notin FlagsInUse /\ NewFlag # NoFlag
  BY RegistryAssumption DEF NewFlag, CanAllocate
<1>2. entries[i] \in Entry /\ (entries[i].flag = NoFlag => entries[i] = Absent)
  BY DEF IInv, TypeOK, CallsShareEntry
<1>3. CASE entries[i] = Absent
  BY <1>1, <1>3 DEF entry, Absent, Entry
<1>4. CASE entries[i] # Absent
  BY <1>2, <1>4 DEF entry
<1>5. QED
  BY <1>3, <1>4

\* A call that begins is one more of its id's entry (LexicalCancellations::begin).
LEMMA BeginIInv ==
  ASSUME IInv, NEW c \in Calls, NEW i \in Ids, NEW kind \in Kinds, begin(c, i, kind)
  PROVE  IInv'
<1>1. PICK e, call, es :
        /\ e = entry(i, NewFlag)
        /\ call = [Idle EXCEPT !.phase = "begun", !.id = i, !.flag = e.flag, !.kind = kind]
        /\ es = [entries EXCEPT ![i] = [e EXCEPT !.running = @ + 1]]
  OBVIOUS
<1>2. /\ entries' = es /\ calls' = [calls EXCEPT ![c] = call]
      /\ raised' = raised \cap FlagsInUse
      /\ UNCHANGED <<remembered, cache, told, late>>
      /\ ~Running(c) /\ CanAllocate
  BY <1>1 DEF begin
<1>3. /\ e \in Entry /\ e.flag # NoFlag /\ e.flag \in Flags
      /\ e.running = entries[i].running /\ e.running \in Nat
      /\ entries[i] # Absent => e = entries[i]
  BY <1>1, <1>2, EntryOK DEF Entry
<1>4. call \in Call /\ call.phase = "begun" /\ call.id = i /\ call.flag = e.flag
  BY <1>1, <1>3, SomeSegment DEF Call, Idle, Phases
<1>5. /\ es \in [Ids -> Entry]
      /\ es[i].flag = e.flag /\ es[i].running = e.running + 1
      /\ \A j \in Ids \ {i} : es[j] = entries[j]
  <2>1. PICK counted : counted = [e EXCEPT !.running = @ + 1]
    OBVIOUS
  <2>2. counted \in Entry /\ counted.flag = e.flag /\ counted.running = e.running + 1
    BY <1>3, <2>1 DEF Entry
  <2>3. QED
    BY <1>1, <2>1, <2>2 DEF IInv, TypeOK
<1>6. calls[c].id = NoId /\ NoId # i
  BY <1>2, RegistryAssumption DEF IInv, CallsShareEntry
<1>7. /\ calls' \in [Calls -> Call] /\ calls'[c] = call
      /\ \A d \in Calls \ {c} : calls'[d] = calls[d]
  BY <1>2, <1>4 DEF IInv, TypeOK
<1>8. TypeOK'
  BY <1>2, <1>5, <1>7 DEF IInv, TypeOK
<1>9. \A j \in Ids : es[j].running = Cardinality(CallsOf(j)')
  <2>1. CallsOf(i)' = CallsOf(i) \cup {c} /\ c \notin CallsOf(i)
    BY <1>4, <1>6, <1>7 DEF CallsOf
  <2>2. IsFiniteSet(CallsOf(i))
    BY FS_Subset, RegistryAssumption DEF CallsOf
  <2>3. Cardinality(CallsOf(i)') = Cardinality(CallsOf(i)) + 1
    BY <2>1, <2>2, FS_AddElement
  <2>4. \A j \in Ids \ {i} : CallsOf(j)' = CallsOf(j)
    BY <1>4, <1>6, <1>7, RegistryAssumption DEF CallsOf
  <2>5. QED
    BY <1>3, <1>5, <2>3, <2>4 DEF IInv, CallsShareEntry
<1>10. \A j \in Ids : es[j].flag = NoFlag => es[j] = Absent
  BY <1>3, <1>5 DEF IInv, CallsShareEntry
<1>11. \A d \in Calls : calls'[d].id # NoId =>
         calls'[d].flag = es[calls'[d].id].flag /\ calls'[d].flag # NoFlag
  <2>1. ASSUME NEW d \in Calls \ {c}, calls[d].id # NoId
        PROVE  calls[d].flag = es[calls[d].id].flag /\ calls[d].flag # NoFlag
    <3>1. calls[d].id \in Ids /\ calls[d].flag = entries[calls[d].id].flag
          /\ calls[d].flag # NoFlag
      BY <2>1 DEF IInv, TypeOK, Call, CallsShareEntry
    <3>2. CASE calls[d].id = i
      <4>1. entries[i] # Absent
        BY <3>1, <3>2 DEF Absent
      <4>2. QED
        BY <1>3, <1>5, <3>1, <3>2, <4>1
    <3>3. QED
      BY <1>5, <3>1, <3>2
  <2>2. QED
    BY <1>3, <1>4, <1>5, <1>7, <2>1
<1>12. CallsShareEntry'
  <2>1. \A d \in Calls : ~Running(d)' => calls'[d].id = NoId
    BY <1>4, <1>7 DEF IInv, CallsShareEntry, Running
  <2>2. \A d \in told' : calls'[d].id # NoId
    BY <1>2, <1>4, <1>6, <1>7 DEF IInv, CallsShareEntry, TypeOK
  <2>3. /\ \A j \in Ids : entries'[j].running = Cardinality(CallsOf(j)')
        /\ \A j \in Ids : entries'[j].flag = NoFlag => entries'[j] = Absent
        /\ \A d \in Calls : calls'[d].id # NoId =>
             calls'[d].flag = entries'[calls'[d].id].flag /\ calls'[d].flag # NoFlag
    BY <1>2, <1>9, <1>10, <1>11
  <2>4. QED
    BY <2>1, <2>2, <2>3 DEF CallsShareEntry
<1>13. CancelReaches'
  <2>1. ASSUME NEW d \in told
        PROVE  calls'[d].flag \in raised'
    <3>1. d \in Calls /\ d # c /\ calls[d].flag \in raised
      BY <1>6, <2>1 DEF IInv, TypeOK, CallsShareEntry, CancelReaches, Raised
    <3>2. calls[d].flag \in FlagsInUse
      BY <3>1 DEF FlagsInUse
    <3>3. QED
      BY <1>2, <1>7, <3>1, <3>2
  <2>2. QED
    BY <1>2, <2>1 DEF CancelReaches, Raised
<1>14. NothingLeaks'
  <2>1. ASSUME NEW j \in Ids, entries'[j] # Absent, entries'[j].running = 0
        PROVE  entries'[j].flag \in raised' /\ Holds(remembered', j)
    <3>1. j # i /\ entries'[j] = entries[j]
      BY <1>2, <1>3, <1>5, <2>1
    <3>2. entries[j].flag \in raised /\ Holds(remembered, j)
      BY <2>1, <3>1 DEF IInv, NothingLeaks, Holds
    <3>3. entries[j].flag \in FlagsInUse
      BY DEF FlagsInUse
    <3>4. QED
      BY <1>2, <3>1, <3>2, <3>3
  <2>2. QED
    BY <2>1 DEF NothingLeaks, Holds
<1>15. QED
  BY <1>8, <1>12, <1>13, <1>14 DEF IInv

\* A cancel raises the flag the running calls of the id hold (cancel).
LEMMA CancelIInv ==
  ASSUME IInv, NEW i \in Ids, cancel(i)
  PROVE  IInv'
<1>1. PICK e, made : e = entry(i, NewFlag) /\ made = [entries EXCEPT ![i] = e]
  OBVIOUS
<1>2. /\ CanAllocate
      /\ raised' = (raised \cap FlagsInUse) \cup {e.flag}
      /\ IF e.flag \notin raised \cap FlagsInUse /\ e.running = 0
         THEN remember(made, i)
         ELSE entries' = made /\ UNCHANGED remembered
      /\ told' = told \cup {c \in Calls : Running(c) /\ calls[c].id = i}
      /\ UNCHANGED <<calls, cache, late>>
  BY <1>1 DEF cancel
<1>3. /\ e \in Entry /\ e.flag # NoFlag /\ e.flag \in Flags
      /\ e.running = entries[i].running /\ e.running \in Nat
      /\ entries[i] # Absent => e = entries[i]
      /\ entries[i] = Absent => e.flag \notin FlagsInUse
  BY <1>1, <1>2, EntryOK DEF Entry
<1>4. /\ made \in [Ids -> Entry] /\ made[i] = e
      /\ \A j \in Ids \ {i} : made[j] = entries[j]
  BY <1>1, <1>3 DEF IInv, TypeOK
<1>5. /\ remembered' \in Seq(Ids) /\ Len(remembered') <= REMEMBERED
      /\ entries' \in [Ids -> Entry]
      /\ \A j \in Ids : \/ entries'[j] = made[j]
                        \/ made[j].running = 0 /\ entries'[j] = Absent
      /\ \A j \in Ids : /\ entries'[j] # Absent /\ entries'[j].running = 0
                        /\ j # i => Holds(remembered, j)
                        => Holds(remembered', j)
  <2>1. /\ remembered \in Seq(Ids) /\ Len(remembered) <= REMEMBERED
    BY DEF IInv, TypeOK
  <2>2. CASE e.flag \notin raised \cap FlagsInUse /\ e.running = 0
    BY <1>2, <1>4, <2>1, <2>2, RememberOK
  <2>3. CASE ~(e.flag \notin raised \cap FlagsInUse /\ e.running = 0)
    <3>1. entries' = made /\ remembered' = remembered
      BY <1>2, <2>3
    <3>2. entries'[i] # Absent /\ entries'[i].running = 0 => Holds(remembered, i)
      BY <1>3, <1>4, <2>3, <3>1 DEF IInv, NothingLeaks, Holds
    <3>3. QED
      BY <1>4, <2>1, <3>1, <3>2
  <2>4. QED
    BY <2>2, <2>3
<1>6. TypeOK'
  BY <1>2, <1>3, <1>5 DEF IInv, TypeOK
<1>7. CallsShareEntry'
  <2>1. \A j : CallsOf(j)' = CallsOf(j)
    BY <1>2 DEF CallsOf
  <2>2. \A j \in Ids : made[j].running = Cardinality(CallsOf(j)')
    BY <1>3, <1>4, <2>1 DEF IInv, CallsShareEntry
  <2>3. \A j \in Ids : made[j].flag = NoFlag => made[j] = Absent
    BY <1>3, <1>4 DEF IInv, CallsShareEntry
  <2>4. \A d \in Calls : calls'[d].id # NoId =>
          calls'[d].flag = made[calls'[d].id].flag /\ calls'[d].flag # NoFlag
    <3>1. ASSUME NEW d \in Calls, calls[d].id # NoId
          PROVE  calls[d].flag = made[calls[d].id].flag /\ calls[d].flag # NoFlag
      <4>1. /\ calls[d].id \in Ids
            /\ calls[d].flag = entries[calls[d].id].flag /\ calls[d].flag # NoFlag
        BY <3>1 DEF IInv, TypeOK, Call, CallsShareEntry
      <4>2. entries[calls[d].id] # Absent
        BY <4>1 DEF Absent
      <4>3. QED
        BY <1>3, <1>4, <4>1, <4>2
    <3>2. QED
      BY <1>2, <3>1
  <2>5. calls' \in [Calls -> Call]
    BY <1>6 DEF TypeOK
  <2>6. /\ \A j \in Ids : entries'[j].running = Cardinality(CallsOf(j)')
        /\ \A j \in Ids : entries'[j].flag = NoFlag => entries'[j] = Absent
        /\ \A d \in Calls : calls'[d].id # NoId =>
             calls'[d].flag = entries'[calls'[d].id].flag /\ calls'[d].flag # NoFlag
    BY <1>4, <1>5, <2>2, <2>3, <2>4, <2>5, SharedAfter
  <2>7. \A d \in Calls : ~Running(d)' => calls'[d].id = NoId
    BY <1>2 DEF IInv, CallsShareEntry, Running
  <2>8. \A d \in told' : calls'[d].id # NoId
    BY <1>2, RegistryAssumption DEF IInv, CallsShareEntry
  <2>9. QED
    BY <2>6, <2>7, <2>8 DEF CallsShareEntry
<1>8. CancelReaches'
  <2>1. ASSUME NEW d \in told'
        PROVE  calls[d].flag \in raised'
    <3>1. CASE d \in told
      <4>1. d \in Calls /\ calls[d].flag \in raised
        BY <3>1 DEF IInv, TypeOK, CancelReaches, Raised
      <4>2. QED
        BY <1>2, <4>1 DEF FlagsInUse
    <3>2. CASE d \in Calls /\ calls[d].id = i
      <4>1. calls[d].flag = entries[i].flag /\ calls[d].flag # NoFlag
        BY <3>2, RegistryAssumption DEF IInv, CallsShareEntry
      <4>2. calls[d].flag = e.flag
        BY <1>3, <4>1 DEF Absent
      <4>3. QED
        BY <1>2, <4>2
    <3>3. QED
      BY <1>2, <2>1, <3>1, <3>2
  <2>2. QED
    BY <1>2, <2>1 DEF CancelReaches, Raised
<1>9. NothingLeaks'
  <2>1. ASSUME NEW j \in Ids, entries'[j] # Absent, entries'[j].running = 0
        PROVE  entries'[j].flag \in raised' /\ Holds(remembered', j)
    <3>1. entries'[j] = made[j]
      BY <1>5, <2>1
    <3>2. CASE j = i
      BY <1>2, <1>4, <1>5, <2>1, <3>1, <3>2
    <3>3. CASE j # i
      <4>1. entries'[j] = entries[j]
        BY <1>4, <3>1, <3>3
      <4>2. entries[j].flag \in raised /\ Holds(remembered, j)
        BY <2>1, <4>1 DEF IInv, NothingLeaks, Holds
      <4>3. entries[j].flag \in FlagsInUse
        BY DEF FlagsInUse
      <4>4. QED
        BY <1>2, <1>5, <2>1, <4>1, <4>2, <4>3
    <3>4. QED
      BY <3>2, <3>3
  <2>2. QED
    BY <2>1 DEF NothingLeaks, Holds
<1>10. QED
  BY <1>6, <1>7, <1>8, <1>9 DEF IInv

\* A call that ends leaves the entry forgotten, remembered or with fewer calls (end).
LEMMA LeaveIInv ==
  ASSUME IInv, NEW c \in Calls, Leave(c)
  PROVE  IInv'
<1>1. /\ Running(c)
      /\ calls' = [calls EXCEPT ![c] = Idle]
      /\ IF calls[c].id = NoId THEN UNCHANGED <<entries, remembered>> ELSE end(calls[c].id)
      /\ told' = told \ {c} /\ late' = [late EXCEPT ![c] = 0]
      /\ UNCHANGED <<raised, cache>>
  BY DEF Leave, Moves, Running
<1>2. Idle \in Call /\ Idle.id = NoId /\ Idle.phase = "idle"
  BY SomeSegment DEF Idle, Call, Phases, Kinds
<1>3. /\ calls' \in [Calls -> Call] /\ calls'[c] = Idle
      /\ \A d \in Calls \ {c} : calls'[d] = calls[d]
  BY <1>1, <1>2 DEF IInv, TypeOK
<1>4. late' \in [Calls -> Nat] /\ told' \subseteq Calls
  BY <1>1 DEF IInv, TypeOK
<1>5. /\ \A d \in Calls : ~Running(d)' => calls'[d].id = NoId
      /\ \A d \in told' : calls'[d].id # NoId
  BY <1>1, <1>2, <1>3 DEF IInv, TypeOK, CallsShareEntry, Running
<1>6. CancelReaches'
  BY <1>1, <1>3 DEF IInv, TypeOK, CancelReaches, Raised
<1>7. CASE calls[c].id = NoId
  <2>1. entries' = entries /\ remembered' = remembered /\ raised' = raised
    BY <1>1, <1>7
  <2>2. \A j \in Ids : CallsOf(j)' = CallsOf(j)
    BY <1>2, <1>3, <1>7, RegistryAssumption DEF CallsOf
  <2>3. TypeOK'
    BY <1>1, <1>3, <1>4, <2>1 DEF IInv, TypeOK
  <2>4. \A d \in Calls : calls'[d].id # NoId =>
          calls'[d].flag = entries'[calls'[d].id].flag /\ calls'[d].flag # NoFlag
    BY <1>2, <1>3, <2>1 DEF IInv, CallsShareEntry
  <2>5. CallsShareEntry'
    BY <1>5, <2>1, <2>2, <2>4 DEF IInv, CallsShareEntry, Absent
  <2>6. NothingLeaks'
    BY <2>1 DEF IInv, NothingLeaks
  <2>7. QED
    BY <1>6, <2>3, <2>5, <2>6 DEF IInv
<1>8. CASE calls[c].id # NoId
  <2>1. PICK i \in Ids : i = calls[c].id
    BY <1>8 DEF IInv, TypeOK, Call
  <2>2. PICK left : left = [entries EXCEPT ![i].running = @ - 1]
    OBVIOUS
  <2>3. /\ calls[c].flag = entries[i].flag /\ entries[i].flag # NoFlag
        /\ entries[i] # Absent /\ entries[i] \in Entry
        /\ entries[i].running = Cardinality(CallsOf(i))
    BY <2>1, RegistryAssumption DEF IInv, TypeOK, CallsShareEntry, Absent
  <2>4. /\ CallsOf(i)' = CallsOf(i) \ {c} /\ c \in CallsOf(i)
        /\ \A j \in Ids \ {i} : CallsOf(j)' = CallsOf(j)
    BY <1>2, <1>3, <2>1, RegistryAssumption DEF CallsOf
  <2>5. IsFiniteSet(CallsOf(i)) /\ Cardinality(CallsOf(i)) # 0
    BY <2>4, FS_Subset, FS_EmptySet, RegistryAssumption DEF CallsOf
  <2>6. Cardinality(CallsOf(i)') = entries[i].running - 1
    BY <2>3, <2>4, <2>5, FS_RemoveElement
  <2>7. entries[i].running - 1 \in Nat
    BY <2>3, <2>5 DEF Entry
  <2>8. PICK counted : counted = [entries[i] EXCEPT !.running = @ - 1]
    OBVIOUS
  <2>9. /\ counted \in Entry /\ counted.flag = entries[i].flag
        /\ counted.running = entries[i].running - 1
    BY <2>3, <2>7, <2>8 DEF Entry
  <2>10. /\ left \in [Ids -> Entry] /\ left[i] = counted
         /\ \A j \in Ids \ {i} : left[j] = entries[j]
    BY <2>2, <2>8, <2>9 DEF IInv, TypeOK
  <2>11. left[i].flag = entries[i].flag /\ left[i].running = entries[i].running - 1
    BY <2>9, <2>10
  <2>12. IF left[i].running > 0
         THEN entries' = left /\ UNCHANGED remembered
         ELSE IF left[i].flag \in raised
         THEN remember(left, i)
         ELSE entries' = [left EXCEPT ![i] = Absent] /\ UNCHANGED remembered
    BY <1>1, <1>8, <2>1, <2>2, <2>3 DEF end
  <2>13. /\ remembered' \in Seq(Ids) /\ Len(remembered') <= REMEMBERED
         /\ entries' \in [Ids -> Entry]
         /\ \A j \in Ids : \/ entries'[j] = left[j]
                           \/ left[j].running = 0 /\ entries'[j] = Absent
         /\ \A j \in Ids : /\ entries'[j] # Absent /\ entries'[j].running = 0
                           /\ j # i => Holds(remembered, j)
                           => Holds(remembered', j) /\ (j = i => left[i].flag \in raised)
    <3>1. /\ remembered \in Seq(Ids) /\ Len(remembered) <= REMEMBERED
      BY DEF IInv, TypeOK
    <3>2. CASE left[i].running > 0
      BY <2>10, <2>12, <3>1, <3>2
    <3>3. CASE ~(left[i].running > 0) /\ left[i].flag \in raised
      BY <2>10, <2>12, <3>1, <3>3, RememberOK
    <3>4. CASE ~(left[i].running > 0) /\ left[i].flag \notin raised
      <4>1. entries' = [left EXCEPT ![i] = Absent] /\ remembered' = remembered
        BY <2>12, <3>4
      <4>2. Absent \in Entry
        BY DEF Absent, Entry
      <4>3. left[i].running = 0
        <5>1. PICK n \in Nat : n = left[i].running
          BY <2>7, <2>11
        <5>2. ~(n > 0)
          BY <3>4, <5>1
        <5>3. QED
          BY <5>1, <5>2
      <4>4. QED
        BY <2>10, <3>1, <4>1, <4>2, <4>3
    <3>5. QED
      BY <3>2, <3>3, <3>4
  <2>14. TypeOK'
    BY <1>1, <1>3, <1>4, <2>13 DEF IInv, TypeOK
  <2>15. \A j \in Ids : left[j].running = Cardinality(CallsOf(j)')
    BY <2>4, <2>6, <2>10, <2>11 DEF IInv, CallsShareEntry
  <2>16. \A j \in Ids : left[j].flag = NoFlag => left[j] = Absent
    BY <2>3, <2>10, <2>11 DEF IInv, CallsShareEntry
  <2>17. \A d \in Calls : calls'[d].id # NoId =>
           calls'[d].flag = left[calls'[d].id].flag /\ calls'[d].flag # NoFlag
    <3>1. ASSUME NEW d \in Calls \ {c}, calls[d].id # NoId
          PROVE  calls[d].flag = left[calls[d].id].flag /\ calls[d].flag # NoFlag
      BY <2>10, <2>11, <3>1 DEF IInv, TypeOK, Call, CallsShareEntry
    <3>2. QED
      BY <1>2, <1>3, <3>1
  <2>18. /\ \A j \in Ids : entries'[j].running = Cardinality(CallsOf(j)')
         /\ \A j \in Ids : entries'[j].flag = NoFlag => entries'[j] = Absent
         /\ \A d \in Calls : calls'[d].id # NoId =>
              calls'[d].flag = entries'[calls'[d].id].flag /\ calls'[d].flag # NoFlag
    BY <1>3, <2>10, <2>13, <2>15, <2>16, <2>17, SharedAfter
  <2>19. CallsShareEntry'
    BY <1>5, <2>18 DEF CallsShareEntry
  <2>20. NothingLeaks'
    <3>1. ASSUME NEW j \in Ids, entries'[j] # Absent, entries'[j].running = 0
          PROVE  entries'[j].flag \in raised' /\ Holds(remembered', j)
      <4>1. entries'[j] = left[j]
        BY <2>13, <3>1
      <4>2. CASE j = i
        BY <1>1, <2>13, <3>1, <4>1, <4>2
      <4>3. CASE j # i
        <5>1. entries'[j] = entries[j]
          BY <2>10, <4>1, <4>3
        <5>2. entries[j].flag \in raised /\ Holds(remembered, j)
          BY <3>1, <5>1 DEF IInv, NothingLeaks, Holds
        <5>3. QED
          BY <1>1, <2>13, <3>1, <5>1, <5>2
      <4>4. QED
        BY <4>2, <4>3
    <3>2. QED
      BY <3>1 DEF NothingLeaks, Holds
  <2>21. QED
    BY <1>6, <2>14, <2>19, <2>20 DEF IInv
<1>9. QED
  BY <1>7, <1>8

----------------------------------------------------------------------------
(* The theorems.                                                           *)

\* Every step keeps the invariant.
LEMMA NextIInv == IInv /\ [Next]_vars => IInv'
<1> SUFFICES ASSUME IInv, [Next]_vars PROVE IInv'
  OBVIOUS
<1>1. ASSUME NEW i \in Ids, cancel(i) PROVE IInv'
  BY <1>1, CancelIInv
<1>2. ASSUME NEW c \in Calls, NEW kind \in Kinds, NEW i \in Ids, begin(c, i, kind)
      PROVE  IInv'
  BY <1>2, BeginIInv
<1>3. ASSUME NEW c \in Calls, NEW kind \in Kinds, begin_untagged(c, kind)
      PROVE  IInv'
  <2>1. PICK call : call = [Idle EXCEPT !.phase = "begun", !.kind = kind]
    OBVIOUS
  <2>2. call \in Call /\ call.id = NoId /\ call.phase = "begun"
    BY <2>1, SomeSegment DEF Call, Idle, Phases
  <2>3. /\ calls' = [calls EXCEPT ![c] = call] /\ ~Running(c) /\ calls[c].id = NoId
        /\ UNCHANGED <<registry, cache, told, late>>
    BY <1>3, <2>1 DEF begin_untagged, IInv, CallsShareEntry
  <2>4. /\ calls' \in [Calls -> Call] /\ calls'[c] = call
        /\ \A d \in Calls \ {c} : calls'[d] = calls[d]
    BY <2>2, <2>3 DEF IInv, TypeOK
  <2>5. TypeOK'
    BY <2>3, <2>4 DEF IInv, TypeOK, registry
  <2>6. \A j \in Ids : CallsOf(j)' = CallsOf(j)
    BY <2>2, <2>3, <2>4, RegistryAssumption DEF CallsOf
  <2>7. /\ \A d \in Calls : ~Running(d)' => calls'[d].id = NoId
        /\ \A d \in told' : calls'[d].id # NoId
    BY <2>2, <2>3, <2>4 DEF IInv, TypeOK, CallsShareEntry, Running
  <2>8. \A d \in Calls : calls'[d].id # NoId =>
          calls'[d].flag = entries'[calls'[d].id].flag /\ calls'[d].flag # NoFlag
    BY <2>2, <2>3, <2>4 DEF IInv, CallsShareEntry, registry
  <2>9. CallsShareEntry'
    BY <2>3, <2>6, <2>7, <2>8 DEF IInv, CallsShareEntry, registry, Absent
  <2>10. CancelReaches'
    BY <2>3, <2>4 DEF IInv, TypeOK, CallsShareEntry, CancelReaches, Raised, registry
  <2>11. NothingLeaks'
    BY <2>3 DEF IInv, NothingLeaks, registry
  <2>12. QED
    BY <2>5, <2>9, <2>10, <2>11 DEF IInv
<1>4. ASSUME NEW c \in Calls, Step(c) PROVE IInv'
  BY <1>4, StepIInv, LeaveIInv
<1>5. CASE UNCHANGED <<registry, calls, told, late>> /\ cache' \in {"none", "whole", "part"}
  BY <1>5 DEF IInv, TypeOK, CallsShareEntry, CallsOf, CancelReaches, Raised,
              NothingLeaks, Running, registry, Absent
<1>6. CASE UNCHANGED vars
  <2>1. UNCHANGED <<registry, calls, told, late>> /\ cache' \in {"none", "whole", "part"}
    BY <1>6 DEF vars, registry, IInv, TypeOK
  <2>2. QED
    BY <1>5, <2>1
<1>7. CASE Uncache
  BY <1>5, <1>7 DEF Uncache
<1>8. QED
  BY <1>1, <1>2, <1>3, <1>4, <1>6, <1>7 DEF Next

\* The invariant the theorems rest on.
THEOREM Invariant == Spec => []IInv
  BY InitIInv, NextIInv, PTL DEF Spec

\* Whatever the ids, the calls and the room, a cancel reaches every running
\* call of its id (LexicalCancellations::cancel, Registry::remember).
THEOREM Reaches == Spec => []CancelReaches
<1>1. IInv => CancelReaches
  BY DEF IInv
<1>2. QED
  BY <1>1, Invariant, PTL

\* Only running calls and the remembered ids take memory in the registry.
THEOREM Bounded == Spec => []NothingLeaks
<1>1. IInv => NothingLeaks
  BY DEF IInv
<1>2. QED
  BY <1>1, Invariant, PTL

\* The state has its types: the queue of remembered ids keeps its bound.
THEOREM TypeCorrect == Spec => []TypeOK
<1>1. IInv => TypeOK
  BY DEF IInv
<1>2. QED
  BY <1>1, Invariant, PTL

----------------------------------------------------------------------------
(* What a cancelled call still hands out.                                   *)

\* A call whose scan was cut short leaves, or is about to: its flag is raised.
CutLeaves ==
  /\ cache # "part"
  /\ \A c \in Calls : \/ calls[c].whole
                      \/ calls[c].phase = "leaving"
                      \/ calls[c].phase = "scanning" /\ Raised(c)

\* A call that sent an event after its id was cancelled looks before another.
LateLeaves ==
  \A c \in Calls : \/ late[c] = 0
                   \/ late[c] = 1 /\ Raised(c) /\ calls[c].phase \in {"checking", "finishing", "leaving"}

HInv == IInv /\ CutLeaves /\ LateLeaves

\* A flag that a call holds stays raised when the registry lets go of flags
\* nothing points to (begin, cancel).
LEMMA RegistryKeeps ==
  ASSUME HInv, UNCHANGED <<calls, cache, late>>, raised \cap FlagsInUse \subseteq raised'
  PROVE  CutLeaves' /\ LateLeaves'
<1>1. \A c \in Calls : Raised(c) => Raised(c)'
  BY DEF Raised, FlagsInUse
<1>2. QED
  BY <1>1 DEF HInv, CutLeaves, LateLeaves

\* One call goes on, or begins, whole and with what it may have sent late.
LEMMA OneMoves ==
  ASSUME HInv, NEW c \in Calls, NEW call \in Call, calls' = [calls EXCEPT ![c] = call],
         raised \cap FlagsInUse \subseteq raised', cache' # "part",
         \/ call.whole \/ call.phase = "leaving"
         \/ call.phase = "scanning" /\ call.flag \in raised',
         \A d \in Calls \ {c} : late'[d] = late[d],
         \/ late'[c] = 0
         \/ /\ late'[c] = 1 /\ call.flag \in raised'
            /\ call.phase \in {"checking", "finishing", "leaving"}
  PROVE  CutLeaves' /\ LateLeaves'
<1>1. /\ calls'[c] = call
      /\ \A d \in Calls \ {c} : calls'[d] = calls[d]
  BY DEF HInv, IInv, TypeOK
<1>2. \A d \in Calls \ {c} : Raised(d) => Raised(d)'
  BY <1>1 DEF Raised, FlagsInUse
<1>3. CutLeaves'
  BY <1>1, <1>2 DEF HInv, CutLeaves, Raised
<1>4. LateLeaves'
  BY <1>1, <1>2 DEF HInv, LateLeaves, Raised
<1>5. QED
  BY <1>3, <1>4

\* Going on to another phase changes nothing else of a call.
LEMMA MovedWhole ==
  ASSUME IInv, NEW c \in Calls, NEW phase \in Phases
  PROVE  /\ To(c, phase) \in Call /\ To(c, phase).phase = phase
         /\ To(c, phase).whole = calls[c].whole /\ To(c, phase).flag = calls[c].flag
  BY DEF IInv, TypeOK, To, Call

\* A look at the flag: a raised one leads out.
LEMMA LookKeeps ==
  ASSUME HInv, NEW c \in Calls, NEW from \in Phases \ {"leaving", "scanning"},
         NEW phase \in Phases, Look(c, from, phase), UNCHANGED <<registry, cache, late>>
  PROVE  CutLeaves' /\ LateLeaves'
<1>1. PICK call : call = To(c, IF Raised(c) THEN "leaving" ELSE phase)
  OBVIOUS
<1>2. /\ calls[c].phase = from /\ calls' = [calls EXCEPT ![c] = call]
      /\ raised' = raised /\ cache' = cache /\ late' = late
  BY <1>1 DEF Look, Moves, registry
<1>3. /\ call \in Call /\ call.whole = calls[c].whole /\ call.flag = calls[c].flag
      /\ Raised(c) => call.phase = "leaving"
  BY <1>1, MovedWhole DEF HInv, Phases
<1>4. cache # "part" /\ calls[c].phase \notin {"leaving", "scanning"}
  BY <1>2 DEF HInv, CutLeaves
<1>5. calls[c].whole
  BY <1>4 DEF HInv, CutLeaves
<1>6. late[c] = 0 \/ (late[c] = 1 /\ Raised(c))
  BY DEF HInv, LateLeaves, Raised
<1>7. call.phase = "leaving" \/ late[c] = 0
  BY <1>3, <1>6
<1>8. /\ raised \cap FlagsInUse \subseteq raised' /\ cache' # "part" /\ call.whole
      /\ \A d \in Calls \ {c} : late'[d] = late[d]
  BY <1>2, <1>3, <1>4, <1>5
<1>9. \/ late'[c] = 0
      \/ late'[c] = 1 /\ call.flag \in raised' /\ call.phase = "leaving"
  BY <1>2, <1>3, <1>6, <1>7 DEF Raised
<1>10. QED
  BY <1>2, <1>3, <1>8, <1>9, OneMoves

\* A step without a look is one at which nothing was sent late.
LEMMA StrideKeeps ==
  ASSUME HInv, NEW c \in Calls, NEW call \in Call,
         calls' = [calls EXCEPT ![c] = call], raised' = raised, late' = late, cache' # "part",
         calls[c].phase \notin {"checking", "finishing", "leaving"},
         \/ call.whole \/ call.phase = "leaving"
         \/ call.phase = "scanning" /\ call.flag \in raised
  PROVE  CutLeaves' /\ LateLeaves'
<1>1. late[c] = 0
  BY DEF HInv, LateLeaves
<1>2. raised \cap FlagsInUse \subseteq raised'
  OBVIOUS
<1>3. late'[c] = 0 /\ \A d \in Calls \ {c} : late'[d] = late[d]
  BY <1>1
<1>4. QED
  BY <1>2, <1>3, OneMoves

\* Every step of a call keeps both.
LEMMA StepKeeps ==
  ASSUME HInv, NEW c \in Calls, Step(c)
  PROVE  CutLeaves' /\ LateLeaves'
<1>a. IInv /\ calls[c] \in Call /\ cache # "part"
  BY DEF HInv, IInv, TypeOK, CutLeaves
<1>b. calls[c].whole \in BOOLEAN
  BY <1>a, FieldSet DEF Call
<1>c. calls[c].whole \/ calls[c].phase = "leaving" \/ (calls[c].phase = "scanning" /\ Raised(c))
  BY DEF HInv, CutLeaves, Raised
<1>d. \/ late[c] = 0
      \/ late[c] = 1 /\ Raised(c) /\ calls[c].phase \in {"checking", "finishing", "leaving"}
  BY DEF HInv, LateLeaves, Raised
<1>1. /\ IInv /\ calls[c] \in Call /\ cache # "part" /\ calls[c].whole \in BOOLEAN
      /\ calls[c].whole \/ calls[c].phase = "leaving" \/ (calls[c].phase = "scanning" /\ Raised(c))
      /\ \/ late[c] = 0
         \/ late[c] = 1 /\ Raised(c) /\ calls[c].phase \in {"checking", "finishing", "leaving"}
  BY <1>a, <1>b, <1>c, <1>d, Zenon
<1>2. \A phase \in Phases :
        /\ To(c, phase) \in Call /\ To(c, phase).phase = phase
        /\ To(c, phase).whole = calls[c].whole /\ To(c, phase).flag = calls[c].flag
        /\ To(c, phase).segment = calls[c].segment
  BY <1>1, MovedWhole DEF To, Call
<1>3. \A from \in Phases \ {"leaving", "scanning"}, phase \in Phases :
        Look(c, from, phase) /\ UNCHANGED <<registry, cache, late>> => CutLeaves' /\ LateLeaves'
  BY LookKeeps
<1>4. CASE scope(c) \/ weight(c) \/ Ranked(c) \/ ChunkBuilt(c) \/ finish(c)
  BY <1>3, <1>4 DEF scope, weight, Ranked, ChunkBuilt, finish, Phases
<1>5. CASE GiveUp(c)
  <2>1. /\ calls' = [calls EXCEPT ![c] = To(c, "leaving")] /\ Raised(c)
        /\ raised' = raised /\ cache' = cache /\ late' = late
    BY <1>5 DEF GiveUp, Moves, registry
  <2>2. "leaving" \in Phases
    BY DEF Phases
  <2>3. /\ To(c, "leaving") \in Call /\ To(c, "leaving").phase = "leaving"
        /\ To(c, "leaving").flag = calls[c].flag
    BY <1>2, <2>2
  <2>4. QED
    BY <1>1, <2>1, <2>3, OneMoves DEF Raised
<1>6. CASE Prepared(c)
  <2>1. CASE calls[c].kind = "page"
    BY <1>3, <1>6, <2>1 DEF Prepared, Phases
  <2>2. CASE calls[c].kind # "page"
    <3>1. calls[c].phase = "preparing" /\ calls' = [calls EXCEPT ![c] = To(c, "ranking")]
          /\ raised' = raised /\ cache' = cache /\ late' = late
      BY <1>6, <2>2 DEF Prepared, registry, Moves
    <3>2. To(c, "ranking") \in Call /\ To(c, "ranking").whole = calls[c].whole
      BY <1>2 DEF Phases
    <3>3. QED
      BY <1>1, <3>1, <3>2, StrideKeeps
  <2>3. QED
    BY <2>1, <2>2
<1>7. CASE Cached(c)
  <2>1. PICK call : call = [To(c, "ranked") EXCEPT !.whole = (cache = "whole")]
    OBVIOUS
  <2>2. cache = "whole" /\ To(c, "ranked") \in Call
    BY <1>1, <1>2, <1>7 DEF Cached, IInv, TypeOK, Phases
  <2>3. call \in Call /\ call.whole
    BY <2>1, <2>2 DEF Call
  <2>4. calls[c].phase = "ranking" /\ calls' = [calls EXCEPT ![c] = call] /\ raised' = raised /\ cache' = cache /\ late' = late
    BY <1>7, <2>1 DEF Cached, Moves, registry
  <2>5. QED
    BY <1>1, <2>3, <2>4, StrideKeeps
<1>8. CASE scorer(c)
  <2>1. PICK scanning, call :
          /\ scanning = [To(c, "scanning") EXCEPT !.left = Segments[calls[c].segment]]
          /\ call = IF Raised(c) THEN To(c, "leaving") ELSE scanning
    OBVIOUS
  <2>2. Segments[calls[c].segment] \in Nat
    BY <1>1, SearchAssumption DEF Call
  <2>3. scanning \in Call /\ scanning.whole = calls[c].whole
    <3>1. To(c, "scanning") \in Call /\ To(c, "scanning").whole = calls[c].whole
      BY <1>2 DEF Phases
    <3>2. QED
      BY <2>1, <2>2, <3>1 DEF Call
  <2>4. call \in Call /\ call.whole = calls[c].whole
    BY <1>2, <2>1, <2>3 DEF Phases
  <2>5. calls[c].phase = "segment" /\ calls' = [calls EXCEPT ![c] = call] /\ raised' = raised /\ cache' = cache /\ late' = late
    BY <1>8, <2>1 DEF scorer, Moves, registry
  <2>6. QED
    BY <1>1, <2>4, <2>5, StrideKeeps
<1>9. CASE Block(c)
  <2>1. PICK stopped, onward, call :
          /\ stopped = [calls[c] EXCEPT !.left = 0, !.whole = FALSE]
          /\ onward = [calls[c] EXCEPT !.left = @ - 1]
          /\ call = IF Raised(c) THEN stopped ELSE onward
    OBVIOUS
  <2>2. /\ calls[c].phase = "scanning" /\ calls' = [calls EXCEPT ![c] = call] /\ calls[c].left > 0
        /\ raised' = raised /\ cache' = cache /\ late' = late
    BY <1>9, <2>1 DEF Block, Moves, registry
  <2>3. calls[c].left - 1 \in Nat
    BY <1>1, <2>2 DEF Call
  <2>4. stopped \in Call /\ stopped.phase = calls[c].phase /\ stopped.flag = calls[c].flag
    BY <1>1, <2>1, FieldSet DEF Call
  <2>5. onward \in Call /\ onward.whole = calls[c].whole
    BY <1>1, <2>1, <2>3 DEF Call
  <2>6. call \in Call
    BY <2>1, <2>4, <2>5
  <2>7. call.whole \/ (call.phase = "scanning" /\ call.flag \in raised)
    BY <1>1, <2>1, <2>2, <2>4, <2>5 DEF Raised
  <2>8. QED
    BY <1>1, <2>2, <2>6, <2>7, StrideKeeps
<1>10. CASE SegmentDone(c)
  <2>1. PICK next, call :
          /\ next = [To(c, "segment") EXCEPT !.segment = @ + 1]
          /\ call = IF Raised(c) THEN To(c, "leaving")
                    ELSE IF calls[c].segment = Len(Segments) THEN To(c, "storing") ELSE next
    OBVIOUS
  <2>2. /\ calls[c].phase = "scanning" /\ calls' = [calls EXCEPT ![c] = call]
        /\ raised' = raised /\ cache' = cache /\ late' = late
    BY <1>10, <2>1 DEF SegmentDone, NextSegment, Moves, registry
  <2>3. calls[c].segment # Len(Segments) => next \in Call /\ next.whole = calls[c].whole
    <3>1. /\ To(c, "segment") \in Call /\ To(c, "segment").whole = calls[c].whole
          /\ To(c, "segment").segment = calls[c].segment
      BY <1>2 DEF Phases
    <3>2. calls[c].segment \in 1 .. Len(Segments)
      BY <1>1 DEF Call
    <3>3. calls[c].segment # Len(Segments) => calls[c].segment + 1 \in 1 .. Len(Segments)
      BY <3>2, SomeSegment
    <3>4. QED
      BY <2>1, <3>1, <3>3 DEF Call
  <2>4. /\ To(c, "leaving") \in Call /\ To(c, "leaving").phase = "leaving"
        /\ To(c, "storing") \in Call /\ To(c, "storing").whole = calls[c].whole
    BY <1>2 DEF Phases
  <2>5. call \in Call /\ (call.whole \/ call.phase = "leaving")
    BY <1>1, <2>1, <2>2, <2>3, <2>4
  <2>6. QED
    BY <1>1, <2>2, <2>5, StrideKeeps
<1>11. CASE Store(c)
  <2>1. /\ calls[c].phase = "storing" /\ calls' = [calls EXCEPT ![c] = To(c, "ranked")]
        /\ cache' \in {cache, IF calls[c].whole THEN "whole" ELSE "part"}
        /\ raised' = raised /\ late' = late
    BY <1>11 DEF Store, Moves, registry
  <2>2. To(c, "ranked") \in Call /\ To(c, "ranked").whole = calls[c].whole
    BY <1>2 DEF Phases
  <2>3. calls[c].whole /\ cache' # "part"
    BY <1>1, <2>1
  <2>4. QED
    BY <2>1, <2>2, <2>3, StrideKeeps
<1>12. CASE Hydrated(c)
  <2>1. /\ calls[c].phase = "hydrating" /\ calls' = [calls EXCEPT ![c] = To(c, "finishing")]
        /\ raised' = raised /\ cache' = cache /\ late' = late
    BY <1>12 DEF Hydrated, Moves, registry
  <2>2. To(c, "finishing") \in Call /\ To(c, "finishing").whole = calls[c].whole
    BY <1>2 DEF Phases
  <2>3. QED
    BY <1>1, <2>1, <2>2, StrideKeeps
<1>13. CASE Add(c)
  <2>1. PICK phase \in {"checking", "finishing"} :
          Moves(c, "adding", [To(c, phase) EXCEPT !.sent = @ + 1])
    BY <1>13 DEF Add
  <2>2. PICK call : call = [To(c, phase) EXCEPT !.sent = @ + 1]
    OBVIOUS
  <2>3. /\ To(c, phase) \in Call /\ To(c, phase).phase = phase
        /\ To(c, phase).whole = calls[c].whole /\ To(c, phase).flag = calls[c].flag
    BY <1>2, <2>1 DEF Phases
  <2>4. call \in Call /\ call.whole = calls[c].whole
    BY <2>2, <2>3 DEF Call
  <2>5. call.flag = calls[c].flag /\ call.phase = phase
    BY <2>2, <2>3 DEF Call
  <2>6. /\ calls' = [calls EXCEPT ![c] = call] /\ calls[c].phase = "adding"
        /\ raised' = raised /\ cache' = cache
        /\ late' = [late EXCEPT ![c] = IF c \in told THEN @ + 1 ELSE @]
    BY <1>13, <2>1, <2>2 DEF Add, Moves, registry
  <2>7. calls[c].whole /\ late[c] = 0
    BY <1>1, <2>6
  <2>8. c \in told => Raised(c)
    BY <1>1 DEF IInv, CancelReaches
  <2>9. /\ late'[c] = 0 \/ (late'[c] = 1 /\ Raised(c))
        /\ \A d \in Calls \ {c} : late'[d] = late[d]
    BY <1>1, <2>6, <2>7, <2>8 DEF IInv, TypeOK
  <2>10. QED
    BY <1>1, <2>1, <2>4, <2>5, <2>6, <2>7, <2>9, OneMoves DEF Raised
<1>14. CASE Leave(c)
  <2>1. /\ calls' = [calls EXCEPT ![c] = Idle] /\ late' = [late EXCEPT ![c] = 0]
        /\ raised' = raised /\ cache' = cache
    BY <1>14 DEF Leave, Moves
  <2>2. Idle \in Call /\ Idle.whole
    BY SomeSegment DEF Idle, Call, Phases, Kinds
  <2>3. late'[c] = 0 /\ \A d \in Calls \ {c} : late'[d] = late[d]
    BY <1>1, <2>1 DEF IInv, TypeOK
  <2>4. QED
    BY <1>1, <2>1, <2>2, <2>3, OneMoves
<1>15. QED
  BY <1>4, <1>5, <1>6, <1>7, <1>8, <1>9, <1>10, <1>11, <1>12, <1>13, <1>14 DEF Step

\* A call that begins is whole, and has sent nothing.
LEMMA BegunKeeps ==
  ASSUME HInv, NEW c \in Calls, NEW call \in Call, call.whole, ~Running(c),
         calls' = [calls EXCEPT ![c] = call], raised \cap FlagsInUse \subseteq raised',
         UNCHANGED <<cache, late>>
  PROVE  CutLeaves' /\ LateLeaves'
<1>1. late[c] = 0 /\ cache # "part"
  BY DEF HInv, LateLeaves, CutLeaves, Running
<1>2. QED
  BY <1>1, OneMoves

\* Every step keeps the whole of it.
LEMMA NextHInv == HInv /\ [Next]_vars => HInv'
<1> SUFFICES ASSUME HInv, [Next]_vars PROVE HInv'
  OBVIOUS
<1>1. IInv'
  BY NextIInv DEF HInv
<1>2. ASSUME NEW i \in Ids, cancel(i) PROVE CutLeaves' /\ LateLeaves'
  <2>1. UNCHANGED <<calls, cache, late>> /\ raised \cap FlagsInUse \subseteq raised'
    BY <1>2 DEF cancel
  <2>2. QED
    BY <2>1, RegistryKeeps
<1>3. ASSUME NEW c \in Calls, NEW kind \in Kinds, NEW i \in Ids, begin(c, i, kind)
      PROVE  CutLeaves' /\ LateLeaves'
  <2>1. PICK e : e = entry(i, NewFlag)
    OBVIOUS
  <2>2. PICK call : call = [Idle EXCEPT !.phase = "begun", !.id = i, !.flag = e.flag, !.kind = kind]
    OBVIOUS
  <2>3. /\ calls' = [calls EXCEPT ![c] = call] /\ ~Running(c) /\ CanAllocate
        /\ raised \cap FlagsInUse \subseteq raised' /\ UNCHANGED <<cache, late>>
    BY <1>3, <2>1, <2>2 DEF begin
  <2>4. e.flag \in Flags
    BY <2>1, <2>3, EntryOK DEF HInv, Entry
  <2>5. call \in Call /\ call.whole
    BY <2>2, <2>4, SomeSegment DEF Call, Idle, Phases
  <2>6. QED
    BY <2>3, <2>5, BegunKeeps
<1>4. ASSUME NEW c \in Calls, NEW kind \in Kinds, begin_untagged(c, kind)
      PROVE  CutLeaves' /\ LateLeaves'
  <2>1. PICK call : call = [Idle EXCEPT !.phase = "begun", !.kind = kind]
    OBVIOUS
  <2>2. /\ calls' = [calls EXCEPT ![c] = call] /\ ~Running(c)
        /\ raised \cap FlagsInUse \subseteq raised' /\ UNCHANGED <<cache, late>>
    BY <1>4, <2>1 DEF begin_untagged, registry
  <2>3. call \in Call /\ call.whole
    BY <2>1, SomeSegment DEF Call, Idle, Phases
  <2>4. QED
    BY <2>2, <2>3, BegunKeeps
<1>5. ASSUME NEW c \in Calls, Step(c) PROVE CutLeaves' /\ LateLeaves'
  BY <1>5, StepKeeps
<1>6. CASE Uncache
  <2>1. cache' # "part" /\ calls' = calls /\ raised' = raised /\ late' = late
    BY <1>6 DEF Uncache, registry
  <2>2. CutLeaves'
    BY <2>1 DEF HInv, CutLeaves, Raised
  <2>3. LateLeaves'
    BY <2>1 DEF HInv, LateLeaves, Raised
  <2>4. QED
    BY <1>1, <2>2, <2>3 DEF HInv
<1>7. CASE UNCHANGED vars
  <2>1. UNCHANGED <<calls, cache, late>> /\ raised \cap FlagsInUse \subseteq raised'
    BY <1>7 DEF vars
  <2>2. QED
    BY <1>1, <2>1, RegistryKeeps DEF HInv
<1>8. QED
  BY <1>1, <1>2, <1>3, <1>4, <1>5, <1>6, <1>7 DEF Next, HInv

\* The invariant with what calls still hand out.
THEOREM HandedOut == Spec => []HInv
<1>1. Init => HInv
  BY InitIInv DEF Init, HInv, CutLeaves, LateLeaves, Idle
<1>2. QED
  BY <1>1, NextHInv, PTL DEF Spec

\* However many segments and blocks there are, what a cancelled scan found
\* before it stopped is neither handed out nor kept (CancellableWeight,
\* LexicalRequest::finish).
THEOREM Whole == Spec => []OnlyWholePages
<1>1. HInv => OnlyWholePages
  BY DEF HInv, CutLeaves, OnlyWholePages
<1>2. QED
  BY <1>1, HandedOut, PTL

\* However many events a stream has, a cancel is followed by one at most
\* (run_search_stream_with_counts).
THEOREM OneEvent == Spec => []OneEventAfterCancel
<1>1. HInv => OneEventAfterCancel
  BY DEF HInv, LateLeaves, OneEventAfterCancel
<1>2. QED
  BY <1>1, HandedOut, PTL
----------------------------------------------------------------------------
(* How long a cancelled call goes on.                                       *)

\* The steps a call with a raised flag has yet to take, at most.  What is left
\* of its scan does not count, nor do the segments and the chunks that follow.
StepsTold(call) ==
  CASE call.phase = "idle" -> 0
    [] call.phase \in {"answered", "leaving"} -> 1
    [] call.phase \in {"begun", "segment", "ranked", "checking", "finishing"} -> 2
    [] call.phase = "scanning" -> IF call.left = 0 THEN 2 ELSE 3
    [] call.phase \in {"ranking", "storing", "hydrating", "adding"} -> 3
    [] OTHER -> 4

\* A step of a call takes one of them off, and no other step adds one.
StopsSooner(c) ==
  /\ StepsTold(calls'[c]) <= StepsTold(calls[c])
  /\ Step(c) => StepsTold(calls'[c]) < StepsTold(calls[c])

\* A cancelled call has at most four steps of its own left and every step of
\* it is one fewer.
ToldStop == \A c \in told : StepsTold(calls[c]) <= 4 /\ StopsSooner(c)

\* The phases in the order a cancelled call meets them.
LEMMA StepsToldOf ==
  ASSUME NEW call
  PROVE  /\ StepsTold(call) \in 0 .. 4
         /\ call.phase = "idle" => StepsTold(call) = 0
         /\ call.phase \in {"answered", "leaving"} => StepsTold(call) = 1
         /\ call.phase \in {"begun", "segment", "ranked", "checking", "finishing"} =>
              StepsTold(call) = 2
         /\ call.phase = "scanning" => StepsTold(call) = IF call.left = 0 THEN 2 ELSE 3
         /\ call.phase \in {"ranking", "storing", "hydrating", "adding"} => StepsTold(call) = 3
         /\ call.phase = "preparing" => StepsTold(call) = 4
<1>1. CASE call.phase = "idle"
  BY <1>1 DEF StepsTold
<1>2. CASE call.phase \in {"answered", "leaving"}
  BY <1>2 DEF StepsTold
<1>3. CASE call.phase \in {"begun", "segment", "ranked", "checking", "finishing"}
  BY <1>3 DEF StepsTold
<1>4. CASE call.phase = "scanning"
  BY <1>4 DEF StepsTold
<1>5. CASE call.phase \in {"ranking", "storing", "hydrating", "adding"}
  BY <1>5 DEF StepsTold
<1>6. CASE call.phase \notin {"idle", "answered", "leaving", "begun", "segment", "ranked",
                              "checking", "finishing", "scanning", "ranking", "storing",
                              "hydrating", "adding"}
  BY <1>6 DEF StepsTold
<1>7. QED
  BY <1>1, <1>2, <1>3, <1>4, <1>5, <1>6

\* A look at a raised flag leads out.
LEMMA LookLeaves ==
  ASSUME IInv, NEW c \in Calls, Raised(c), NEW from, NEW phase, Look(c, from, phase)
  PROVE  calls[c].phase = from /\ calls'[c].phase = "leaving"
<1>1. calls[c].phase = from /\ calls' = [calls EXCEPT ![c] = To(c, "leaving")]
  BY DEF Look, Moves
<1>2. To(c, "leaving").phase = "leaving"
  BY MovedWhole DEF Phases
<1>3. QED
  BY <1>1, <1>2 DEF IInv, TypeOK

\* Any other step names the phase it leads to.
LEMMA MoveLeads ==
  ASSUME IInv, NEW c \in Calls, NEW from, NEW call, Moves(c, from, call)
  PROVE  calls[c].phase = from /\ calls'[c] = call
BY DEF Moves, IInv, TypeOK

\* A step of a call with a raised flag is one fewer.
LEMMA StepFewer ==
  ASSUME IInv, NEW c \in Calls, Raised(c), Step(c)
  PROVE  StepsTold(calls'[c]) < StepsTold(calls[c])
<1> DEFINE now == calls[c]
           next == calls'[c]
<1>1. /\ \A phase \in Phases : To(c, phase).phase = phase /\ To(c, phase) \in Call
      /\ calls[c] \in Call
  BY MovedWhole DEF IInv, TypeOK
<1>2. CASE scope(c)
  <2>1. now.phase = "begun" /\ next.phase = "leaving"
    BY <1>2, LookLeaves DEF scope
  <2>2. QED
    BY <2>1, StepsToldOf
<1>3. CASE GiveUp(c)
  <2>1. PICK from \in {"preparing", "hydrating", "checking"} : Moves(c, from, To(c, "leaving"))
    BY <1>3 DEF GiveUp
  <2>2. now.phase = from /\ next.phase = "leaving"
    BY <1>1, <2>1, MoveLeads DEF Phases
  <2>3. QED
    BY <2>1, <2>2, StepsToldOf
<1>4. CASE Prepared(c)
  <2>1. now.phase = "preparing" /\ next.phase \in {"leaving", "ranking"}
    <3>1. CASE Look(c, "preparing", "ranking")
      BY <3>1, LookLeaves
    <3>2. CASE Moves(c, "preparing", To(c, "ranking"))
      BY <1>1, <3>2, MoveLeads DEF Phases
    <3>3. QED
      BY <1>4, <3>1, <3>2 DEF Prepared
  <2>2. QED
    BY <2>1, StepsToldOf
<1>5. CASE Cached(c)
  <2>1. PICK call : call = [To(c, "ranked") EXCEPT !.whole = (cache = "whole")]
    OBVIOUS
  <2>2. To(c, "ranked") \in Call /\ To(c, "ranked").phase = "ranked"
    BY <1>1 DEF Phases
  <2>3. call.phase = "ranked"
    BY <2>1, <2>2 DEF Call
  <2>4. now.phase = "ranking" /\ next = call
    BY <1>5, <2>1, MoveLeads DEF Cached
  <2>5. QED
    BY <2>3, <2>4, StepsToldOf
<1>6. CASE weight(c)
  <2>1. now.phase = "ranking" /\ next.phase = "leaving"
    BY <1>6, LookLeaves DEF weight
  <2>2. QED
    BY <2>1, StepsToldOf
<1>7. CASE scorer(c)
  <2>1. Moves(c, "segment", To(c, "leaving"))
    BY <1>7 DEF scorer
  <2>2. now.phase = "segment" /\ next.phase = "leaving"
    BY <1>1, <2>1, MoveLeads DEF Phases
  <2>3. QED
    BY <2>2, StepsToldOf
<1>8. CASE Block(c)
  <2>1. PICK call : call = [calls[c] EXCEPT !.left = 0, !.whole = FALSE]
    OBVIOUS
  <2>2. Moves(c, "scanning", call) /\ now.left > 0
    BY <1>8, <2>1 DEF Block
  <2>3. now.phase = "scanning" /\ next = call
    BY <2>2, MoveLeads
  <2>4. next.phase = "scanning" /\ next.left = 0
    BY <1>1, <2>1, <2>3 DEF Call
  <2>5. now.left # 0
    BY <1>1, <2>2 DEF Call
  <2>6. QED
    BY <2>3, <2>4, <2>5, StepsToldOf
<1>9. CASE SegmentDone(c)
  <2>1. Moves(c, "scanning", To(c, "leaving"))
    BY <1>9 DEF SegmentDone
  <2>2. now.phase = "scanning" /\ next.phase = "leaving"
    BY <1>1, <2>1, MoveLeads DEF Phases
  <2>3. QED
    BY <2>2, StepsToldOf
<1>10. CASE Store(c)
  <2>1. now.phase = "storing" /\ next.phase = "ranked"
    BY <1>1, <1>10, MoveLeads DEF Store, Phases
  <2>2. QED
    BY <2>1, StepsToldOf
<1>11. CASE Ranked(c)
  <2>1. PICK phase : Look(c, "ranked", phase)
    BY <1>11 DEF Ranked
  <2>2. now.phase = "ranked" /\ next.phase = "leaving"
    BY <2>1, LookLeaves
  <2>3. QED
    BY <2>2, StepsToldOf
<1>12. CASE Hydrated(c)
  <2>1. now.phase = "hydrating" /\ next.phase = "finishing"
    BY <1>1, <1>12, MoveLeads DEF Hydrated, Phases
  <2>2. QED
    BY <2>1, StepsToldOf
<1>13. CASE ChunkBuilt(c)
  <2>1. now.phase = "checking" /\ next.phase = "leaving"
    BY <1>13, LookLeaves DEF ChunkBuilt
  <2>2. QED
    BY <2>1, StepsToldOf
<1>14. CASE Add(c)
  <2>1. PICK phase \in {"checking", "finishing"} :
          Moves(c, "adding", [To(c, phase) EXCEPT !.sent = @ + 1])
    BY <1>14 DEF Add
  <2>2. PICK call : call = [To(c, phase) EXCEPT !.sent = @ + 1]
    OBVIOUS
  <2>3. To(c, phase) \in Call /\ To(c, phase).phase = phase
    BY <1>1 DEF Phases
  <2>4. call.phase = phase
    BY <2>2, <2>3 DEF Call
  <2>5. now.phase = "adding" /\ next = call
    BY <2>1, <2>2, MoveLeads
  <2>6. QED
    BY <2>4, <2>5, StepsToldOf
<1>15. CASE finish(c)
  <2>1. now.phase = "finishing" /\ next.phase = "leaving"
    BY <1>15, LookLeaves DEF finish
  <2>2. QED
    BY <2>1, StepsToldOf
<1>16. CASE Leave(c)
  <2>1. PICK from \in {"answered", "leaving"} : Moves(c, from, Idle)
    BY <1>16 DEF Leave
  <2>2. now.phase = from /\ next.phase = "idle"
    BY <2>1, MoveLeads DEF Idle
  <2>3. QED
    BY <2>1, <2>2, StepsToldOf
<1>17. QED
  BY <1>2, <1>3, <1>4, <1>5, <1>6, <1>7, <1>8, <1>9, <1>10, <1>11, <1>12, <1>13, <1>14,
     <1>15, <1>16 DEF Step

\* A step that is not the call's own leaves a cancelled call as it is: a call
\* begins only where none runs.
LEMMA OthersLeave ==
  ASSUME IInv, [Next]_vars, NEW c \in told, ~Step(c)
  PROVE  calls'[c] = calls[c]
<1>1. c \in Calls /\ Running(c) /\ calls \in [Calls -> Call]
  BY DEF IInv, TypeOK, CallsShareEntry
<1>2. ASSUME NEW i \in Ids, cancel(i)
      PROVE  calls' = calls
  BY <1>2 DEF cancel
<1>3. ASSUME NEW d \in Calls, NEW call, ~Running(d), calls' = [calls EXCEPT ![d] = call]
      PROVE  calls'[c] = calls[c]
  BY <1>1, <1>3
<1>4. ASSUME NEW d \in Calls, NEW kind \in Kinds, NEW i \in Ids, begin(d, i, kind)
      PROVE  calls'[c] = calls[c]
  BY <1>3, <1>4 DEF begin
<1>5. ASSUME NEW d \in Calls, NEW kind \in Kinds, begin_untagged(d, kind)
      PROVE  calls'[c] = calls[c]
  BY <1>3, <1>5 DEF begin_untagged
<1>6. ASSUME NEW d \in Calls, Step(d)
      PROVE  calls'[c] = calls[c]
  <2>1. d # c
    BY <1>6
  <2>2. \A from, call : Moves(d, from, call) => calls'[c] = calls[c]
    BY <1>1, <2>1 DEF Moves
  <2>3. \A from, phase : Look(d, from, phase) => calls'[c] = calls[c]
    BY <2>2 DEF Look
  <2>4. QED
    BY <1>6, <2>2, <2>3 DEF Step, scope, GiveUp, Prepared, Cached, weight, scorer, Block,
         SegmentDone, Store, Ranked, Hydrated, ChunkBuilt, Add, finish, Leave
<1>7. CASE Uncache \/ UNCHANGED vars
  BY <1>7 DEF Uncache, vars
<1>8. QED
  BY <1>2, <1>4, <1>5, <1>6, <1>7 DEF Next

\* However much of its scan, its segments and its chunks a call has before it
\* when its request is cancelled, it is gone after four more steps of its own,
\* whatever other calls and cancels do meanwhile (CancellableWeight,
\* LexicalRequest::finish, run_search_stream_with_counts).
THEOREM StopsSoon == Spec => [][ToldStop]_vars
<1>1. IInv /\ [Next]_vars => ToldStop
  <2> SUFFICES ASSUME IInv, [Next]_vars, NEW c \in told
               PROVE  StepsTold(calls[c]) <= 4 /\ StopsSooner(c)
    BY DEF ToldStop
  <2>1. c \in Calls /\ Raised(c)
    BY DEF IInv, TypeOK, CancelReaches
  <2>2. StepsTold(calls[c]) \in 0 .. 4 /\ StepsTold(calls'[c]) \in 0 .. 4
    BY StepsToldOf
  <2>3. CASE Step(c)
    <3>1. StepsTold(calls'[c]) < StepsTold(calls[c])
      BY <2>1, <2>3, StepFewer
    <3>2. QED
      BY <2>2, <3>1 DEF StopsSooner
  <2>4. CASE ~Step(c)
    <3>1. calls'[c] = calls[c]
      BY <2>4, OthersLeave
    <3>2. QED
      BY <2>2, <2>4, <3>1 DEF StopsSooner
  <2>5. QED
    BY <2>3, <2>4
<1>2. QED
  BY <1>1, Invariant, PTL DEF Spec
=============================================================================
