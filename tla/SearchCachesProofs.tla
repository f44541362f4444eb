------------------------ MODULE SearchCachesProofs -------------------------
(* Theorems about the caches of a search: one computation at a time per     *)
(* key, nothing stale, cut or older kept or answered, and a thread that goes *)
(* on as long as a request is not answered, in a bounded number of steps;   *)
(* for any callers, threads of the pool, requests, releases and faults.     *)
EXTENDS SearchCaches, FiniteSetTheorems, SequenceTheorems, WellFoundedInduction, TLAPS

----------------------------------------------------------------------------
(* The inductive invariant, in parts. A part about the calls is of a stack, *)
(* so that it can be said of the stack a step leads to.                     *)

Epochs == {"highlight", "memory"}
Kinds == Caches \cup {"words", "scan"}
Pcs == {"reading", "looking", "queueing", "waiting", "inside", "joining", "running"}
Pairs == Threads \X (Nat \ {0})

CallRecord ==
  [cache : Kinds, owner : Pairs \cup {NoOwner}, work : Nat, waits : BOOLEAN, key : Nat,
   epoch : Nat, failed : BOOLEAN, snapshot : Nat, pc : Pcs]

Entry == [key : Nat, epoch : Nat, snapshot : Nat, cut : BOOLEAN]
GateEntry == [key : Nat, work : Nat]
Task == [cache : {"terms", "scan"}, owner : Pairs]

Stacks == [Threads -> Seq(CallRecord)]
CallsOf(s) == UNION {{t} \X DOMAIN s[t] : t \in Threads}
At(s, p) == s[p[1]][p[2]]
TopOf(s, t) == <<t, Len(s[t])>>

\* What a step does to a stack: its innermost call changed, a call begun, its
\* innermost call ended, a call answered.
Topped(s, t, call) == [s EXCEPT ![t] = Front(@) \o <<call>>]
Pushing(s, t, call) == [s EXCEPT ![t] = Append(@, call)]
Popping(s, t) == [s EXCEPT ![t] = Front(@)]
Changing(s, o, call) == [s EXCEPT ![o[1]][o[2]] = call]

\* Only the innermost call of a thread runs; a caller has the call of its
\* request and at most a term set's, a thread of the pool what it took.
ShapeIn(s) ==
  \A p \in CallsOf(s) :
    /\ p # TopOf(s, p[1]) => At(s, p).pc = "joining"
    /\ p[1] \in Callers => \/ p[2] = 1 /\ At(s, p).owner = NoOwner
                           \/ p[2] = 2 /\ At(s, p).owner = <<p[1], 1>>
    /\ p[1] \in Workers => At(s, p).owner # NoOwner

\* An owner waits: a term set for a scan, anything else for a term set.
OwnedIn(s, cache, owner) ==
  /\ owner \in CallsOf(s) /\ At(s, owner).waits
  /\ cache = "scan" <=> At(s, owner).cache = "terms"

\* A term set is read after whoever waits for it read its key.
OwnersIn(s, tasks) ==
  /\ \A p \in CallsOf(s) : At(s, p).owner # NoOwner =>
       /\ OwnedIn(s, At(s, p).cache, At(s, p).owner)
       /\ At(s, p).cache = "terms" /\ At(s, p).pc # "reading" =>
            At(s, p).key >= At(s, At(s, p).owner).key
  /\ \A task \in tasks : OwnedIn(s, task.cache, task.owner)

\* It waits for one call or task.
OneChildIn(s, tasks) ==
  /\ \A p, q \in CallsOf(s) : At(s, p).owner = At(s, q).owner /\ At(s, p).owner # NoOwner => p = q
  /\ \A p \in CallsOf(s) : \A task \in tasks : At(s, p).owner # task.owner
  /\ \A task, other \in tasks : task.owner = other.owner => task = other

TreeOK(s, tasks) == ShapeIn(s) /\ OwnersIn(s, tasks) /\ OneChildIn(s, tasks)

\* A call of a cache has work from the gate's entry on, which the gate knows by
\* its key, and is at it inside; what it is answered is of its key or newer.
CallOK(call, g, gs, b) ==
  /\ call.cache = "scan" => call.pc = "running"
  /\ call.cache = "words" => call.pc \in {"running", "joining"}
  /\ call.cache \in Caches => call.pc # "running"
  /\ call.waits => call.pc = "joining"
  /\ call.owner = NoOwner => call.cache # "scan"
  /\ call.owner # NoOwner => call.cache \in {"terms", "scan"}
  /\ call.work # None <=> call.cache \in Caches /\ call.pc \in {"waiting", "inside", "joining"}
  /\ call.key <= g
  /\ call.cache \in Caches /\ (call.cache = "terms" => call.pc # "reading") => call.key # 0
  /\ call.pc = "joining" /\ ~call.waits /\ ~call.failed => call.snapshot >= call.key
  /\ call.work # None => [key |-> call.key, work |-> call.work] \in gs[call.cache]
  /\ Inside(call) => call.work \in b

CallsOK(s, g, gs, b) == \A p \in CallsOf(s) : CallOK(At(s, p), g, gs, b)

HeldIn(s) == {At(s, p).work : p \in CallsOf(s)} \ {None}

\* A gate has one entry for a key somebody holds the work of, and no work is of
\* two entries.
GatesOK(gs, held, g) ==
  /\ \A x \in Caches : IsFiniteSet(gs[x])
  /\ \A x \in Caches : \A e \in gs[x] : e.work # None /\ e.key \in 1 .. g
  /\ \A x \in Caches : \A e, f \in gs[x] : e.key = f.key /\ e.work \in held /\ f.work \in held => e = f
  /\ \A x, y \in Caches : \A e \in gs[x], f \in gs[y] : e.work = f.work => x = y /\ e = f

\* Nobody is at the work somebody is at.
InsideOK(s, b) ==
  /\ \A p, q \in CallsOf(s) : Inside(At(s, p)) /\ Inside(At(s, q)) /\ At(s, p).work = At(s, q).work => p = q
  /\ \A w \in b : \E p \in CallsOf(s) : Inside(At(s, p)) /\ At(s, p).work = w

StackOK(s, tasks, g, gs, b) ==
  /\ TreeOK(s, tasks) /\ CallsOK(s, g, gs, b)
  /\ GatesOK(gs, HeldIn(s), g) /\ InsideOK(s, b)

KeptOK(k, g) ==
  \A x \in Caches : \A e \in k[x] : e.key \in 1 .. g /\ e.snapshot >= e.key /\ ~e.cut

AnswersOK(a) == \A c \in Callers : a[c].snapshot >= a[c].asked /\ ~a[c].cut

Answers == [snapshot : Nat, asked : Nat, cut : BOOLEAN]

Typed ==
  /\ generation \in 1 .. MaxGeneration /\ releasing \in 0 .. 6
  /\ epoch \in [Epochs -> Nat] /\ kept \in [Caches -> SUBSET Entry]
  /\ gates \in [Caches -> SUBSET GateEntry] /\ stack \in Stacks /\ pool \in SUBSET Task
  /\ cancelled \in SUBSET Callers /\ answers \in [Callers -> Answers]

IInv ==
  /\ Typed /\ StackOK(stack, pool, generation, gates, busy)
  /\ KeptOK(kept, generation) /\ AnswersOK(answers) /\ KeptIsCurrent

----------------------------------------------------------------------------
(* The stacks.                                                              *)

\* The calls of a stack are its threads' positions.
LEMMA CallsAre ==
  ASSUME NEW s \in Stacks
  PROVE  /\ \A p \in CallsOf(s) : /\ p[1] \in Threads /\ p[2] \in 1 .. Len(s[p[1]])
                                  /\ p = <<p[1], p[2]>> /\ At(s, p) \in CallRecord
                                  /\ p \in Pairs
         /\ \A t \in Threads : \A i \in 1 .. Len(s[t]) : <<t, i>> \in CallsOf(s)
         /\ \A t \in Threads : Len(s[t]) \in Nat
<1>1. \A t \in Threads : s[t] \in Seq(CallRecord) /\ DOMAIN s[t] = 1 .. Len(s[t]) /\ Len(s[t]) \in Nat
  BY LenProperties DEF Stacks
<1>2. ASSUME NEW p \in CallsOf(s)
      PROVE  /\ p[1] \in Threads /\ p[2] \in 1 .. Len(s[p[1]])
             /\ p = <<p[1], p[2]>> /\ At(s, p) \in CallRecord /\ p \in Pairs
  <2>1. PICK t \in Threads : p \in {t} \X DOMAIN s[t]
    BY DEF CallsOf
  <2>2. p[1] = t /\ p[2] \in 1 .. Len(s[t]) /\ p = <<p[1], p[2]>>
    BY <2>1, <1>1
  <2>3. s[t][p[2]] \in CallRecord
    BY <1>1, <2>2, ElementOfSeq
  <2>4. p[2] \in Nat \ {0}
    BY <1>1, <2>2
  <2>5. QED
    BY <2>2, <2>3, <2>4 DEF At, Pairs
<1>3. ASSUME NEW t \in Threads, NEW i \in 1 .. Len(s[t])
      PROVE  <<t, i>> \in CallsOf(s)
  <2>1. <<t, i>> \in {t} \X DOMAIN s[t]
    BY <1>1
  <2>2. QED
    BY <2>1 DEF CallsOf
<1>4. QED
  BY <1>1, <1>2, <1>3

\* A position of a thread is no search's owner.
LEMMA PairsAre ==
  /\ \A o \in Pairs : o # NoOwner /\ o[1] \in Threads /\ o[2] \in Nat \ {0} /\ o = <<o[1], o[2]>>
  /\ \A t \in Threads, n \in Nat \ {0} : <<t, n>> \in Pairs /\ <<t, n>> # NoOwner
BY DEF Pairs, NoOwner

\* The innermost call of a thread is a call.
LEMMA TopIs ==
  ASSUME NEW s \in Stacks, NEW t \in Threads, s[t] # <<>>
  PROVE  /\ TopOf(s, t) \in CallsOf(s) /\ At(s, TopOf(s, t)) = Last(s[t]) /\ Last(s[t]) \in CallRecord
         /\ Len(s[t]) \in Nat \ {0} /\ TopOf(s, t) \in Pairs
<1>1. s[t] \in Seq(CallRecord) /\ Len(s[t]) \in Nat /\ Len(s[t]) # 0
  BY LenProperties, EmptySeq DEF Stacks
<1>2. Len(s[t]) \in 1 .. Len(s[t])
  BY <1>1
<1>3. TopOf(s, t) \in CallsOf(s)
  BY <1>2, CallsAre DEF TopOf
<1>4. At(s, TopOf(s, t)) = Last(s[t])
  BY DEF At, TopOf, Last
<1>5. QED
  BY <1>1, <1>3, <1>4, CallsAre

\* The innermost call of a thread is replaced.
LEMMA Replaced ==
  ASSUME NEW s \in Stacks, NEW t \in Threads, s[t] # <<>>, NEW call \in CallRecord
  PROVE  LET r == Topped(s, t, call)
         IN  /\ r \in Stacks /\ CallsOf(r) = CallsOf(s) /\ r[t] # <<>>
             /\ \A u \in Threads : Len(r[u]) = Len(s[u])
             /\ At(r, TopOf(s, t)) = call
             /\ \A p \in CallsOf(s) : p # TopOf(s, t) => At(r, p) = At(s, p)
<1> DEFINE r == Topped(s, t, call)
           q == Front(s[t]) \o <<call>>
           n == Len(s[t])
<1>1. s[t] \in Seq(CallRecord) /\ n \in Nat /\ n >= 1 /\ \A u \in Threads : s[u] \in Seq(CallRecord)
  BY LenProperties, EmptySeq DEF Stacks
<1>2. Front(s[t]) \in Seq(CallRecord) /\ Len(Front(s[t])) = n - 1
      /\ \A i \in 1 .. n - 1 : Front(s[t])[i] = s[t][i]
  BY <1>1 DEF Front
<1>3. q \in Seq(CallRecord) /\ Len(q) = n /\ q[n] = call /\ \A i \in 1 .. n - 1 : q[i] = s[t][i]
  <2>1. <<call>> \in Seq(CallRecord) /\ Len(<<call>>) = 1 /\ <<call>>[1] = call
    OBVIOUS
  <2>2. q \in Seq(CallRecord) /\ Len(q) = n
    BY <1>1, <1>2, <2>1, ConcatProperties
  <2>3. q[n] = call
    <3>1. n \in 1 .. Len(Front(s[t])) + Len(<<call>>) /\ ~ n <= Len(Front(s[t])) /\ n - Len(Front(s[t])) = 1
      BY <1>1, <1>2, <2>1
    <3>2. q[n] = <<call>>[n - Len(Front(s[t]))]
      BY <1>2, <2>1, <3>1, ConcatProperties
    <3>3. QED
      BY <2>1, <3>1, <3>2
  <2>4. ASSUME NEW i \in 1 .. n - 1 PROVE q[i] = s[t][i]
    BY <1>1, <1>2, <2>1, <2>2, ConcatProperties
  <2>5. QED
    BY <2>2, <2>3, <2>4
<1> HIDE DEF q
<1>4. r = [s EXCEPT ![t] = q]
  BY DEF q, Topped
<1> HIDE DEF r
<1>5. r \in Stacks
  BY <1>3, <1>4 DEF Stacks
<1>6. \A u \in Threads : Len(r[u]) = Len(s[u]) /\ DOMAIN r[u] = DOMAIN s[u]
  <2> SUFFICES ASSUME NEW u \in Threads PROVE Len(r[u]) = Len(s[u]) /\ DOMAIN r[u] = DOMAIN s[u]
    OBVIOUS
  <2>1. r[u] = IF u = t THEN q ELSE s[u]
    BY <1>4 DEF Stacks
  <2>2. DOMAIN q = DOMAIN s[t]
    BY <1>1, <1>3, LenProperties
  <2>3. QED
    BY <2>1, <2>2, <1>3
<1>7. CallsOf(r) = CallsOf(s)
  BY <1>6 DEF CallsOf
<1>8. At(r, TopOf(s, t)) = call
  BY <1>3, <1>4, <1>1 DEF At, TopOf, Stacks
<1>9. ASSUME NEW p \in CallsOf(s), p # TopOf(s, t)
      PROVE  At(r, p) = At(s, p)
  <2>1. p[1] \in Threads /\ p[2] \in 1 .. Len(s[p[1]]) /\ p = <<p[1], p[2]>>
    BY CallsAre
  <2>2. CASE p[1] = t
    <3>1. p[2] \in 1 .. n - 1
      BY <2>1, <2>2, <1>9, <1>1 DEF TopOf
    <3>2. QED
      BY <3>1, <2>2, <1>3, <1>4 DEF At, Stacks
  <2>3. CASE p[1] # t
    BY <2>1, <2>3, <1>4 DEF At, Stacks
  <2>4. QED
    BY <2>2, <2>3
<1>10. r[t] # <<>>
  BY <1>6, <1>1, EmptySeq
<1>11. QED
  BY <1>5, <1>6, <1>7, <1>8, <1>9, <1>10 DEF r

\* A call is pushed.
LEMMA Pushed ==
  ASSUME NEW s \in Stacks, NEW t \in Threads, NEW call \in CallRecord
  PROVE  LET r == Pushing(s, t, call)
             me == <<t, Len(s[t]) + 1>>
         IN  /\ r \in Stacks /\ CallsOf(r) = CallsOf(s) \cup {me} /\ me \notin CallsOf(s)
             /\ TopOf(r, t) = me /\ \A u \in Threads \ {t} : TopOf(r, u) = TopOf(s, u)
             /\ At(r, me) = call /\ me \in Pairs
             /\ \A p \in CallsOf(s) : At(r, p) = At(s, p)
<1> DEFINE r == Pushing(s, t, call)
           q == Append(s[t], call)
           n == Len(s[t])
           me == <<t, n + 1>>
<1>1. s[t] \in Seq(CallRecord) /\ n \in Nat /\ \A u \in Threads : s[u] \in Seq(CallRecord)
  BY LenProperties DEF Stacks
<1>2. q \in Seq(CallRecord) /\ Len(q) = n + 1 /\ q[n + 1] = call
      /\ DOMAIN q = 1 .. n + 1 /\ \A i \in 1 .. n : q[i] = s[t][i]
  BY <1>1
<1> HIDE DEF q
<1>3. r = [s EXCEPT ![t] = q]
  BY DEF q, Pushing
<1> HIDE DEF r
<1>4. r \in Stacks
  BY <1>2, <1>3 DEF Stacks
<1>5. r[t] = q /\ \A u \in Threads \ {t} : r[u] = s[u]
  BY <1>3 DEF Stacks
<1>6. me \in CallsOf(r) /\ me \notin CallsOf(s) /\ me \in Pairs
  <2>1. me \in CallsOf(r)
    BY <1>4, <1>5, <1>2, <1>1, CallsAre
  <2>2. me \notin CallsOf(s)
    BY <1>1, CallsAre
  <2>3. QED
    BY <2>1, <2>2, <1>4, CallsAre
<1>7. ASSUME NEW p \in CallsOf(s)
      PROVE  p \in CallsOf(r) /\ At(r, p) = At(s, p)
  <2>1. p[1] \in Threads /\ p[2] \in 1 .. Len(s[p[1]]) /\ p = <<p[1], p[2]>>
    BY CallsAre
  <2>2. p[2] \in 1 .. Len(r[p[1]]) /\ r[p[1]][p[2]] = s[p[1]][p[2]]
    BY <2>1, <1>5, <1>2, <1>1
  <2>3. QED
    BY <2>1, <2>2, <1>4, CallsAre DEF At
<1>8. ASSUME NEW p \in CallsOf(r), p # me
      PROVE  p \in CallsOf(s)
  <2>1. p[1] \in Threads /\ p[2] \in 1 .. Len(r[p[1]]) /\ p = <<p[1], p[2]>>
    BY <1>4, CallsAre
  <2>2. p[2] \in 1 .. Len(s[p[1]])
    BY <2>1, <1>5, <1>2, <1>1, <1>8
  <2>3. QED
    BY <2>1, <2>2, CallsAre
<1>9. TopOf(r, t) = me /\ \A u \in Threads \ {t} : TopOf(r, u) = TopOf(s, u)
  BY <1>5, <1>2 DEF TopOf
<1>10. At(r, me) = call
  BY <1>5, <1>2 DEF At
<1>11. QED
  BY <1>4, <1>6, <1>7, <1>8, <1>9, <1>10 DEF r

\* The innermost call of a thread is over.
LEMMA Popped ==
  ASSUME NEW s \in Stacks, NEW t \in Threads, s[t] # <<>>
  PROVE  LET r == Popping(s, t)
         IN  /\ r \in Stacks /\ CallsOf(r) = CallsOf(s) \ {TopOf(s, t)}
             /\ \A u \in Threads \ {t} : TopOf(r, u) = TopOf(s, u)
             /\ \A p \in CallsOf(r) : At(r, p) = At(s, p)
<1> DEFINE r == Popping(s, t)
           q == Front(s[t])
           n == Len(s[t])
<1>1. s[t] \in Seq(CallRecord) /\ n \in Nat /\ n >= 1 /\ \A u \in Threads : s[u] \in Seq(CallRecord)
  BY LenProperties, EmptySeq DEF Stacks
<1>2. q \in Seq(CallRecord) /\ Len(q) = n - 1 /\ \A i \in 1 .. n - 1 : q[i] = s[t][i]
  BY <1>1 DEF Front
<1> HIDE DEF q
<1>3. r = [s EXCEPT ![t] = q]
  BY DEF q, Popping
<1> HIDE DEF r
<1>4. r \in Stacks
  BY <1>2, <1>3 DEF Stacks
<1>5. r[t] = q /\ \A u \in Threads \ {t} : r[u] = s[u]
  BY <1>3 DEF Stacks
<1>6. ASSUME NEW p \in CallsOf(r)
      PROVE  p \in CallsOf(s) /\ p # TopOf(s, t) /\ At(r, p) = At(s, p)
  <2>1. p[1] \in Threads /\ p[2] \in 1 .. Len(r[p[1]]) /\ p = <<p[1], p[2]>>
    BY <1>4, CallsAre
  <2>2. p[2] \in 1 .. Len(s[p[1]]) /\ (p[1] = t => p[2] # n) /\ r[p[1]][p[2]] = s[p[1]][p[2]]
    BY <2>1, <1>5, <1>2, <1>1
  <2>3. QED
    BY <2>1, <2>2, CallsAre DEF At, TopOf
<1>7. ASSUME NEW p \in CallsOf(s), p # TopOf(s, t)
      PROVE  p \in CallsOf(r)
  <2>1. p[1] \in Threads /\ p[2] \in 1 .. Len(s[p[1]]) /\ p = <<p[1], p[2]>>
    BY CallsAre
  <2>2. p[2] \in 1 .. Len(r[p[1]])
    BY <2>1, <1>5, <1>2, <1>1, <1>7 DEF TopOf
  <2>3. QED
    BY <2>1, <2>2, <1>4, CallsAre
<1>8. \A u \in Threads \ {t} : TopOf(r, u) = TopOf(s, u)
  BY <1>5 DEF TopOf
<1>9. QED
  BY <1>4, <1>6, <1>7, <1>8 DEF r

\* A call of a thread is changed.
LEMMA Changed ==
  ASSUME NEW s \in Stacks, NEW o \in CallsOf(s), NEW call \in CallRecord
  PROVE  LET r == Changing(s, o, call)
         IN  /\ r \in Stacks /\ CallsOf(r) = CallsOf(s)
             /\ \A u \in Threads : TopOf(r, u) = TopOf(s, u)
             /\ At(r, o) = call
             /\ \A p \in CallsOf(s) : p # o => At(r, p) = At(s, p)
<1> DEFINE r == Changing(s, o, call)
           q == [s[o[1]] EXCEPT ![o[2]] = call]
<1>1. o[1] \in Threads /\ o[2] \in 1 .. Len(s[o[1]]) /\ o = <<o[1], o[2]>>
  BY CallsAre
<1>2. s[o[1]] \in Seq(CallRecord) /\ \A u \in Threads : s[u] \in Seq(CallRecord)
  BY <1>1 DEF Stacks
<1>3. q \in Seq(CallRecord) /\ Len(q) = Len(s[o[1]]) /\ q[o[2]] = call
      /\ \A i \in 1 .. Len(s[o[1]]) : i # o[2] => q[i] = s[o[1]][i]
  BY <1>1, <1>2, ExceptSeq
<1> HIDE DEF q
<1>4. r = [s EXCEPT ![o[1]] = q]
  BY DEF q, Changing
<1> HIDE DEF r
<1>5. r \in Stacks
  BY <1>3, <1>4 DEF Stacks
<1>6. r[o[1]] = q /\ \A u \in Threads : u # o[1] => r[u] = s[u]
  BY <1>4, <1>1 DEF Stacks
<1>7. \A u \in Threads : Len(r[u]) = Len(s[u]) /\ DOMAIN r[u] = DOMAIN s[u]
  <2> SUFFICES ASSUME NEW u \in Threads PROVE Len(r[u]) = Len(s[u]) /\ DOMAIN r[u] = DOMAIN s[u]
    OBVIOUS
  <2>1. DOMAIN q = DOMAIN s[o[1]]
    BY <1>2, <1>3, LenProperties
  <2>2. QED
    BY <2>1, <1>3, <1>6
<1>8. CallsOf(r) = CallsOf(s)
  BY <1>7 DEF CallsOf
<1>9. At(r, o) = call
  BY <1>3, <1>6 DEF At
<1>10. ASSUME NEW p \in CallsOf(s), p # o
       PROVE  At(r, p) = At(s, p)
  <2>1. p[1] \in Threads /\ p[2] \in 1 .. Len(s[p[1]]) /\ p = <<p[1], p[2]>>
    BY CallsAre
  <2>2. CASE p[1] = o[1]
    BY <2>1, <2>2, <1>1, <1>3, <1>6, <1>10 DEF At
  <2>3. CASE p[1] # o[1]
    BY <2>1, <2>3, <1>6 DEF At
  <2>4. QED
    BY <2>2, <2>3
<1>11. \A u \in Threads : TopOf(r, u) = TopOf(s, u)
  BY <1>7 DEF TopOf
<1>12. QED
  BY <1>5, <1>8, <1>9, <1>10, <1>11 DEF r

----------------------------------------------------------------------------
(* What a step does to the stacks keeps their shape, and every owner's one  *)
(* call or task.                                                            *)

\* The innermost call goes on, and may begin to wait.
LEMMA TreeReplaced ==
  ASSUME NEW s \in Stacks, NEW tasks \in SUBSET Task, TreeOK(s, tasks),
         NEW t \in Threads, s[t] # <<>>, NEW call \in CallRecord,
         call.owner = Last(s[t]).owner, call.cache = Last(s[t]).cache,
         Last(s[t]).waits = FALSE,
         call.owner # NoOwner /\ call.cache = "terms" /\ call.pc # "reading" =>
           call.key >= At(s, call.owner).key
  PROVE  TreeOK(Topped(s, t, call), tasks)
<1> DEFINE r == Topped(s, t, call)
           me == TopOf(s, t)
<1>1. /\ r \in Stacks /\ CallsOf(r) = CallsOf(s) /\ At(r, me) = call
      /\ \A u \in Threads : Len(r[u]) = Len(s[u])
      /\ \A p \in CallsOf(s) : p # me => At(r, p) = At(s, p)
  BY Replaced
<1>2. me \in CallsOf(s) /\ At(s, me) = Last(s[t]) /\ me[1] = t
  BY TopIs DEF TopOf
<1>3. \A u \in Threads : TopOf(r, u) = TopOf(s, u)
  BY <1>1 DEF TopOf
<1> HIDE DEF r, me
<1>4. \A p \in CallsOf(s) : /\ At(r, p).owner = At(s, p).owner /\ At(r, p).cache = At(s, p).cache
                             /\ p[1] \in Threads
  BY <1>1, <1>2, CallsAre
<1>5. ShapeIn(r)
  <2> SUFFICES ASSUME NEW p \in CallsOf(s)
               PROVE  /\ p # TopOf(r, p[1]) => At(r, p).pc = "joining"
                      /\ p[1] \in Callers => \/ p[2] = 1 /\ At(r, p).owner = NoOwner
                                             \/ p[2] = 2 /\ At(r, p).owner = <<p[1], 1>>
                      /\ p[1] \in Workers => At(r, p).owner # NoOwner
    BY <1>1 DEF ShapeIn
  <2>1. p # TopOf(r, p[1]) => At(r, p).pc = "joining"
    <3>1. CASE p = me
      BY <3>1, <1>3, <1>2, <1>4 DEF me
    <3>2. CASE p # me
      BY <3>2, <1>1, <1>3, <1>4 DEF TreeOK, ShapeIn
    <3>3. QED
      BY <3>1, <3>2
  <2>2. QED
    BY <2>1, <1>4 DEF TreeOK, ShapeIn
<1>6. ASSUME NEW cache, NEW owner, OwnedIn(s, cache, owner)
      PROVE  OwnedIn(r, cache, owner) /\ owner # me /\ At(r, owner) = At(s, owner)
  BY <1>6, <1>1, <1>2 DEF OwnedIn
<1>7. OwnersIn(r, tasks)
  <2>1. ASSUME NEW p \in CallsOf(s), At(s, p).owner # NoOwner
        PROVE  /\ OwnedIn(r, At(r, p).cache, At(r, p).owner)
               /\ At(r, p).cache = "terms" /\ At(r, p).pc # "reading" =>
                    At(r, p).key >= At(r, At(r, p).owner).key
    <3>1. OwnedIn(s, At(s, p).cache, At(s, p).owner)
      BY <2>1 DEF TreeOK, OwnersIn
    <3>2. OwnedIn(r, At(r, p).cache, At(r, p).owner) /\ At(r, At(r, p).owner) = At(s, At(s, p).owner)
      BY <3>1, <1>4, <1>6
    <3>3. CASE p = me
      BY <3>2, <3>3, <2>1, <1>1, <1>2
    <3>4. CASE p # me
      BY <3>2, <3>4, <2>1, <1>1 DEF TreeOK, OwnersIn
    <3>5. QED
      BY <3>2, <3>3, <3>4
  <2>2. \A task \in tasks : OwnedIn(r, task.cache, task.owner)
    BY <1>6 DEF TreeOK, OwnersIn
  <2>3. QED
    BY <2>1, <2>2, <1>1, <1>4 DEF OwnersIn
<1>8. OneChildIn(r, tasks)
  BY <1>1, <1>4 DEF TreeOK, OneChildIn
<1>9. QED
  BY <1>5, <1>7, <1>8 DEF TreeOK, r

\* A waiting call that nobody answers yet calls, or gives a task to the pool.
LEMMA TreeTask ==
  ASSUME NEW s \in Stacks, NEW tasks \in SUBSET Task, TreeOK(s, tasks),
         NEW task \in Task, OwnedIn(s, task.cache, task.owner),
         \A p \in CallsOf(s) : At(s, p).owner # task.owner,
         \A other \in tasks : other.owner # task.owner
  PROVE  TreeOK(s, tasks \cup {task})
<1>1. OwnersIn(s, tasks \cup {task})
  BY DEF TreeOK, OwnersIn
<1>2. OneChildIn(s, tasks \cup {task})
  BY DEF TreeOK, OneChildIn
<1>3. QED
  BY <1>1, <1>2 DEF TreeOK

\* Fewer tasks are in order.
LEMMA TreeTaken ==
  ASSUME NEW s \in Stacks, NEW tasks, NEW fewer \in SUBSET tasks, TreeOK(s, tasks)
  PROVE  TreeOK(s, fewer)
BY DEF TreeOK, OwnersIn, OneChildIn

\* A thread begins a call: of a request, of the term set its innermost call
\* waits for, or of what it took from the pool.
LEMMA TreePushed ==
  ASSUME NEW s \in Stacks, NEW tasks \in SUBSET Task, TreeOK(s, tasks),
         NEW t \in Threads, NEW call \in CallRecord,
         s[t] # <<>> => Last(s[t]).pc = "joining",
         t \in Callers => IF s[t] = <<>> THEN call.owner = NoOwner
                          ELSE Len(s[t]) = 1 /\ call.owner = <<t, 1>>,
         t \in Workers => call.owner # NoOwner,
         call.owner # NoOwner =>
           /\ OwnedIn(s, call.cache, call.owner)
           /\ call.cache = "terms" => call.pc = "reading"
           /\ \A p \in CallsOf(s) : At(s, p).owner # call.owner
           /\ \A task \in tasks : task.owner # call.owner
  PROVE  TreeOK(Pushing(s, t, call), tasks)
<1> DEFINE r == Pushing(s, t, call)
           me == <<t, Len(s[t]) + 1>>
<1>1. /\ r \in Stacks /\ CallsOf(r) = CallsOf(s) \cup {me} /\ me \notin CallsOf(s)
      /\ TopOf(r, t) = me /\ \A u \in Threads \ {t} : TopOf(r, u) = TopOf(s, u)
      /\ At(r, me) = call
      /\ \A p \in CallsOf(s) : At(r, p) = At(s, p)
  BY Pushed
<1>0. me[1] = t /\ me[2] = Len(s[t]) + 1 /\ me \in Pairs /\ Len(s[t]) \in Nat
  BY CallsAre DEF Pairs
<1> HIDE DEF r, me
<1>2. \A p \in CallsOf(s) : p[1] \in Threads
  BY CallsAre
<1>3. ShapeIn(r)
  <2>1. ASSUME NEW p \in CallsOf(s)
        PROVE  /\ p # TopOf(r, p[1]) => At(r, p).pc = "joining"
               /\ p[1] \in Callers => \/ p[2] = 1 /\ At(r, p).owner = NoOwner
                                      \/ p[2] = 2 /\ At(r, p).owner = <<p[1], 1>>
               /\ p[1] \in Workers => At(r, p).owner # NoOwner
    <3>1. p # TopOf(s, p[1]) => At(s, p).pc = "joining"
      BY DEF TreeOK, ShapeIn
    <3>2. CASE p[1] # t
      BY <3>1, <3>2, <1>0, <1>1, <1>2 DEF TreeOK, ShapeIn
    <3>3. CASE p[1] = t
      <4>1. s[t] # <<>>
        BY <3>3, CallsAre, EmptySeq DEF Stacks
      <4>2. At(s, TopOf(s, t)).pc = "joining"
        BY <4>1, TopIs
      <4>3. QED
        BY <3>1, <3>3, <4>2, <1>0, <1>1 DEF TreeOK, ShapeIn
    <3>4. QED
      BY <3>2, <3>3
  <2>2. t \in Callers => \/ me[2] = 1 /\ call.owner = NoOwner
                         \/ me[2] = 2 /\ call.owner = <<t, 1>>
    <3>1. CASE s[t] = <<>>
      <4>1. Len(s[t]) = 0
        BY <3>1
      <4>2. QED
        BY <1>0, <3>1, <4>1
    <3>2. CASE s[t] # <<>>
      <4>1. t \in Callers => Len(s[t]) = 1 /\ call.owner = <<t, 1>>
        BY <3>2
      <4>2. t \in Callers => me[2] = 2
        BY <4>1, <1>0, 1 + 1 = 2
      <4>3. QED
        BY <4>1, <4>2
    <3>3. QED
      BY <3>1, <3>2
  <2>3. QED
    BY <2>1, <2>2, <1>0, <1>1 DEF ShapeIn
<1>4. ASSUME NEW cache, NEW owner, OwnedIn(s, cache, owner)
      PROVE  OwnedIn(r, cache, owner) /\ At(r, owner) = At(s, owner)
  BY <1>4, <1>1 DEF OwnedIn
<1>5. OwnersIn(r, tasks)
  <2>1. ASSUME NEW p \in CallsOf(s), At(s, p).owner # NoOwner
        PROVE  /\ OwnedIn(r, At(r, p).cache, At(r, p).owner)
               /\ At(r, p).cache = "terms" /\ At(r, p).pc # "reading" =>
                    At(r, p).key >= At(r, At(r, p).owner).key
    <3>1. OwnedIn(s, At(s, p).cache, At(s, p).owner)
      BY <2>1 DEF TreeOK, OwnersIn
    <3>2. OwnedIn(r, At(r, p).cache, At(r, p).owner) /\ At(r, At(r, p).owner) = At(s, At(s, p).owner)
      BY <3>1, <1>1, <1>4
    <3>3. QED
      BY <3>2, <2>1, <1>1 DEF TreeOK, OwnersIn
  <2>2. \A task \in tasks : OwnedIn(r, task.cache, task.owner)
    BY <1>4 DEF TreeOK, OwnersIn
  <2>3. call.owner # NoOwner => OwnedIn(r, call.cache, call.owner)
    BY <1>4
  <2>4. QED
    BY <2>1, <2>2, <2>3, <1>1 DEF OwnersIn
<1>6. OneChildIn(r, tasks)
  <2>1. ASSUME NEW p \in CallsOf(r), NEW q \in CallsOf(r),
               At(r, p).owner = At(r, q).owner, At(r, p).owner # NoOwner
        PROVE  p = q
    BY <2>1, <1>1 DEF TreeOK, OneChildIn
  <2>2. ASSUME NEW p \in CallsOf(r), NEW task \in tasks
        PROVE  At(r, p).owner # task.owner
    <3>1. CASE p = me
      <4>1. task.owner # NoOwner
        BY PairsAre DEF Task
      <4>2. QED
        BY <3>1, <4>1, <1>1
    <3>2. CASE p # me
      BY <3>2, <1>1 DEF TreeOK, OneChildIn
    <3>3. QED
      BY <3>1, <3>2
  <2>3. QED
    BY <2>1, <2>2 DEF TreeOK, OneChildIn
<1>7. QED
  BY <1>3, <1>5, <1>6 DEF TreeOK, r

\* A call ends that waits for nothing: the one that waited for it has no other.
LEMMA TreePopped ==
  ASSUME NEW s \in Stacks, NEW tasks \in SUBSET Task, TreeOK(s, tasks),
         NEW t \in Threads, s[t] # <<>>, Last(s[t]).waits = FALSE
  PROVE  LET r == Popping(s, t)
             o == Last(s[t]).owner
         IN  /\ TreeOK(r, tasks)
             /\ o # NoOwner =>
                  /\ o \in CallsOf(r) /\ At(s, o) \in CallRecord /\ At(r, o) = At(s, o) /\ At(r, o).waits
                  /\ \A p \in CallsOf(r) : At(r, p).owner # o
<1> DEFINE r == Popping(s, t)
           me == TopOf(s, t)
           o == Last(s[t]).owner
<1>1. /\ r \in Stacks /\ CallsOf(r) = CallsOf(s) \ {me}
      /\ \A u \in Threads \ {t} : TopOf(r, u) = TopOf(s, u)
      /\ \A p \in CallsOf(r) : At(r, p) = At(s, p)
  BY Popped
<1>2. me \in CallsOf(s) /\ At(s, me) = Last(s[t]) /\ me = TopOf(s, t) /\ me[1] = t
  BY TopIs DEF TopOf
<1> HIDE DEF r, me, o
<1>3. \A p \in CallsOf(s) : p[1] \in Threads /\ At(s, p) \in CallRecord
  BY CallsAre
<1>4. ShapeIn(r)
  <2> SUFFICES ASSUME NEW p \in CallsOf(r), p # TopOf(r, p[1])
               PROVE  At(r, p).pc = "joining"
    BY <1>1 DEF ShapeIn, TreeOK
  <2>1. p \in CallsOf(s) /\ p # me
    BY <1>1
  <2>2. p # TopOf(s, p[1])
    BY <2>1, <1>1, <1>2, <1>3
  <2>3. QED
    BY <2>1, <2>2, <1>1 DEF ShapeIn, TreeOK
<1>5. ASSUME NEW cache, NEW owner, OwnedIn(s, cache, owner)
      PROVE  OwnedIn(r, cache, owner) /\ At(r, owner) = At(s, owner)
  BY <1>5, <1>1, <1>2 DEF OwnedIn
<1>6. OwnersIn(r, tasks)
  <2>1. ASSUME NEW p \in CallsOf(r), At(s, p).owner # NoOwner
        PROVE  /\ OwnedIn(r, At(r, p).cache, At(r, p).owner)
               /\ At(r, p).cache = "terms" /\ At(r, p).pc # "reading" =>
                    At(r, p).key >= At(r, At(r, p).owner).key
    <3>1. OwnedIn(s, At(s, p).cache, At(s, p).owner) /\ p \in CallsOf(s)
      BY <2>1, <1>1 DEF TreeOK, OwnersIn
    <3>2. OwnedIn(r, At(r, p).cache, At(r, p).owner) /\ At(r, At(r, p).owner) = At(s, At(s, p).owner)
      BY <3>1, <1>1, <1>5
    <3>3. QED
      BY <3>1, <3>2, <2>1, <1>1 DEF TreeOK, OwnersIn
  <2>2. \A task \in tasks : OwnedIn(r, task.cache, task.owner)
    BY <1>5 DEF TreeOK, OwnersIn
  <2>3. QED
    BY <2>1, <2>2, <1>1 DEF OwnersIn
<1>7. OneChildIn(r, tasks)
  BY <1>1 DEF TreeOK, OneChildIn
<1>8. ASSUME o # NoOwner
      PROVE  /\ o \in CallsOf(r) /\ At(s, o) \in CallRecord /\ At(r, o) = At(s, o) /\ At(r, o).waits
             /\ \A p \in CallsOf(r) : At(r, p).owner # o
  <2>1. OwnedIn(s, At(s, me).cache, o)
    BY <1>8, <1>2 DEF TreeOK, OwnersIn, o
  <2>2. o \in CallsOf(r) /\ At(r, o) = At(s, o) /\ At(r, o).waits /\ At(s, o) \in CallRecord
    BY <2>1, <1>5, <1>3 DEF OwnedIn
  <2>3. \A p \in CallsOf(r) : At(r, p).owner # o
    BY <1>8, <1>1, <1>2 DEF TreeOK, OneChildIn, o
  <2>4. QED
    BY <2>2, <2>3
<1>9. QED
  BY <1>4, <1>6, <1>7, <1>8 DEF TreeOK, r, o

\* Who waited goes on.
LEMMA TreeAnswered ==
  ASSUME NEW s \in Stacks, NEW tasks \in SUBSET Task, TreeOK(s, tasks),
         NEW o \in CallsOf(s), NEW failed \in BOOLEAN, NEW snapshot \in Nat,
         \A p \in CallsOf(s) : At(s, p).owner # o,
         \A task \in tasks : task.owner # o
  PROVE  LET call == [At(s, o) EXCEPT !.waits = FALSE, !.failed = failed, !.snapshot = snapshot]
         IN  call \in CallRecord /\ TreeOK(Changing(s, o, call), tasks)
<1> DEFINE call == [At(s, o) EXCEPT !.waits = FALSE, !.failed = failed, !.snapshot = snapshot]
           r == Changing(s, o, call)
<1>1. At(s, o) \in CallRecord
  BY CallsAre
<1>2. call \in CallRecord
  BY <1>1 DEF CallRecord
<1>3. /\ call.owner = At(s, o).owner /\ call.cache = At(s, o).cache
      /\ call.pc = At(s, o).pc /\ call.key = At(s, o).key
  BY <1>1 DEF CallRecord
<1> HIDE DEF call
<1>4. /\ r \in Stacks /\ CallsOf(r) = CallsOf(s) /\ At(r, o) = call
      /\ \A u \in Threads : TopOf(r, u) = TopOf(s, u)
      /\ \A p \in CallsOf(s) : p # o => At(r, p) = At(s, p)
  BY <1>2, Changed
<1> HIDE DEF r
<1>5. \A p \in CallsOf(s) : /\ At(r, p).owner = At(s, p).owner /\ At(r, p).cache = At(s, p).cache
                             /\ At(r, p).pc = At(s, p).pc /\ At(r, p).key = At(s, p).key
                             /\ p[1] \in Threads
  BY <1>3, <1>4, CallsAre
<1>6. ShapeIn(r)
  BY <1>4, <1>5 DEF TreeOK, ShapeIn
<1>7. ASSUME NEW cache, NEW owner, OwnedIn(s, cache, owner), owner # o
      PROVE  OwnedIn(r, cache, owner)
  BY <1>7, <1>4 DEF OwnedIn
<1>8. OwnersIn(r, tasks)
  <2>1. ASSUME NEW p \in CallsOf(s), At(s, p).owner # NoOwner
        PROVE  /\ OwnedIn(r, At(r, p).cache, At(r, p).owner)
               /\ At(r, p).cache = "terms" /\ At(r, p).pc # "reading" =>
                    At(r, p).key >= At(r, At(r, p).owner).key
    <3>1. OwnedIn(s, At(s, p).cache, At(s, p).owner) /\ At(s, p).owner \in CallsOf(s)
      BY <2>1 DEF TreeOK, OwnersIn, OwnedIn
    <3>2. OwnedIn(r, At(r, p).cache, At(r, p).owner)
      BY <3>1, <1>5, <1>7
    <3>3. QED
      BY <3>1, <3>2, <2>1, <1>5 DEF TreeOK, OwnersIn
  <2>2. \A task \in tasks : OwnedIn(r, task.cache, task.owner)
    BY <1>7 DEF TreeOK, OwnersIn
  <2>3. QED
    BY <2>1, <2>2, <1>4, <1>5 DEF OwnersIn
<1>9. OneChildIn(r, tasks)
  BY <1>4, <1>5 DEF TreeOK, OneChildIn
<1>10. QED
  BY <1>2, <1>6, <1>8, <1>9 DEF TreeOK, r, call

----------------------------------------------------------------------------
(* What a step does to the calls and the gates.                             *)

\* A gate that drops entries nobody holds is in order, in a later generation too.
LEMMA GatesFewer ==
  ASSUME NEW g \in Nat, NEW h \in Nat, h >= g, NEW gs, NEW held, GatesOK(gs, held, g),
         NEW fewer, \A x \in Caches : fewer[x] \subseteq gs[x], NEW holds \in SUBSET held
  PROVE  GatesOK(fewer, holds, h)
<1>1. \A x \in Caches : IsFiniteSet(fewer[x])
  BY FS_Subset DEF GatesOK
<1>2. \A x \in Caches : \A e \in fewer[x] : e.work # None /\ e.key \in 1 .. h
  BY DEF GatesOK
<1>3. QED
  BY <1>1, <1>2 DEF GatesOK

\* The calls keep their work when a gate drops what nobody holds.
LEMMA CallsLater ==
  ASSUME NEW s \in Stacks, NEW g \in Nat, NEW h \in Nat, h >= g, NEW gs, NEW b, CallsOK(s, g, gs, b),
         NEW left, \A x \in Caches : {e \in gs[x] : e.work \in HeldIn(s)} \subseteq left[x]
  PROVE  CallsOK(s, h, left, b)
<1> SUFFICES ASSUME NEW p \in CallsOf(s) PROVE CallOK(At(s, p), h, left, b)
  BY DEF CallsOK
<1> DEFINE call == At(s, p)
<1>1. CallOK(call, g, gs, b) /\ call \in CallRecord
  BY CallsAre DEF CallsOK
<1>2. call.key \in Nat
  BY <1>1 DEF CallRecord
<1>3. ASSUME call.work # None
      PROVE  [key |-> call.key, work |-> call.work] \in left[call.cache]
  <2>1. call.work \in HeldIn(s)
    BY <1>3 DEF HeldIn
  <2>2. [key |-> call.key, work |-> call.work] \in gs[call.cache] /\ call.cache \in Caches
    BY <1>1, <1>3 DEF CallOK
  <2>3. QED
    BY <2>1, <2>2
<1> HIDE DEF call
<1>4. call.key <= h
  BY <1>1, <1>2 DEF CallOK
<1>5. CallOK(call, h, left, b)
  BY <1>1, <1>3, <1>4 DEF CallOK
<1>6. QED
  BY <1>5 DEF call

\* The innermost call goes on with the work it has.
LEMMA Moves ==
  ASSUME NEW s \in Stacks, NEW tasks \in SUBSET Task, NEW g \in Nat, NEW gs, NEW b,
         StackOK(s, tasks, g, gs, b),
         NEW t \in Threads, s[t] # <<>>, NEW call \in CallRecord,
         call.owner = Last(s[t]).owner, call.cache = Last(s[t]).cache, Last(s[t]).waits = FALSE,
         call.owner # NoOwner /\ call.cache = "terms" /\ call.pc # "reading" =>
           call.key >= At(s, call.owner).key,
         CallOK(call, g, gs, b), call.work = Last(s[t]).work, Inside(call) <=> Inside(Last(s[t]))
  PROVE  /\ Topped(s, t, call) \in Stacks
         /\ StackOK(Topped(s, t, call), tasks, g, gs, b)
<1> DEFINE r == Topped(s, t, call)
           me == TopOf(s, t)
<1>1. /\ r \in Stacks /\ CallsOf(r) = CallsOf(s) /\ At(r, me) = call
      /\ \A p \in CallsOf(s) : p # me => At(r, p) = At(s, p)
  BY Replaced
<1>2. me \in CallsOf(s) /\ At(s, me) = Last(s[t])
  BY TopIs
<1>3. TreeOK(r, tasks)
  BY TreeReplaced DEF StackOK
<1> HIDE DEF r, me
<1>4. CallsOK(r, g, gs, b)
  BY <1>1 DEF StackOK, CallsOK
<1>5. \A p \in CallsOf(s) : At(r, p).work = At(s, p).work
  BY <1>1, <1>2
<1>6. HeldIn(r) = HeldIn(s)
  BY <1>1, <1>5, Zenon DEF HeldIn
<1>7. InsideOK(r, b)
  <2>1. ASSUME NEW p \in CallsOf(s) PROVE Inside(At(r, p)) <=> Inside(At(s, p))
    BY <1>1, <1>2
  <2>2. ASSUME NEW p \in CallsOf(r), NEW q \in CallsOf(r),
               Inside(At(r, p)), Inside(At(r, q)), At(r, p).work = At(r, q).work
        PROVE  p = q
    BY <2>1, <2>2, <1>1, <1>5 DEF StackOK, InsideOK
  <2>3. ASSUME NEW w \in b
        PROVE  \E p \in CallsOf(r) : Inside(At(r, p)) /\ At(r, p).work = w
    <3>1. PICK p \in CallsOf(s) : Inside(At(s, p)) /\ At(s, p).work = w
      BY DEF StackOK, InsideOK
    <3>2. QED
      BY <3>1, <2>1, <1>1, <1>5
  <2>4. QED
    BY <2>2, <2>3 DEF InsideOK
<1>8. QED
  BY <1>1, <1>3, <1>4, <1>6, <1>7 DEF StackOK, r

\* What becomes of a stack when the innermost call of a thread ends.
Ending(s, t, failed, snapshot) ==
  LET o == Last(s[t]).owner
  IN  IF o = NoOwner THEN Popping(s, t)
      ELSE Changing(Popping(s, t), o,
             [At(s, o) EXCEPT !.waits = FALSE, !.failed = failed, !.snapshot = snapshot])

\* A call ends, and frees the work it was at; whoever waits for it goes on.
LEMMA EndsOK ==
  ASSUME NEW s \in Stacks, NEW tasks \in SUBSET Task, NEW g \in Nat, NEW gs, NEW b,
         StackOK(s, tasks, g, gs, b),
         NEW t \in Threads, s[t] # <<>>, Last(s[t]).waits = FALSE,
         NEW failed \in BOOLEAN, NEW snapshot \in Nat,
         Last(s[t]).owner # NoOwner /\ ~failed => snapshot >= At(s, Last(s[t]).owner).key,
         NEW c, c = IF Inside(Last(s[t])) THEN b \ {Last(s[t]).work} ELSE b
  PROVE  /\ Ending(s, t, failed, snapshot) \in Stacks
         /\ StackOK(Ending(s, t, failed, snapshot), tasks, g, gs, c)
<1> DEFINE r == Ending(s, t, failed, snapshot)
           q == Popping(s, t)
           me == TopOf(s, t)
           last == Last(s[t])
           o == last.owner
           answered == [At(s, o) EXCEPT !.waits = FALSE, !.failed = failed, !.snapshot = snapshot]
<1>1. /\ q \in Stacks /\ CallsOf(q) = CallsOf(s) \ {me}
      /\ \A p \in CallsOf(q) : At(q, p) = At(s, p)
  BY Popped
<1>2. me \in CallsOf(s) /\ At(s, me) = last
  BY TopIs
<1>3. TreeOK(s, tasks)
  BY DEF StackOK
<1>4. TreeOK(q, tasks)
  BY <1>3, TreePopped
<1>5. ASSUME o # NoOwner
      PROVE  /\ o \in CallsOf(q) /\ At(s, o) \in CallRecord /\ At(q, o) = At(s, o) /\ At(q, o).waits
             /\ \A p \in CallsOf(q) : At(q, p).owner # o
             /\ \A task \in tasks : task.owner # o
  <2>1. /\ o \in CallsOf(q) /\ At(s, o) \in CallRecord /\ At(q, o) = At(s, o) /\ At(q, o).waits
    BY <1>3, <1>5, TreePopped
  <2>2. \A p \in CallsOf(q) : At(q, p).owner # o
    BY <1>3, <1>5, TreePopped
  <2>3. \A task \in tasks : task.owner # o
    BY <1>2, <1>3 DEF TreeOK, OneChildIn
  <2>4. QED
    BY <2>1, <2>2, <2>3
<1>6. r = IF o = NoOwner THEN q ELSE Changing(q, o, answered)
  BY DEF Ending
<1>7. /\ r \in Stacks /\ TreeOK(r, tasks) /\ CallsOf(r) = CallsOf(q)
      /\ \A p \in CallsOf(q) : At(r, p) = IF o # NoOwner /\ p = o THEN answered ELSE At(s, p)
  <2>1. CASE o = NoOwner
    BY <2>1, <1>1, <1>4, <1>6
  <2>2. CASE o # NoOwner
    <3>1. answered = [At(q, o) EXCEPT !.waits = FALSE, !.failed = failed, !.snapshot = snapshot]
      BY <1>5, <2>2
    <3>2. answered \in CallRecord /\ TreeOK(Changing(q, o, answered), tasks)
      <4>1. /\ q \in Stacks /\ o \in CallsOf(q) /\ TreeOK(q, tasks)
            /\ \A p \in CallsOf(q) : At(q, p).owner # o
            /\ \A task \in tasks : task.owner # o
        BY <2>2, <1>1, <1>4, <1>5
      <4>2. PICK new : new = [At(q, o) EXCEPT !.waits = FALSE, !.failed = failed, !.snapshot = snapshot]
        OBVIOUS
      <4>3. new \in CallRecord /\ TreeOK(Changing(q, o, new), tasks)
        BY <4>1, <4>2, TreeAnswered
      <4>4. QED
        BY <3>1, <4>2, <4>3
    <3>3. PICK new, z : new = answered /\ z = Changing(q, o, new)
      OBVIOUS
    <3>4. new \in CallRecord /\ o \in CallsOf(q)
      BY <3>2, <3>3, <2>2, <1>5
    <3>5. z \in Stacks /\ CallsOf(z) = CallsOf(q) /\ At(z, o) = new
      BY <3>3, <3>4, <1>1, Changed
    <3>6. \A p \in CallsOf(q) : p # o => At(z, p) = At(q, p)
      BY <3>3, <3>4, <1>1, Changed
    <3>7. r = z /\ TreeOK(z, tasks)
      BY <3>2, <3>3, <2>2, <1>6
    <3>8. \A p \in CallsOf(q) : At(q, p) = At(s, p)
      BY <1>1
    <3>9. \A p \in CallsOf(q) : At(z, p) = IF o # NoOwner /\ p = o THEN new ELSE At(s, p)
      BY <3>5, <3>6, <3>8, <2>2
    <3>10. QED
      BY <3>3, <3>5, <3>7, <3>9
  <2>3. QED
    BY <2>1, <2>2
<1> HIDE DEF q, me, r
<1>8. ASSUME o # NoOwner
      PROVE  /\ answered.work = At(s, o).work /\ answered.pc = At(s, o).pc
             /\ answered.cache = At(s, o).cache /\ answered.key = At(s, o).key
             /\ answered.owner = At(s, o).owner /\ ~answered.waits
             /\ answered.failed = failed /\ answered.snapshot = snapshot
  BY <1>5, <1>8 DEF CallRecord
<1> HIDE DEF answered
<1>9. \A p \in CallsOf(q) : /\ At(r, p).work = At(s, p).work /\ At(r, p).pc = At(s, p).pc
                             /\ At(r, p).cache = At(s, p).cache /\ At(r, p).key = At(s, p).key
                             /\ At(r, p).owner = At(s, p).owner
  BY <1>7, <1>8
<1>10. ASSUME NEW p \in CallsOf(q) PROVE Inside(At(r, p)) <=> Inside(At(s, p))
  BY <1>9 DEF Inside
<1>11. ASSUME NEW p \in CallsOf(q), Inside(At(s, p)) PROVE At(s, p).work \in c
  <2>1. p \in CallsOf(s) /\ p # me /\ At(s, p).work \in b
    BY <1>1, <1>11 DEF StackOK, CallsOK, CallOK
  <2>2. Inside(last) => At(s, p).work # last.work
    BY <2>1, <1>2, <1>11 DEF StackOK, InsideOK
  <2>3. QED
    BY <2>1, <2>2
<1>12. CallsOK(r, g, gs, c)
  <2> SUFFICES ASSUME NEW p \in CallsOf(q) PROVE CallOK(At(r, p), g, gs, c)
    BY <1>7 DEF CallsOK
  <2>1. CallOK(At(s, p), g, gs, b)
    BY <1>1 DEF StackOK, CallsOK
  <2>2. Inside(At(r, p)) => At(r, p).work \in c
    BY <1>9, <1>10, <1>11
  <2>3. CASE o # NoOwner /\ p = o
    <3>1. At(r, p).waits = FALSE /\ At(r, p).failed = failed /\ At(r, p).snapshot = snapshot
      BY <2>3, <1>7, <1>8
    <3>2. ~failed => snapshot >= At(r, p).key
      BY <2>3, <1>9
    <3>3. QED
      BY <2>1, <2>2, <3>1, <3>2, <1>9 DEF CallOK
  <2>4. CASE ~(o # NoOwner /\ p = o)
    BY <2>1, <2>2, <2>4, <1>7 DEF CallOK
  <2>5. QED
    BY <2>3, <2>4
<1>13. GatesOK(gs, HeldIn(r), g)
  <2>1. HeldIn(r) \subseteq HeldIn(s)
    BY <1>1, <1>7, <1>9 DEF HeldIn
  <2>2. QED
    BY <2>1, GatesFewer DEF StackOK
<1>14. InsideOK(r, c)
  <2>1. ASSUME NEW p1 \in CallsOf(r), NEW p2 \in CallsOf(r),
               Inside(At(r, p1)), Inside(At(r, p2)), At(r, p1).work = At(r, p2).work
        PROVE  p1 = p2
    <3>1. p1 \in CallsOf(s) /\ p2 \in CallsOf(s) /\ p1 \in CallsOf(q) /\ p2 \in CallsOf(q)
      BY <1>1, <1>7
    <3>2. Inside(At(s, p1)) /\ Inside(At(s, p2)) /\ At(s, p1).work = At(s, p2).work
      BY <3>1, <2>1, <1>9, <1>10
    <3>3. QED
      BY <3>1, <3>2 DEF StackOK, InsideOK
  <2>2. ASSUME NEW w \in c
        PROVE  \E p \in CallsOf(r) : Inside(At(r, p)) /\ At(r, p).work = w
    <3>1. PICK p \in CallsOf(s) : Inside(At(s, p)) /\ At(s, p).work = w
      BY DEF StackOK, InsideOK
    <3>2. p # me
      BY <3>1, <1>2
    <3>3. QED
      BY <3>1, <3>2, <1>1, <1>7, <1>9, <1>10
  <2>3. QED
    BY <2>1, <2>2 DEF InsideOK
<1>15. QED
  BY <1>7, <1>12, <1>13, <1>14 DEF StackOK, r

\* A thread begins a call, which has no work yet.
LEMMA BeginsOK ==
  ASSUME NEW s \in Stacks, NEW tasks \in SUBSET Task, NEW g \in Nat, NEW gs, NEW b,
         StackOK(s, tasks, g, gs, b),
         NEW t \in Threads, NEW call \in CallRecord,
         s[t] # <<>> => Last(s[t]).pc = "joining",
         t \in Callers => IF s[t] = <<>> THEN call.owner = NoOwner
                          ELSE Len(s[t]) = 1 /\ call.owner = <<t, 1>>,
         t \in Workers => call.owner # NoOwner,
         call.owner # NoOwner =>
           /\ OwnedIn(s, call.cache, call.owner)
           /\ call.cache = "terms" => call.pc = "reading"
           /\ \A p \in CallsOf(s) : At(s, p).owner # call.owner
           /\ \A task \in tasks : task.owner # call.owner,
         call.work = None, CallOK(call, g, gs, b)
  PROVE  /\ Pushing(s, t, call) \in Stacks
         /\ StackOK(Pushing(s, t, call), tasks, g, gs, b)
<1> DEFINE r == Pushing(s, t, call)
           me == <<t, Len(s[t]) + 1>>
<1>1. /\ r \in Stacks /\ CallsOf(r) = CallsOf(s) \cup {me} /\ me \notin CallsOf(s)
      /\ At(r, me) = call
      /\ \A p \in CallsOf(s) : At(r, p) = At(s, p)
  BY Pushed
<1>2. TreeOK(s, tasks)
  BY DEF StackOK
<1>3. TreeOK(r, tasks)
  BY <1>2, TreePushed
<1> HIDE DEF r, me
<1>4. CallsOK(r, g, gs, b)
  BY <1>1 DEF StackOK, CallsOK
<1>5. HeldIn(r) = HeldIn(s)
  BY <1>1 DEF HeldIn
<1>6. ~Inside(call)
  BY DEF CallOK, Inside
<1>7. InsideOK(r, b)
  BY <1>1, <1>6 DEF StackOK, InsideOK
<1>8. QED
  BY <1>1, <1>3, <1>4, <1>5, <1>7 DEF StackOK, r

\* The entry a call finds at the gate, or makes, of the entries somebody holds.
LEMMA EnterOK ==
  ASSUME NEW s \in Stacks, NEW tasks \in SUBSET Task, NEW g \in Nat,
         NEW gs \in [Caches -> SUBSET GateEntry], NEW b, StackOK(s, tasks, g, gs, b),
         NEW t \in Threads, s[t] # <<>>, Last(s[t]).pc = "queueing", Last(s[t]).cache \in Caches,
         NEW mine \in GateEntry, mine.key = Last(s[t]).key, mine.work # None,
         NEW live \in SUBSET gs[Last(s[t]).cache],
         \A e \in gs[Last(s[t]).cache] : e \in live <=> e.work \in HeldIn(s),
         \/ mine \in live
         \/ /\ \A e \in live : e.key # mine.key
            /\ \A x \in Caches : \A e \in gs[x] : e.work # mine.work
  PROVE  LET after == [gs EXCEPT ![Last(s[t]).cache] = live \cup {mine}]
             call == [Last(s[t]) EXCEPT !.pc = "waiting", !.work = mine.work]
         IN  /\ after \in [Caches -> SUBSET GateEntry]
             /\ Topped(s, t, call) \in Stacks
             /\ StackOK(Topped(s, t, call), tasks, g, after, b)
<1> DEFINE last == Last(s[t])
           cache == last.cache
           after == [gs EXCEPT ![cache] = live \cup {mine}]
           call == [last EXCEPT !.pc = "waiting", !.work = mine.work]
           r == Topped(s, t, call)
           me == TopOf(s, t)
<1>1. me \in CallsOf(s) /\ At(s, me) = last /\ last \in CallRecord
  BY TopIs
<1>2. CallOK(last, g, gs, b)
  BY <1>1 DEF StackOK, CallsOK
<1>3. last.work = None /\ last.waits = FALSE
  <2>1. last.work = None
    BY <1>2 DEF CallOK
  <2>2. last.waits \in BOOLEAN /\ ~last.waits
    BY <1>1, <1>2 DEF CallOK, CallRecord
  <2>3. QED
    BY <2>1, <2>2
<1>4. call \in CallRecord
  BY <1>1 DEF CallRecord, Pcs, GateEntry
<1>5. /\ call.work = mine.work /\ call.pc = "waiting" /\ call.cache = cache /\ call.key = last.key
      /\ call.owner = last.owner /\ call.waits = last.waits
  BY <1>1 DEF CallRecord
<1> HIDE DEF last, call
<1>6. /\ r \in Stacks /\ CallsOf(r) = CallsOf(s) /\ At(r, me) = call
      /\ \A p \in CallsOf(s) : p # me => At(r, p) = At(s, p)
  BY <1>4, Replaced
<1>7. TreeOK(r, tasks)
  <2>1. TreeOK(s, tasks)
    BY DEF StackOK
  <2>2. call.owner # NoOwner /\ call.cache = "terms" /\ call.pc # "reading" =>
           call.key >= At(s, call.owner).key
    <3> SUFFICES ASSUME call.owner # NoOwner, call.cache = "terms" PROVE call.key >= At(s, call.owner).key
      OBVIOUS
    <3>1. At(s, me).owner # NoOwner /\ At(s, me).cache = "terms" /\ At(s, me).pc # "reading"
      BY <1>1, <1>5 DEF last
    <3>2. At(s, me).key >= At(s, At(s, me).owner).key
      BY <1>1, <2>1, <3>1 DEF TreeOK, OwnersIn
    <3>3. QED
      BY <3>2, <1>1, <1>5
  <2>3. QED
    BY <2>1, <2>2, <1>3, <1>4, <1>5, TreeReplaced DEF last
<1> HIDE DEF r, me
<1>8. /\ after \in [Caches -> SUBSET GateEntry] /\ after[cache] = live \cup {mine}
      /\ \A x \in Caches : x # cache => after[x] = gs[x]
  BY DEF last
<1> HIDE DEF after
<1>9. live \subseteq gs[cache] /\ \A e \in gs[cache] : e \in live <=> e.work \in HeldIn(s)
  BY DEF last
<1>10. CallsOK(r, g, after, b)
  <2>1. \A x \in Caches : {e \in gs[x] : e.work \in HeldIn(s)} \subseteq after[x]
    BY <1>8, <1>9
  <2>2. CallsOK(s, g, after, b)
    BY <2>1, CallsLater DEF StackOK
  <2>3. CallOK(call, g, after, b)
    <3>1. CallOK(last, g, after, b)
      BY <1>1, <2>2 DEF CallsOK
    <3>2. [key |-> call.key, work |-> call.work] = mine
      BY <1>5 DEF GateEntry, last
    <3>3. ~Inside(call)
      BY <1>5 DEF Inside
    <3>4. call.cache \in Caches
      BY <1>5 DEF last
    <3>5. QED
      BY <3>1, <3>2, <3>3, <3>4, <1>3, <1>5, <1>8 DEF CallOK, Caches, last
  <2>4. QED
    BY <2>2, <2>3, <1>6 DEF CallsOK
<1>11. HeldIn(r) = HeldIn(s) \cup {mine.work}
  <2>1. ASSUME NEW w \in HeldIn(r) PROVE w \in HeldIn(s) \cup {mine.work}
    BY <1>5, <1>6 DEF HeldIn
  <2>2. ASSUME NEW w \in HeldIn(s) PROVE w \in HeldIn(r)
    <3>1. PICK p \in CallsOf(s) : At(s, p).work = w /\ w # None
      BY DEF HeldIn
    <3>2. p # me
      BY <3>1, <1>1, <1>3
    <3>3. QED
      BY <3>1, <3>2, <1>6 DEF HeldIn
  <2>3. mine.work \in HeldIn(r)
    BY <1>1, <1>5, <1>6 DEF HeldIn
  <2>4. QED
    BY <2>1, <2>2, <2>3
<1>12. GatesOK(gs, HeldIn(s), g)
  BY DEF StackOK
<1>13. GatesOK(after, HeldIn(r), g)
  <2>1. CASE mine \in live
    <3>1. mine.work \in HeldIn(s) /\ live \cup {mine} = live
      BY <2>1, <1>9
    <3>2. HeldIn(r) = HeldIn(s) /\ \A x \in Caches : after[x] \subseteq gs[x]
      BY <3>1, <1>8, <1>9, <1>11
    <3>3. QED
      BY <3>2, <1>12, GatesFewer
  <2>2. CASE /\ \A e \in live : e.key # mine.key
             /\ \A x \in Caches : \A e \in gs[x] : e.work # mine.work
    <3>1. \A x \in Caches : IsFiniteSet(after[x])
      <4>1. IsFiniteSet(live)
        BY <1>9, <1>12, FS_Subset DEF GatesOK, last
      <4>2. IsFiniteSet(live \cup {mine})
        BY <4>1, FS_AddElement
      <4>3. QED
        BY <4>2, <1>8, <1>12 DEF GatesOK
    <3>2. mine.key \in 1 .. g
      <4>1. last.key # 0 /\ last.key <= g /\ last.key \in Nat
        BY <1>1, <1>2 DEF CallOK, CallRecord, last
      <4>2. QED
        BY <4>1 DEF last
    <3>3. \A x \in Caches : \A e \in after[x] : e.work # None /\ e.key \in 1 .. g
      BY <3>2, <1>8, <1>9, <1>12 DEF GatesOK
    <3>4. ASSUME NEW x \in Caches, NEW e \in after[x], NEW f \in after[x],
                 e.key = f.key, e.work \in HeldIn(r), f.work \in HeldIn(r)
          PROVE  e = f
      <4>1. CASE x # cache
        <5>1. e \in gs[x] /\ f \in gs[x] /\ e.work \in HeldIn(s) /\ f.work \in HeldIn(s)
          BY <4>1, <3>4, <2>2, <1>8, <1>11
        <5>2. QED
          BY <5>1, <3>4, <1>12 DEF GatesOK
      <4>2. CASE x = cache
        <5>1. (e = mine \/ e \in live) /\ (f = mine \/ f \in live)
          BY <4>2, <1>8
        <5>2. CASE e \in live /\ f \in live
          BY <5>2, <4>2, <3>4, <1>9, <1>12 DEF GatesOK
        <5>3. QED
          BY <5>1, <5>2, <2>2, <3>4
      <4>3. QED
        BY <4>1, <4>2
    <3>5. ASSUME NEW x \in Caches, NEW y \in Caches, NEW e \in after[x], NEW f \in after[y], e.work = f.work
          PROVE  x = y /\ e = f
      <4>1. (x = cache /\ e = mine) \/ e \in gs[x]
        BY <1>8, <1>9
      <4>2. (y = cache /\ f = mine) \/ f \in gs[y]
        BY <1>8, <1>9
      <4>3. QED
        BY <4>1, <4>2, <3>5, <2>2, <1>12 DEF GatesOK
    <3>6. QED
      BY <3>1, <3>3, <3>4, <3>5 DEF GatesOK
  <2>3. QED
    BY <2>1, <2>2
<1>14. InsideOK(r, b)
  <2>1. ~Inside(call) /\ ~Inside(last)
    BY <1>5 DEF Inside, last
  <2>2. QED
    BY <2>1, <1>1, <1>6 DEF InsideOK, StackOK
<1>15. QED
  BY <1>6, <1>7, <1>8, <1>10, <1>13, <1>14 DEF StackOK, r, after, call, last

\* A call takes work nobody is at.
LEMMA TakeOK ==
  ASSUME NEW s \in Stacks, NEW tasks \in SUBSET Task, NEW g \in Nat, NEW gs, NEW b,
         StackOK(s, tasks, g, gs, b),
         NEW t \in Threads, s[t] # <<>>, Last(s[t]).pc = "waiting", Last(s[t]).work \notin b
  PROVE  LET call == [Last(s[t]) EXCEPT !.pc = "inside"]
         IN  /\ Topped(s, t, call) \in Stacks
             /\ StackOK(Topped(s, t, call), tasks, g, gs, b \cup {Last(s[t]).work})
<1> DEFINE last == Last(s[t])
           call == [last EXCEPT !.pc = "inside"]
           r == Topped(s, t, call)
           me == TopOf(s, t)
           c == b \cup {last.work}
<1>1. me \in CallsOf(s) /\ At(s, me) = last /\ last \in CallRecord
  BY TopIs
<1>2. CallOK(last, g, gs, b)
  BY <1>1 DEF StackOK, CallsOK
<1>3. last.waits = FALSE /\ last.cache \in Caches
  <2>1. last.cache \in Caches
    BY <1>1, <1>2 DEF CallOK, CallRecord, Kinds
  <2>2. last.waits \in BOOLEAN /\ ~last.waits
    BY <1>1, <1>2 DEF CallOK, CallRecord
  <2>3. QED
    BY <2>1, <2>2
<1>4. call \in CallRecord
  BY <1>1 DEF CallRecord, Pcs
<1>5. /\ call.work = last.work /\ call.pc = "inside" /\ call.cache = last.cache /\ call.key = last.key
      /\ call.owner = last.owner /\ call.waits = last.waits
  BY <1>1 DEF CallRecord
<1> HIDE DEF last, call
<1>6. /\ r \in Stacks /\ CallsOf(r) = CallsOf(s) /\ At(r, me) = call
      /\ \A p \in CallsOf(s) : p # me => At(r, p) = At(s, p)
  BY <1>4, Replaced
<1>7. TreeOK(r, tasks)
  <2>1. TreeOK(s, tasks)
    BY DEF StackOK
  <2>2. call.owner # NoOwner /\ call.cache = "terms" /\ call.pc # "reading" =>
           call.key >= At(s, call.owner).key
    <3> SUFFICES ASSUME call.owner # NoOwner, call.cache = "terms" PROVE call.key >= At(s, call.owner).key
      OBVIOUS
    <3>1. At(s, me).owner # NoOwner /\ At(s, me).cache = "terms" /\ At(s, me).pc # "reading"
      BY <1>1, <1>5 DEF last
    <3>2. At(s, me).key >= At(s, At(s, me).owner).key
      BY <1>1, <2>1, <3>1 DEF TreeOK, OwnersIn
    <3>3. QED
      BY <3>2, <1>1, <1>5
  <2>3. QED
    BY <2>1, <2>2, <1>3, <1>4, <1>5, TreeReplaced DEF last
<1> HIDE DEF r, me
<1>8. CallsOK(r, g, gs, c)
  <2>1. CallsOK(s, g, gs, c)
    BY DEF StackOK, CallsOK, CallOK
  <2>2. CallOK(call, g, gs, c)
    <3>1. CallOK(last, g, gs, c) /\ last.work \in c
      BY <1>1, <2>1 DEF CallsOK
    <3>2. QED
      BY <3>1, <1>3, <1>5 DEF CallOK, Caches, last
  <2>3. QED
    BY <2>1, <2>2, <1>6 DEF CallsOK
<1>9. \A p \in CallsOf(s) : At(r, p).work = At(s, p).work
  BY <1>1, <1>5, <1>6
<1>10. HeldIn(r) = HeldIn(s)
  BY <1>6, <1>9, Zenon DEF HeldIn
<1>11. Inside(call) /\ \A p \in CallsOf(s) : Inside(At(s, p)) => At(s, p).work # last.work
  <2>1. Inside(call)
    BY <1>3, <1>5 DEF Inside
  <2>2. \A p \in CallsOf(s) : Inside(At(s, p)) => At(s, p).work \in b
    BY DEF StackOK, CallsOK, CallOK
  <2>3. QED
    BY <2>1, <2>2 DEF last
<1>12. InsideOK(r, c)
  <2>1. ASSUME NEW p \in CallsOf(r), NEW q \in CallsOf(r),
               Inside(At(r, p)), Inside(At(r, q)), At(r, p).work = At(r, q).work
        PROVE  p = q
    <3>1. p \in CallsOf(s) /\ q \in CallsOf(s) /\ At(s, p).work = At(s, q).work
      BY <2>1, <1>6, <1>9
    <3>2. CASE p # me /\ q # me
      BY <3>1, <3>2, <2>1, <1>6 DEF StackOK, InsideOK
    <3>3. ASSUME p = me, q # me PROVE FALSE
      BY <3>1, <3>3, <2>1, <1>1, <1>6, <1>11
    <3>4. ASSUME p # me, q = me PROVE FALSE
      BY <3>1, <3>4, <2>1, <1>1, <1>6, <1>11
    <3>5. QED
      BY <3>2, <3>3, <3>4
  <2>2. ASSUME NEW w \in c
        PROVE  \E p \in CallsOf(r) : Inside(At(r, p)) /\ At(r, p).work = w
    <3>1. CASE w = last.work
      BY <3>1, <1>1, <1>5, <1>6, <1>11
    <3>2. CASE w # last.work
      <4>1. PICK p \in CallsOf(s) : Inside(At(s, p)) /\ At(s, p).work = w
        BY <3>2 DEF StackOK, InsideOK
      <4>2. p # me
        BY <4>1, <3>2, <1>1
      <4>3. QED
        BY <4>1, <4>2, <1>6
    <3>3. QED
      BY <3>1, <3>2
  <2>3. QED
    BY <2>1, <2>2 DEF InsideOK
<1>13. QED
  BY <1>6, <1>7, <1>8, <1>10, <1>12 DEF StackOK, r, call, last

----------------------------------------------------------------------------
(* The steps of a call.                                                     *)

\* What there is to know of the innermost call of a thread.
LEMMA TopOK ==
  ASSUME NEW s \in Stacks, NEW tasks \in SUBSET Task, NEW g \in Nat, NEW gs, NEW b,
         StackOK(s, tasks, g, gs, b), NEW t \in Threads, s[t] # <<>>
  PROVE  LET call == Last(s[t])
         IN  /\ call \in CallRecord /\ CallOK(call, g, gs, b)
             /\ call.pc # "joining" => call.waits = FALSE
             /\ call.owner # NoOwner =>
                  /\ OwnedIn(s, call.cache, call.owner) /\ At(s, call.owner) \in CallRecord
                  /\ At(s, call.owner).key <= g /\ At(s, call.owner).key \in Nat
                  /\ call.cache = "terms" /\ call.pc # "reading" => call.key >= At(s, call.owner).key
             /\ t \in Callers /\ call.owner = NoOwner => Len(s[t]) = 1
             /\ t \in Callers /\ call.owner # NoOwner => Len(s[t]) = 2 /\ call.owner = <<t, 1>>
             /\ t \in Workers => call.owner # NoOwner
             /\ call.owner = NoOwner => t \in Callers
<1> DEFINE me == TopOf(s, t)
           call == Last(s[t])
<1>1. /\ me \in CallsOf(s) /\ At(s, me) = call /\ call \in CallRecord
      /\ me[1] = t /\ me[2] = Len(s[t]) /\ Len(s[t]) \in Nat \ {0}
  BY TopIs DEF TopOf
<1> HIDE DEF me, call
<1>2. CallOK(call, g, gs, b)
  BY <1>1 DEF StackOK, CallsOK
<1>3. call.pc # "joining" => call.waits = FALSE
  <2>1. call.waits \in BOOLEAN /\ (call.waits => call.pc = "joining")
    BY <1>1, <1>2 DEF CallOK, CallRecord
  <2>2. QED
    BY <2>1
<1>4. ASSUME call.owner # NoOwner
      PROVE  /\ OwnedIn(s, call.cache, call.owner) /\ At(s, call.owner) \in CallRecord
             /\ At(s, call.owner).key <= g /\ At(s, call.owner).key \in Nat
             /\ call.cache = "terms" /\ call.pc # "reading" => call.key >= At(s, call.owner).key
  <2>1. /\ OwnedIn(s, call.cache, call.owner)
        /\ call.cache = "terms" /\ call.pc # "reading" => call.key >= At(s, call.owner).key
    BY <1>1, <1>4 DEF StackOK, TreeOK, OwnersIn
  <2>2. call.owner \in CallsOf(s)
    BY <2>1 DEF OwnedIn
  <2>3. At(s, call.owner) \in CallRecord
    BY <2>2, CallsAre
  <2>4. At(s, call.owner).key <= g
    BY <2>2 DEF StackOK, CallsOK, CallOK
  <2>5. QED
    BY <2>1, <2>3, <2>4 DEF CallRecord
<1>5. /\ t \in Callers => \/ me[2] = 1 /\ call.owner = NoOwner
                          \/ me[2] = 2 /\ call.owner = <<t, 1>>
      /\ t \in Workers => call.owner # NoOwner
  <2>1. ShapeIn(s)
    BY DEF StackOK, TreeOK
  <2>2. t \in Workers => call.owner # NoOwner
    BY <1>1, <2>1 DEF ShapeIn
  <2>3. me \in CallsOf(s)
    BY <1>1
  <2>4. me[1] \in Callers => \/ me[2] = 1 /\ At(s, me).owner = NoOwner
                             \/ me[2] = 2 /\ At(s, me).owner = <<me[1], 1>>
    BY <2>1, <2>3 DEF ShapeIn
  <2>5. QED
    BY <2>2, <2>4, <1>1
<1>6. <<t, 1>> # NoOwner
  BY PairsAre
<1>7. QED
  BY <1>1, <1>2, <1>3, <1>4, <1>5, <1>6 DEF call, Threads

\* Nothing is for a call that does not wait.
LEMMA NoChild ==
  ASSUME NEW s \in Stacks, NEW tasks \in SUBSET Task, NEW g \in Nat, NEW gs, NEW b,
         StackOK(s, tasks, g, gs, b), NEW p \in CallsOf(s), At(s, p).waits = FALSE
  PROVE  /\ \A q \in CallsOf(s) : At(s, q).owner # p
         /\ \A task \in tasks : task.owner # p
<1>1. p # NoOwner
  BY CallsAre, PairsAre
<1>2. QED
  BY <1>1 DEF StackOK, TreeOK, OwnersIn, OwnedIn

\* What becomes of the stacks when a call ends.
LEMMA EndsIs ==
  ASSUME stack \in Stacks, pool \in SUBSET Task, TreeOK(stack, pool),
         NEW t \in Threads, stack[t] # <<>>, Last(stack[t]).waits = FALSE,
         NEW failed, NEW snapshot, NEW cut, Ends(t, failed, snapshot, cut)
  PROVE  stack' = Ending(stack, t, failed, snapshot)
<1> DEFINE o == Last(stack[t]).owner
<1>1. Top(t) = Last(stack[t])
  BY DEF Top
<1>2. CASE o = NoOwner
  BY <1>1, <1>2 DEF Ends, Ending, Popping
<1>3. CASE o # NoOwner
  <2>1. Popping(stack, t)[o[1]][o[2]] = At(stack, o)
    BY <1>3, TreePopped DEF At
  <2>2. stack' = [Popping(stack, t) EXCEPT ![o[1]][o[2]] =
                   [Popping(stack, t)[o[1]][o[2]] EXCEPT !.waits = FALSE, !.failed = failed, !.snapshot = snapshot]]
    BY <1>1, <1>3 DEF Ends, Popping
  <2>3. QED
    BY <2>1, <2>2, <1>3 DEF Ending, Changing
<1>4. QED
  BY <1>2, <1>3

\* A call ends, in the state there is.
LEMMA EndsStep ==
  ASSUME IInv, NEW t \in Threads, stack[t] # <<>>, Top(t).waits = FALSE, Top(t).pc # "waiting",
         NEW failed \in BOOLEAN, NEW snapshot \in Nat, NEW cut \in BOOLEAN,
         Ends(t, failed, snapshot, cut),
         Top(t).owner # NoOwner /\ ~failed => snapshot >= At(stack, Top(t).owner).key,
         Top(t).owner = NoOwner /\ ~failed => snapshot >= Top(t).key /\ ~cut
  PROVE  /\ stack' \in Stacks /\ StackOK(stack', pool, generation, gates, busy')
         /\ cancelled' \in SUBSET Callers
         /\ answers' \in [Callers -> Answers] /\ AnswersOK(answers')
<1> DEFINE call == Top(t)
           o == call.owner
<1>1. /\ stack \in Stacks /\ pool \in SUBSET Task /\ generation \in Nat
      /\ StackOK(stack, pool, generation, gates, busy)
      /\ answers \in [Callers -> Answers] /\ cancelled \in SUBSET Callers /\ AnswersOK(answers)
  BY DEF IInv, Typed
<1>2. call \in CallRecord /\ CallOK(call, generation, gates, busy) /\ (o = NoOwner => t \in Callers)
      /\ call = Last(stack[t])
  BY <1>1, TopOK DEF Top
<1>3. busy' = busy \ {call.work}
  BY DEF Ends, Freed
<1>4. busy' = IF Inside(call) THEN busy \ {call.work} ELSE busy
  <2>1. CASE Inside(call)
    BY <2>1, <1>3
  <2>2. CASE ~Inside(call)
    <3>1. call.work = None
      BY <1>2, <2>2 DEF CallOK, Inside
    <3>2. None \notin busy
      <4>1. ASSUME NEW p \in CallsOf(stack), Inside(At(stack, p)) PROVE At(stack, p).work # None
        BY <1>1, <4>1 DEF StackOK, CallsOK, CallOK, Inside
      <4>2. QED
        BY <1>1, <4>1 DEF StackOK, InsideOK
    <3>3. QED
      BY <1>3, <2>2, <3>1, <3>2
  <2>3. QED
    BY <2>1, <2>2
<1>5. stack' = Ending(stack, t, failed, snapshot)
  BY <1>1, <1>2, EndsIs DEF StackOK
<1>6. stack' \in Stacks /\ StackOK(stack', pool, generation, gates, busy')
  BY <1>1, <1>2, <1>4, <1>5, EndsOK
<1>7. cancelled' \in SUBSET Callers
  BY <1>1 DEF Ends
<1>8. answers' \in [Callers -> Answers] /\ AnswersOK(answers')
  <2>1. CASE o # NoOwner \/ failed
    BY <2>1, <1>1 DEF Ends
  <2>2. CASE o = NoOwner /\ ~failed
    <3>1. call.key \in Nat /\ [snapshot |-> snapshot, asked |-> call.key, cut |-> cut] \in Answers
      BY <1>2 DEF CallRecord, Answers
    <3>2. answers' = [answers EXCEPT ![t] = [snapshot |-> snapshot, asked |-> call.key, cut |-> cut]]
      BY <2>2 DEF Ends
    <3>3. QED
      BY <2>2, <3>1, <3>2, <1>1, <1>2 DEF AnswersOK
  <2>3. QED
    BY <2>1, <2>2
<1>9. QED
  BY <1>6, <1>7, <1>8

\* A step that changes no more than the innermost call of a thread, the pool and
\* the gates leaves the rest as it was.
LEMMA OthersKept ==
  ASSUME IInv, UNCHANGED caches, cancelled' \in SUBSET Callers,
         answers' \in [Callers -> Answers], AnswersOK(answers'),
         stack' \in Stacks, pool' \in SUBSET Task, gates' \in [Caches -> SUBSET GateEntry],
         StackOK(stack', pool', generation, gates', busy')
  PROVE  IInv'
<1>1. /\ generation' = generation /\ epoch' = epoch /\ kept' = kept /\ releasing' = releasing
  BY DEF caches
<1>2. Typed'
  BY <1>1 DEF IInv, Typed
<1>3. KeptIsCurrent'
  BY <1>1 DEF IInv, KeptIsCurrent
<1>4. QED
  BY <1>1, <1>2, <1>3 DEF IInv

\* The calls of a thread that has one are in order.
LEMMA State ==
  ASSUME IInv
  PROVE  /\ stack \in Stacks /\ pool \in SUBSET Task /\ generation \in Nat /\ generation >= 1
         /\ StackOK(stack, pool, generation, gates, busy)
         /\ gates \in [Caches -> SUBSET GateEntry]
         /\ answers \in [Callers -> Answers] /\ AnswersOK(answers) /\ cancelled \in SUBSET Callers
         /\ epoch \in [Epochs -> Nat]
         /\ \A t \in Threads : \A call : WithTop(t, call) = Topped(stack, t, call)
BY SearchCachesAssumption DEF IInv, Typed, WithTop, Topped

\* The innermost call goes on with the work it has, in the state there is.
LEMMA MovesStep ==
  ASSUME IInv, NEW t \in Threads, stack[t] # <<>>, Top(t).pc # "joining", NEW call \in CallRecord,
         stack' = WithTop(t, call), call.owner = Top(t).owner, call.cache = Top(t).cache,
         call.owner # NoOwner /\ call.cache = "terms" /\ call.pc # "reading" =>
           call.key >= At(stack, call.owner).key,
         CallOK(call, generation, gates, busy), call.work = Top(t).work, Inside(call) <=> Inside(Top(t))
  PROVE  stack' \in Stacks /\ StackOK(stack', pool, generation, gates, busy)
<1>1. stack' = Topped(stack, t, call)
  BY State
<1>2. Top(t) = Last(stack[t]) /\ Last(stack[t]).waits = FALSE
  BY State, TopOK DEF Top
<1>3. /\ stack \in Stacks /\ pool \in SUBSET Task /\ generation \in Nat
      /\ StackOK(stack, pool, generation, gates, busy)
  BY State
<1>4. QED
  BY <1>1, <1>2, <1>3, Moves

\* Read reads the searcher or the epoch.
LEMMA ReadOK == ASSUME IInv, NEW t \in Threads, Read(t) PROVE IInv'
<1> DEFINE last == Last(stack[t])
<1>1. stack[t] # <<>> /\ last.pc = "reading" /\ Top(t) = last
  BY DEF Read, In, Top
<1>2. /\ last \in CallRecord /\ CallOK(last, generation, gates, busy) /\ last.waits = FALSE
      /\ last.owner # NoOwner => /\ At(stack, last.owner).key <= generation
                                /\ At(stack, last.owner).key \in Nat
  BY <1>1, State, TopOK
<1>3. last.cache \in Caches /\ last.work = None /\ last.key \in Nat
  BY <1>1, <1>2 DEF CallOK, CallRecord, Kinds
<1>4. PICK call : /\ stack' = WithTop(t, call)
                  /\ call = IF last.cache = "terms" THEN [last EXCEPT !.pc = "looking", !.key = generation]
                           ELSE [last EXCEPT !.pc = "looking", !.epoch = epoch["highlight"]]
  BY <1>1 DEF Read
<1>5. epoch["highlight"] \in Nat
  BY State DEF Epochs
<1>6. call \in CallRecord
  BY <1>2, <1>4, <1>5, State DEF CallRecord, Pcs
<1>7. /\ call.pc = "looking" /\ call.cache = last.cache /\ call.work = last.work /\ call.owner = last.owner
      /\ call.waits = last.waits /\ call.key = IF last.cache = "terms" THEN generation ELSE last.key
  BY <1>2, <1>4 DEF CallRecord
<1> HIDE DEF last
<1>8. CallOK(call, generation, gates, busy) /\ ~Inside(call) /\ ~Inside(last)
  BY <1>1, <1>2, <1>3, <1>7, State DEF CallOK, Inside
<1>9. call.owner # NoOwner /\ call.cache = "terms" => call.key >= At(stack, call.owner).key
  BY <1>2, <1>7
<1>10. stack' \in Stacks /\ StackOK(stack', pool, generation, gates, busy)
  BY <1>1, <1>4, <1>6, <1>7, <1>8, <1>9, MovesStep
<1>11. QED
  BY <1>10, State, OthersKept DEF Read

\* What an entry kept for its key answers ends the call.
LEMMA AnswerOK ==
  ASSUME IInv, NEW t \in Threads, stack[t] # <<>>, Top(t).pc \in {"looking", "inside"}, Answer(t)
  PROVE  /\ stack' \in Stacks /\ StackOK(stack', pool, generation, gates, busy')
         /\ cancelled' \in SUBSET Callers
         /\ answers' \in [Callers -> Answers] /\ AnswersOK(answers')
<1> DEFINE last == Last(stack[t])
<1>1. /\ last \in CallRecord /\ CallOK(last, generation, gates, busy) /\ last.waits = FALSE
      /\ last.owner # NoOwner =>
           /\ At(stack, last.owner).key \in Nat
           /\ last.cache = "terms" /\ last.pc # "reading" => last.key >= At(stack, last.owner).key
      /\ last.pc \in {"looking", "inside"} /\ Top(t) = last
  BY State, TopOK DEF Top
<1>2. last.cache \in Caches /\ (last.owner # NoOwner => last.cache = "terms") /\ last.key \in Nat
  BY <1>1 DEF CallOK, CallRecord, Kinds
<1>3. PICK e \in Found(last) : Ends(t, FALSE, e.snapshot, e.cut)
  BY <1>1 DEF Answer
<1>4. e \in kept[last.cache] /\ e.key = last.key
  BY <1>3 DEF Found
<1>5. e \in Entry
  BY <1>2, <1>4 DEF IInv, Typed
<1>6. e.snapshot \in Nat /\ e.cut \in BOOLEAN
  BY <1>5 DEF Entry
<1>7. e.snapshot >= last.key /\ ~e.cut
  BY <1>2, <1>4 DEF IInv, KeptOK
<1>8. last.owner # NoOwner => e.snapshot >= At(stack, last.owner).key
  BY <1>1, <1>2, <1>6, <1>7
<1> HIDE DEF last
<1>9. QED
  BY <1>1, <1>3, <1>6, <1>7, <1>8, EndsStep

\* A set of numbers that is not empty has a least one.
LEMMA NatMin ==
  ASSUME NEW S \in SUBSET Nat, S # {}
  PROVE  \E w \in S : \A v \in S : w <= v
<1> DEFINE R == {ss \in Nat \X Nat : ss[1] < ss[2]}
<1>1. IsWellFoundedOn(R, Nat)
  BY NatLessThanWellFounded DEF OpToRel
<1> HIDE DEF R
<1>2. PICK w \in S : \A v \in S : ~ (<<v, w>> \in R)
  BY <1>1, WFMin
<1>3. \A v \in S : ~ v < w
  BY <1>2 DEF R
<1>4. QED
  BY <1>3

\* Look finds an entry or goes to the gate.
LEMMA LookOK == ASSUME IInv, NEW t \in Threads, Look(t) PROVE IInv'
<1> DEFINE last == Last(stack[t])
<1>1. stack[t] # <<>> /\ last.pc = "looking" /\ Top(t) = last
  BY DEF Look, In, Top
<1>2. UNCHANGED <<caches, gates, pool>>
  BY DEF Look
<1>3. CASE Answer(t)
  BY <1>1, <1>2, <1>3, State, AnswerOK, OthersKept
<1>4. CASE stack' = WithTop(t, [Top(t) EXCEPT !.pc = "queueing"]) /\ UNCHANGED <<busy, cancelled, answers>>
  <2>1. /\ last \in CallRecord /\ CallOK(last, generation, gates, busy) /\ last.waits = FALSE
        /\ last.owner # NoOwner /\ last.cache = "terms" /\ last.pc # "reading" =>
             last.key >= At(stack, last.owner).key
    BY <1>1, State, TopOK
  <2>2. PICK call : call = [last EXCEPT !.pc = "queueing"] /\ stack' = WithTop(t, call)
    BY <1>1, <1>4
  <2>3. call \in CallRecord
    BY <2>1, <2>2 DEF CallRecord, Pcs
  <2>4. /\ call.pc = "queueing" /\ call.cache = last.cache /\ call.work = last.work /\ call.owner = last.owner
        /\ call.waits = last.waits /\ call.key = last.key
    BY <2>1, <2>2 DEF CallRecord
  <2> HIDE DEF last
  <2>5. last.cache \in Caches
    BY <1>1, <2>1 DEF CallOK, CallRecord, Kinds
  <2>6. CallOK(call, generation, gates, busy) /\ ~Inside(call) /\ ~Inside(last)
    BY <1>1, <2>1, <2>4, <2>5 DEF CallOK, Inside, Caches
  <2>7. call.owner # NoOwner /\ call.cache = "terms" => call.key >= At(stack, call.owner).key
    BY <1>1, <2>1, <2>4
  <2>8. stack' \in Stacks /\ StackOK(stack', pool, generation, gates, busy)
    BY <1>1, <2>2, <2>3, <2>4, <2>6, <2>7, MovesStep
  <2>9. QED
    BY <1>2, <1>4, <2>8, State, OthersKept
<1>5. QED
  BY <1>3, <1>4 DEF Look

\* The work of a new entry is nobody's.
LEMMA NewWorkOK ==
  ASSUME IInv
  PROVE  /\ NewWork \in Nat /\ NewWork # None
         /\ \A x \in Caches : \A e \in gates[x] : e.work # NewWork
<1> DEFINE all == UNION {gates[x] : x \in Caches}
           known == {g.work : g \in all}
           n == Cardinality(known)
           free == (1 .. n + 1) \ known
<1>1. GatesOK(gates, HeldIn(stack), generation)
  BY State DEF StackOK
<1>2. IsFiniteSet(all)
  <2>1. all = gates["patterns"] \cup gates["term_sets"] \cup gates["terms"]
    BY DEF Caches
  <2>2. IsFiniteSet(gates["patterns"]) /\ IsFiniteSet(gates["term_sets"]) /\ IsFiniteSet(gates["terms"])
    BY <1>1 DEF GatesOK, Caches
  <2>3. PICK a, b, c : a = gates["patterns"] /\ b = gates["term_sets"] /\ c = gates["terms"]
    OBVIOUS
  <2>4. all = (a \cup b) \cup c
    BY <2>1, <2>3
  <2> HIDE DEF all
  <2>5. IsFiniteSet(a \cup b) /\ IsFiniteSet(c)
    BY <2>2, <2>3, FS_Union
  <2>6. IsFiniteSet((a \cup b) \cup c)
    BY <2>5, FS_Union
  <2>7. QED
    BY <2>4, <2>6
<1>3. IsFiniteSet(known)
  <2> DEFINE f == [g \in all |-> g.work]
  <2>1. \A g \in all : f[g] = g.work
    OBVIOUS
  <2>2. f \in [all -> known]
    OBVIOUS
  <2>3. \A x \in known : \E g \in all : f[g] = x
    OBVIOUS
  <2> HIDE DEF f, all, known
  <2>4. f \in Surjection(all, known)
    BY <2>2, <2>3 DEF Surjection
  <2>5. QED
    BY <2>4, <1>2, FS_Surjection
<1>4. n \in Nat
  BY <1>3, FS_CardinalityType
<1>5. free # {}
  <2> SUFFICES ASSUME 1 .. n + 1 \subseteq known PROVE FALSE
    OBVIOUS
  <2> HIDE DEF known, n
  <2>1. IsFiniteSet(1 .. n + 1) /\ Cardinality(1 .. n + 1) = n + 1
    <3>1. 1 \in Int /\ n + 1 \in Int /\ ~ 1 > n + 1 /\ n + 1 - 1 + 1 = n + 1
      BY <1>4
    <3>2. QED
      BY <3>1, FS_Interval
  <2>2. Cardinality(1 .. n + 1) <= n
    BY <1>3, FS_Subset DEF n
  <2>3. QED
    BY <2>1, <2>2, <1>4
<1>6. NewWork = Min(free)
  BY DEF NewWork
<1> HIDE DEF free, n, known
<1>7. free \subseteq Nat
  BY <1>4 DEF free
<1>8. \E w \in free : \A v \in free : w <= v
  BY <1>5, <1>7, NatMin
<1>9. NewWork \in free
  BY <1>6, <1>8 DEF Min
<1>10. NewWork \in Nat /\ NewWork # 0 /\ NewWork \notin known
  BY <1>9, <1>4 DEF free
<1>11. QED
  BY <1>10 DEF known, None

\* What calls hold, what gates keep of it.
LEMMA HeldIs ==
  /\ Calls = CallsOf(stack) /\ \A p : Is(p) = At(stack, p)
  /\ Held = HeldIn(stack)
  /\ \A x : gates[x] \ Idle(x) = {e \in gates[x] : e.work \in HeldIn(stack)}
<1>1. Calls = CallsOf(stack) /\ \A p : Is(p) = At(stack, p)
  BY DEF Calls, CallsOf, Is, At
<1>2. Held = HeldIn(stack)
  BY <1>1 DEF Held, HeldIn
<1>3. QED
  BY <1>1, <1>2 DEF Idle

\* Enter joins or makes an entry of the gate.
LEMMA EnterStep == ASSUME IInv, NEW t \in Threads, Enter(t) PROVE IInv'
<1> DEFINE last == Last(stack[t])
           live == gates[last.cache] \ Idle(last.cache)
           same == {g \in live : g.key = last.key}
           mine == IF same = {} THEN [key |-> last.key, work |-> NewWork] ELSE CHOOSE g \in same : TRUE
           after == [gates EXCEPT ![last.cache] = live \cup {mine}]
           call == [last EXCEPT !.pc = "waiting", !.work = mine.work]
<1>1. stack[t] # <<>> /\ last.pc = "queueing" /\ Top(t) = last
  BY DEF Enter, In, Top
<1>2. gates' = after /\ stack' = WithTop(t, call) /\ UNCHANGED <<caches, busy, pool, cancelled, answers>>
  BY <1>1 DEF Enter
<1>3. last \in CallRecord /\ CallOK(last, generation, gates, busy)
  BY <1>1, State, TopOK
<1>4. last.cache \in Caches /\ last.key \in Nat
  BY <1>1, <1>3 DEF CallOK, CallRecord, Kinds
<1> HIDE DEF last
<1>5. live = {e \in gates[last.cache] : e.work \in HeldIn(stack)}
  BY HeldIs
<1>6. gates[last.cache] \subseteq GateEntry
  BY <1>4, State
<1>7. /\ mine \in GateEntry /\ mine.key = last.key /\ mine.work # None
      /\ \/ mine \in live
         \/ /\ \A e \in live : e.key # mine.key
            /\ \A x \in Caches : \A e \in gates[x] : e.work # mine.work
  <2>1. CASE same = {}
    <3>1. mine = [key |-> last.key, work |-> NewWork]
      BY <2>1
    <3>2. \A e \in live : e.key # last.key
      BY <2>1
    <3> HIDE DEF mine, live, same
    <3>3. QED
      BY <3>1, <3>2, <1>4, NewWorkOK DEF GateEntry
  <2>2. CASE same # {}
    <3>1. mine \in same
      BY <2>2
    <3>2. mine \in live /\ mine.key = last.key
      BY <3>1
    <3>3. mine.work # None
      BY <3>2, <1>5 DEF HeldIn
    <3>4. QED
      BY <3>2, <3>3, <1>5, <1>6
  <2>3. QED
    BY <2>1, <2>2
<1> HIDE DEF mine, live, after
<1>8. /\ stack \in Stacks /\ pool \in SUBSET Task /\ generation \in Nat
      /\ StackOK(stack, pool, generation, gates, busy) /\ gates \in [Caches -> SUBSET GateEntry]
  BY State
<1>9. /\ after \in [Caches -> SUBSET GateEntry]
      /\ Topped(stack, t, call) \in Stacks
      /\ StackOK(Topped(stack, t, call), pool, generation, after, busy)
  <2>1. last = Last(stack[t])
    BY DEF last
  <2>2. /\ mine \in GateEntry /\ mine.work # None /\ mine.key = Last(stack[t]).key
        /\ live \in SUBSET gates[Last(stack[t]).cache]
        /\ \A e \in gates[Last(stack[t]).cache] : e \in live <=> e.work \in HeldIn(stack)
        /\ Last(stack[t]).pc = "queueing" /\ Last(stack[t]).cache \in Caches
    BY <1>1, <1>4, <1>5, <1>7, <2>1
  <2>3. LET a == [gates EXCEPT ![Last(stack[t]).cache] = live \cup {mine}]
            c == [Last(stack[t]) EXCEPT !.pc = "waiting", !.work = mine.work]
        IN  /\ a \in [Caches -> SUBSET GateEntry]
            /\ Topped(stack, t, c) \in Stacks
            /\ StackOK(Topped(stack, t, c), pool, generation, a, busy)
    BY <1>1, <1>7, <1>8, <2>2, EnterOK
  <2>4. QED
    BY <2>1, <2>3 DEF after
<1>10. stack' = Topped(stack, t, call)
  BY <1>2, State
<1>11. QED
  BY <1>2, <1>9, <1>10, State, OthersKept

\* Take begins the computation, of the work nobody is at.
LEMMA TakeStep == ASSUME IInv, NEW t \in Threads, Take(t) PROVE IInv'
<1> DEFINE last == Last(stack[t])
           call == [last EXCEPT !.pc = "inside"]
<1>1. stack[t] # <<>> /\ last.pc = "waiting" /\ Top(t) = last
  BY DEF Take, In, Top
<1>2. /\ last.work \notin busy /\ busy' = busy \cup {last.work} /\ stack' = WithTop(t, call)
      /\ UNCHANGED <<caches, gates, pool, cancelled, answers>>
  BY <1>1 DEF Take
<1>3. /\ stack \in Stacks /\ pool \in SUBSET Task /\ generation \in Nat
      /\ StackOK(stack, pool, generation, gates, busy)
  BY State
<1>4. /\ Topped(stack, t, call) \in Stacks
      /\ StackOK(Topped(stack, t, call), pool, generation, gates, busy \cup {last.work})
  BY <1>1, <1>2, <1>3, TakeOK
<1>5. stack' = Topped(stack, t, call)
  BY <1>2, State
<1> HIDE DEF last
<1>6. QED
  BY <1>2, <1>4, <1>5, State, OthersKept

\* Without its last call a stack of one is empty, a stack of two has its first.
LEMMA FrontIs ==
  ASSUME NEW s \in Seq(CallRecord)
  PROVE  /\ Len(s) = 1 => Front(s) = <<>>
         /\ Len(s) = 2 => Front(s) = <<s[1]>>
<1>1. ASSUME Len(s) = 1 PROVE Front(s) = <<>>
  <2>1. Front(s) \in Seq(CallRecord) /\ Len(Front(s)) = 0
    BY <1>1 DEF Front
  <2>2. QED
    BY <2>1, EmptySeq
<1>2. ASSUME Len(s) = 2 PROVE Front(s) = <<s[1]>>
  <2>1. s[1] \in CallRecord
    BY <1>2, ElementOfSeq
  <2>2. Front(s) \in Seq(CallRecord) /\ Len(Front(s)) = 1 /\ Front(s)[1] = s[1]
    BY <1>2 DEF Front
  <2>3. <<s[1]>> \in Seq(CallRecord) /\ Len(<<s[1]>>) = 1 /\ <<s[1]>>[1] = s[1]
    BY <2>1
  <2>4. \A i \in 1 .. 1 : Front(s)[i] = <<s[1]>>[i]
    BY <2>2, <2>3
  <2>5. QED
    BY <2>2, <2>3, <2>4, SeqEqual
<1>3. QED
  BY <1>1, <1>2

\* A call that gives up its wait for the gate ends, of a caller.
LEMMA RefusedEnds ==
  ASSUME IInv, NEW t \in Threads, Refused(t)
  PROVE  /\ stack[t] # <<>> /\ Top(t) = Last(stack[t]) /\ Last(stack[t]).pc = "waiting"
         /\ Last(stack[t]) \in CallRecord /\ Last(stack[t]).waits = FALSE
         /\ \E snapshot \in Nat : stack' = Ending(stack, t, TRUE, snapshot)
<1> DEFINE last == Last(stack[t])
           o == last.owner
<1>1. stack[t] # <<>> /\ last.pc = "waiting" /\ Top(t) = last
  BY DEF Refused, In, Top
<1>2. UNCHANGED <<caches, gates, busy, pool, answers>> /\ cancelled' \in SUBSET Callers
  BY State DEF Refused
<1>3. t \in Callers
  BY State DEF Refused, Cancelled
<1>4. /\ last \in CallRecord /\ CallOK(last, generation, gates, busy) /\ last.waits = FALSE
      /\ o = NoOwner => Len(stack[t]) = 1
      /\ o # NoOwner => Len(stack[t]) = 2 /\ o = <<t, 1>>
  BY <1>1, <1>3, State, TopOK
<1>5. stack[t] \in Seq(CallRecord)
  BY State DEF Stacks
<1> DEFINE snapshot == IF o = NoOwner THEN None ELSE At(stack, o).snapshot
<1>6. stack' = Ending(stack, t, TRUE, snapshot) /\ snapshot \in Nat
  <2>1. CASE o = NoOwner
    <3>1. Front(stack[t]) = <<>>
      BY <2>1, <1>4, <1>5, FrontIs
    <3>2. stack' = [stack EXCEPT ![t] = <<>>]
      BY <2>1, <1>1 DEF Refused
    <3>3. QED
      BY <2>1, <3>1, <3>2 DEF Ending, Popping, None
  <2>2. CASE o # NoOwner
    <3> DEFINE first == stack[t][1]
               answered == [first EXCEPT !.waits = FALSE, !.failed = TRUE]
    <3>1. Front(stack[t]) = <<first>> /\ first \in CallRecord
      BY <2>2, <1>4, <1>5, FrontIs, ElementOfSeq
    <3>2. At(stack, o) = first
      BY <2>2, <1>4 DEF At
    <3>3. answered = [first EXCEPT !.waits = FALSE, !.failed = TRUE, !.snapshot = first.snapshot]
      BY <3>1 DEF CallRecord
    <3>4. first.snapshot \in Nat
      BY <3>1 DEF CallRecord
    <3>5. stack' = [stack EXCEPT ![t] = <<answered>>]
      BY <2>2, <1>1 DEF Refused
    <3>6. Changing(Popping(stack, t), o, answered) = [stack EXCEPT ![t] = <<answered>>]
      <4> HIDE DEF first, answered
      <4>1. Popping(stack, t) = [stack EXCEPT ![t] = <<first>>]
        BY <3>1 DEF Popping
      <4>2. o[1] = t /\ o[2] = 1
        BY <2>2, <1>4
      <4>3. [<<first>> EXCEPT ![1] = answered] = <<answered>>
        OBVIOUS
      <4>4. QED
        BY <4>1, <4>2, <4>3, State DEF Changing, Stacks
    <3>7. QED
      BY <2>2, <3>2, <3>3, <3>4, <3>5, <3>6 DEF Ending
  <2>3. QED
    BY <2>1, <2>2
<1>7. QED
  BY <1>1, <1>4, <1>6

\* Refused leaves the work alone, and only a caller is refused.
LEMMA RefusedStep == ASSUME IInv, NEW t \in Threads, Refused(t) PROVE IInv'
<1> DEFINE last == Last(stack[t])
<1>1. /\ stack[t] # <<>> /\ last.pc = "waiting" /\ last \in CallRecord /\ last.waits = FALSE
      /\ \E snapshot \in Nat : stack' = Ending(stack, t, TRUE, snapshot)
  BY RefusedEnds
<1>2. UNCHANGED <<caches, gates, busy, pool, answers>> /\ cancelled' \in SUBSET Callers
  BY State DEF Refused
<1>3. PICK snapshot \in Nat : stack' = Ending(stack, t, TRUE, snapshot)
  BY <1>1
<1>4. ~Inside(last)
  BY <1>1 DEF Inside
<1>5. stack' \in Stacks /\ StackOK(stack', pool, generation, gates, busy)
  <2>1. /\ stack \in Stacks /\ pool \in SUBSET Task /\ generation \in Nat
        /\ StackOK(stack, pool, generation, gates, busy)
    BY State
  <2>2. QED
    BY <1>1, <1>3, <1>4, <2>1, EndsOK
<1> HIDE DEF last
<1>6. QED
  BY <1>2, <1>5, State, OthersKept

\* The innermost call begins to wait, for nothing yet.
LEMMA WaitsOK ==
  ASSUME IInv, NEW t \in Threads, stack[t] # <<>>, Top(t).pc \in {"inside", "running"},
         NEW call \in CallRecord, call.pc = "joining", call.waits = TRUE,
         call.owner = Top(t).owner, call.cache = Top(t).cache, call.work = Top(t).work,
         call.owner # NoOwner => call.cache = "terms" /\ Top(t).pc = "inside" /\ call.key = Top(t).key,
         CallOK(call, generation, gates, busy)
  PROVE  LET r == WithTop(t, call)
             me == <<t, Len(stack[t])>>
         IN  /\ r \in Stacks /\ StackOK(r, pool, generation, gates, busy)
             /\ me \in CallsOf(r) /\ me \in Pairs /\ At(r, me) = call
             /\ r[t] # <<>> /\ Last(r[t]) = call /\ Len(r[t]) = Len(stack[t])
             /\ \A p \in CallsOf(r) : At(r, p).owner # me
             /\ \A task \in pool : task.owner # me
<1> DEFINE r == Topped(stack, t, call)
           me == TopOf(stack, t)
           last == Last(stack[t])
<1>1. /\ stack \in Stacks /\ pool \in SUBSET Task /\ generation \in Nat
      /\ StackOK(stack, pool, generation, gates, busy) /\ WithTop(t, call) = r
  BY State
<1>2. /\ last \in CallRecord /\ CallOK(last, generation, gates, busy) /\ last.waits = FALSE
      /\ last.owner # NoOwner /\ last.cache = "terms" /\ last.pc # "reading" =>
           last.key >= At(stack, last.owner).key
      /\ Top(t) = last
  BY <1>1, TopOK DEF Top
<1>3. Inside(call) <=> Inside(last)
  BY <1>2 DEF CallOK, Inside
<1>4. call.owner # NoOwner => call.key >= At(stack, call.owner).key
  BY <1>2
<1>5. r \in Stacks /\ StackOK(r, pool, generation, gates, busy)
  BY <1>1, <1>2, <1>3, <1>4, Moves
<1>6. /\ CallsOf(r) = CallsOf(stack) /\ r[t] # <<>> /\ Len(r[t]) = Len(stack[t]) /\ At(r, me) = call
      /\ \A p \in CallsOf(stack) : p # me => At(r, p) = At(stack, p)
  BY <1>1, Replaced
<1>7. me \in CallsOf(stack) /\ me \in Pairs /\ At(stack, me) = last
  BY <1>1, TopIs
<1>8. Last(r[t]) = call
  BY <1>6 DEF At, TopOf, Last
<1>9. /\ \A p \in CallsOf(stack) : At(stack, p).owner # me
      /\ \A task \in pool : task.owner # me
  BY <1>1, <1>2, <1>7, NoChild
<1> HIDE DEF r, last
<1>10. \A p \in CallsOf(r) : At(r, p).owner # me
  BY <1>2, <1>6, <1>7, <1>9
<1>11. me = <<t, Len(stack[t])>>
  BY DEF TopOf
<1> HIDE DEF me
<1>12. QED
  BY <1>1, <1>5, <1>6, <1>7, <1>8, <1>9, <1>10, <1>11

\* A call that waits gives a task to the pool.
LEMMA TaskOK ==
  ASSUME NEW s \in Stacks, NEW tasks \in SUBSET Task, NEW g, NEW gs, NEW b, StackOK(s, tasks, g, gs, b),
         NEW task \in Task, OwnedIn(s, task.cache, task.owner),
         \A p \in CallsOf(s) : At(s, p).owner # task.owner,
         \A other \in tasks : other.owner # task.owner
  PROVE  StackOK(s, tasks \cup {task}, g, gs, b)
BY TreeTask DEF StackOK

\* Compute answers, fails, or begins to wait for a scan or a term set.
LEMMA ComputeStep == ASSUME IInv, NEW t \in Threads, Compute(t) PROVE IInv'
<1> DEFINE last == Last(stack[t])
           me == <<t, Len(stack[t])>>
           call == [last EXCEPT !.pc = "joining", !.waits = TRUE]
           r == WithTop(t, call)
<1>1. stack[t] # <<>> /\ last.pc = "inside" /\ Top(t) = last /\ UNCHANGED <<caches, gates>>
  BY DEF Compute, In, Top
<1>2. /\ last \in CallRecord /\ CallOK(last, generation, gates, busy) /\ last.waits = FALSE
      /\ t \in Callers /\ last.owner = NoOwner => Len(stack[t]) = 1
      /\ t \in Workers => last.owner # NoOwner
  BY <1>1, State, TopOK
<1>3. last.cache \in Caches /\ (last.owner # NoOwner => last.cache = "terms") /\ last.work # None
  BY <1>1, <1>2 DEF CallOK, CallRecord, Kinds
<1>4. /\ \/ Answer(t) /\ UNCHANGED pool
         \/ last.cache = "terms" /\ Ends(t, TRUE, None, FALSE) /\ UNCHANGED pool
         \/ /\ last.cache = "terms"
            /\ stack' = r /\ pool' = pool \cup {[cache |-> "scan", owner |-> me]}
            /\ UNCHANGED <<busy, cancelled, answers>>
         \/ /\ last.cache # "terms"
            /\ stack' = [r EXCEPT ![t] = Append(@, Call("terms", me))]
            /\ UNCHANGED <<pool, busy, cancelled, answers>>
  BY <1>1 DEF Compute
<1>5. call \in CallRecord
  BY <1>2 DEF CallRecord, Pcs
<1>6. /\ call.pc = "joining" /\ call.waits = TRUE /\ call.cache = last.cache /\ call.key = last.key
      /\ call.owner = last.owner /\ call.work = last.work
  BY <1>2 DEF CallRecord
<1> HIDE DEF last, call
<1>7. CallOK(call, generation, gates, busy)
  <2>1. Inside(last) /\ Inside(call)
    BY <1>1, <1>3, <1>6 DEF Inside
  <2>2. QED
    BY <2>1, <1>1, <1>2, <1>3, <1>6 DEF CallOK, Caches
<1>8. /\ r \in Stacks /\ StackOK(r, pool, generation, gates, busy)
      /\ me \in CallsOf(r) /\ me \in Pairs /\ At(r, me) = call
      /\ r[t] # <<>> /\ Last(r[t]) = call /\ Len(r[t]) = Len(stack[t])
      /\ \A p \in CallsOf(r) : At(r, p).owner # me
      /\ \A task \in pool : task.owner # me
  BY <1>1, <1>2, <1>3, <1>5, <1>6, <1>7, WaitsOK
<1> HIDE DEF me, r
<1>9. CASE Answer(t) /\ UNCHANGED pool
  BY <1>1, <1>9, State, AnswerOK, OthersKept
<1>10. CASE last.cache = "terms" /\ Ends(t, TRUE, None, FALSE) /\ UNCHANGED pool
  <2>1. None \in Nat
    BY DEF None
  <2>2. QED
    BY <1>1, <1>2, <1>10, <2>1, State, EndsStep, OthersKept
<1>11. CASE /\ last.cache = "terms"
            /\ stack' = r /\ pool' = pool \cup {[cache |-> "scan", owner |-> me]}
            /\ UNCHANGED <<busy, cancelled, answers>>
  <2> DEFINE task == [cache |-> "scan", owner |-> me]
  <2>1. task \in Task /\ task.cache = "scan" /\ task.owner = me
    BY <1>8 DEF Task
  <2> HIDE DEF task
  <2>2. OwnedIn(r, task.cache, task.owner)
    BY <2>1, <1>6, <1>8, <1>11 DEF OwnedIn
  <2>3. StackOK(r, pool \cup {task}, generation, gates, busy)
    BY <2>1, <2>2, <1>8, State, TaskOK
  <2>4. pool \cup {task} \in SUBSET Task
    BY <2>1, State
  <2>5. pool' = pool \cup {task}
    BY <1>11 DEF task
  <2>6. QED
    BY <2>3, <2>4, <2>5, <1>1, <1>8, <1>11, State, OthersKept
<1>12. CASE /\ last.cache # "terms"
            /\ stack' = [r EXCEPT ![t] = Append(@, Call("terms", me))]
            /\ UNCHANGED <<pool, busy, cancelled, answers>>
  <2> DEFINE new == Call("terms", me)
  <2>1. stack' = Pushing(r, t, new)
    BY <1>12 DEF Pushing
  <2>2. new \in CallRecord
    <3>1. epoch["memory"] \in Nat
      BY State DEF Epochs
    <3>2. QED
      BY <3>1, <1>8 DEF Call, CallRecord, Kinds, Caches, Pcs, None
  <2>3. /\ new.pc = "reading" /\ new.cache = "terms" /\ new.key = 0 /\ new.work = None /\ new.owner = me
        /\ new.waits = FALSE /\ new.failed = FALSE
    BY DEF Call, Caches, None
  <2> HIDE DEF new
  <2>4. me # NoOwner
    BY <1>8, PairsAre
  <2>5. CallOK(new, generation, gates, busy)
    BY <2>3, <2>4, State DEF CallOK, Inside
  <2>6. OwnedIn(r, new.cache, new.owner)
    BY <2>3, <1>6, <1>8, <1>12 DEF OwnedIn
  <2>7. t \in Callers => Len(r[t]) = 1 /\ new.owner = <<t, 1>>
    BY <2>3, <1>2, <1>3, <1>8, <1>12 DEF me
  <2>8. stack' \in Stacks /\ StackOK(stack', pool, generation, gates, busy)
    BY <2>1, <2>2, <2>3, <2>4, <2>5, <2>6, <2>7, <1>6, <1>8, State, BeginsOK
  <2>9. QED
    BY <2>8, <1>1, <1>12, State, OthersKept
<1>13. QED
  BY <1>4, <1>9, <1>10, <1>11, <1>12

\* Spread gives the words of a search to the pool.
LEMMA SpreadStep == ASSUME IInv, NEW t \in Callers, Spread(t) PROVE IInv'
<1> DEFINE last == Last(stack[t])
           me == <<t, Len(stack[t])>>
           call == [last EXCEPT !.pc = "joining", !.waits = TRUE, !.key = generation]
           r == WithTop(t, call)
           task == [cache |-> "terms", owner |-> <<t, 1>>]
<1>1. /\ t \in Threads /\ stack[t] # <<>> /\ last.pc = "running" /\ Top(t) = last /\ last.cache = "words"
      /\ UNCHANGED <<caches, gates, busy, cancelled, answers>>
      /\ stack' = r /\ pool' = pool \cup {task}
  BY DEF Spread, In, Top, Threads
<1>2. /\ last \in CallRecord /\ CallOK(last, generation, gates, busy)
      /\ last.owner = NoOwner => Len(stack[t]) = 1
  BY <1>1, State, TopOK
<1>3. last.owner = NoOwner /\ last.work = None
  BY <1>1, <1>2 DEF CallOK, Caches
<1>4. call \in CallRecord
  BY <1>2, State DEF CallRecord, Pcs
<1>5. /\ call.pc = "joining" /\ call.waits = TRUE /\ call.cache = "words" /\ call.key = generation
      /\ call.owner = NoOwner /\ call.work = None
  BY <1>1, <1>2, <1>3 DEF CallRecord
<1> HIDE DEF last, call
<1>6. CallOK(call, generation, gates, busy)
  BY <1>5, State DEF CallOK, Inside, Caches
<1>7. /\ r \in Stacks /\ StackOK(r, pool, generation, gates, busy)
      /\ me \in CallsOf(r) /\ me \in Pairs /\ At(r, me) = call
      /\ \A p \in CallsOf(r) : At(r, p).owner # me
      /\ \A other \in pool : other.owner # me
  BY <1>1, <1>3, <1>4, <1>5, <1>6, WaitsOK
<1>8. me = <<t, 1>>
  BY <1>2, <1>3 DEF last
<1> HIDE DEF me, r
<1>9. task \in Task /\ task.cache = "terms" /\ task.owner = me
  BY <1>7, <1>8 DEF Task
<1> HIDE DEF task
<1>10. OwnedIn(r, task.cache, task.owner)
  BY <1>5, <1>7, <1>9 DEF OwnedIn
<1>11. StackOK(r, pool \cup {task}, generation, gates, busy) /\ pool \cup {task} \in SUBSET Task
  BY <1>7, <1>9, <1>10, State, TaskOK
<1>12. QED
  BY <1>1, <1>7, <1>11, State, OthersKept

\* Steal begins a task of the pool.
LEMMA StealStep == ASSUME IInv, NEW t \in Workers, Steal(t) PROVE IInv'
<1>1. PICK task \in pool :
        /\ stack[t] = <<>> \/ In(t, "joining")
        /\ pool' = pool \ {task}
        /\ stack' = [stack EXCEPT ![t] = Append(@, Call(task.cache, task.owner))]
  BY DEF Steal
<1>2. UNCHANGED <<caches, gates, busy, cancelled, answers>>
  BY DEF Steal
<1> DEFINE new == Call(task.cache, task.owner)
           rest == pool \ {task}
<1>3. task \in Task /\ task.owner \in Pairs /\ task.cache \in {"terms", "scan"} /\ task.owner # NoOwner
  BY State, PairsAre DEF Task
<1>4. /\ stack \in Stacks /\ pool \in SUBSET Task /\ rest \in SUBSET Task /\ generation \in Nat
      /\ StackOK(stack, pool, generation, gates, busy)
  BY State
<1>5. StackOK(stack, rest, generation, gates, busy)
  <2>1. TreeOK(stack, pool) /\ rest \in SUBSET pool
    BY <1>4 DEF StackOK
  <2>2. TreeOK(stack, rest)
    BY <1>4, <2>1, TreeTaken
  <2>3. QED
    BY <1>4, <2>2 DEF StackOK
<1>6. /\ OwnedIn(stack, task.cache, task.owner)
      /\ \A p \in CallsOf(stack) : At(stack, p).owner # task.owner
      /\ \A other \in rest : other.owner # task.owner
  BY <1>4 DEF StackOK, TreeOK, OwnersIn, OneChildIn
<1>7. new \in CallRecord
  <2>1. epoch["memory"] \in Nat
    BY State DEF Epochs
  <2>2. QED
    BY <2>1, <1>3, State DEF Call, CallRecord, Kinds, Caches, Pcs, None
<1>8. /\ new.pc = IF task.cache = "terms" THEN "reading" ELSE "running"
      /\ new.cache = task.cache /\ new.work = None /\ new.owner = task.owner
      /\ new.key = IF task.cache = "terms" THEN 0 ELSE generation
      /\ new.waits = FALSE /\ new.failed = FALSE
  BY <1>3 DEF Call, Caches, None
<1>9. stack' = Pushing(stack, t, new)
  BY <1>1 DEF Pushing
<1> HIDE DEF new, rest
<1>10. CallOK(new, generation, gates, busy)
  BY <1>3, <1>8, State DEF CallOK, Inside, Caches
<1>11. t \in Threads /\ t \notin Callers
  BY SearchCachesAssumption DEF Threads
<1>12. stack[t] # <<>> => Last(stack[t]).pc = "joining"
  BY <1>1 DEF In, Top
<1>13. stack' \in Stacks /\ StackOK(stack', rest, generation, gates, busy)
  BY <1>3, <1>4, <1>5, <1>6, <1>7, <1>8, <1>9, <1>10, <1>11, <1>12, BeginsOK
<1>14. QED
  BY <1>1, <1>2, <1>4, <1>13, State, OthersKept DEF rest

\* Scan ends for the term set that waits for it, with what the set is of.
LEMMA ScanStep == ASSUME IInv, NEW t \in Workers, Scan(t) PROVE IInv'
<1> DEFINE last == Last(stack[t])
<1>1. /\ t \in Threads /\ stack[t] # <<>> /\ last.pc = "running" /\ Top(t) = last
      /\ UNCHANGED <<caches, gates, pool>>
  BY DEF Scan, In, Top, Threads
<1>2. /\ last.waits = FALSE /\ last.owner # NoOwner
      /\ At(stack, last.owner).key \in Nat
  BY <1>1, State, TopOK
<1>3. \/ Ends(t, FALSE, At(stack, last.owner).key, FALSE)
      \/ Ends(t, TRUE, None, FALSE)
  BY <1>1 DEF Scan, Is, At
<1>4. None \in Nat
  BY DEF None
<1> HIDE DEF last
<1>5. /\ stack' \in Stacks /\ StackOK(stack', pool, generation, gates, busy')
      /\ cancelled' \in SUBSET Callers
      /\ answers' \in [Callers -> Answers] /\ AnswersOK(answers')
  <2>1. CASE Ends(t, FALSE, At(stack, last.owner).key, FALSE)
    <3>1. PICK key \in Nat : key = At(stack, last.owner).key /\ key >= key
      BY <1>2
    <3>2. Ends(t, FALSE, key, FALSE)
      BY <2>1, <3>1
    <3>3. QED
      BY <1>1, <1>2, <3>1, <3>2, EndsStep
  <2>2. CASE Ends(t, TRUE, None, FALSE)
    BY <1>1, <1>2, <1>4, <2>2, EndsStep
  <2>3. QED
    BY <1>3, <2>1, <2>2
<1>6. QED
  BY <1>1, <1>5, State, OthersKept

\* Begin is a caller's request.
LEMMA BeginStep == ASSUME IInv, NEW t \in Callers, NEW cache \in Requests[t], Begin(t, cache) PROVE IInv'
<1> DEFINE new == Call(cache, NoOwner)
<1>1. /\ stack[t] = <<>> /\ stack' = [stack EXCEPT ![t] = <<new>>]
      /\ answers' = [answers EXCEPT ![t] = NoAnswer]
      /\ UNCHANGED <<caches, gates, busy, pool, cancelled>>
  BY DEF Begin
<1>2. t \in Threads /\ t \notin Workers /\ cache \in {"patterns", "term_sets", "terms", "words"}
  BY SearchCachesAssumption DEF Threads
<1>3. new \in CallRecord
  <2>1. epoch["memory"] \in Nat
    BY State DEF Epochs
  <2>2. QED
    BY <2>1, <1>2, State DEF Call, CallRecord, Kinds, Caches, Pcs, None
<1>4. /\ new.pc = IF cache \in Caches THEN "reading" ELSE "running"
      /\ new.cache = cache /\ new.work = None /\ new.owner = NoOwner
      /\ new.key = IF cache = "terms" THEN 0 ELSE generation
      /\ new.waits = FALSE /\ new.failed = FALSE
  BY <1>2 DEF Call, None
<1>5. stack' = Pushing(stack, t, new)
  <2>1. Append(stack[t], new) = <<new>>
    BY <1>1
  <2>2. QED
    BY <1>1, <2>1 DEF Pushing
<1> HIDE DEF new
<1>6. CallOK(new, generation, gates, busy)
  BY <1>2, <1>4, State DEF CallOK, Inside, Caches
<1>7. stack' \in Stacks /\ StackOK(stack', pool, generation, gates, busy)
  <2>1. /\ stack[t] # <<>> => Last(stack[t]).pc = "joining"
        /\ IF stack[t] = <<>> THEN new.owner = NoOwner ELSE Len(stack[t]) = 1 /\ new.owner = <<t, 1>>
    BY <1>1, <1>4
  <2>2. QED
    BY <1>2, <1>3, <1>4, <1>5, <1>6, <2>1, State, BeginsOK
<1>8. answers' \in [Callers -> Answers] /\ AnswersOK(answers')
  <2>1. NoAnswer \in Answers /\ NoAnswer.snapshot >= NoAnswer.asked /\ ~NoAnswer.cut
    BY DEF NoAnswer, Answers, None
  <2>2. QED
    BY <1>1, <2>1, State DEF AnswersOK
<1>9. QED
  BY <1>1, <1>7, <1>8, State, OthersKept

\* What is kept is of the epoch there is, whole, and of its key or newer.
LEMMA KeepOK ==
  ASSUME IInv, NEW call \in CallRecord, call.cache \in Caches, call.key \in 1 .. generation,
         NEW snapshot \in Nat, snapshot >= call.key, NEW cut, cut = FALSE, Keep(call, snapshot, cut),
         UNCHANGED <<epoch, releasing>>
  PROVE  kept' \in [Caches -> SUBSET Entry] /\ KeptOK(kept', generation) /\ KeptIsCurrent'
<1> DEFINE new == [key |-> call.key, epoch |-> call.epoch, snapshot |-> snapshot, cut |-> cut]
<1>1. kept \in [Caches -> SUBSET Entry] /\ KeptOK(kept, generation) /\ KeptIsCurrent
  BY DEF IInv, Typed
<1>2. CASE UNCHANGED kept
  BY <1>1, <1>2 DEF KeptIsCurrent
<1>3. ASSUME Fresh(call), NEW left \in SUBSET kept[call.cache],
             kept' = [kept EXCEPT ![call.cache] = left \cup {new}]
      PROVE  kept' \in [Caches -> SUBSET Entry] /\ KeptOK(kept', generation) /\ KeptIsCurrent'
  <2>1. call.epoch \in Nat
    BY DEF CallRecord
  <2>2. new \in Entry /\ new.key = call.key /\ new.epoch = call.epoch /\ new.snapshot = snapshot /\ new.cut = FALSE
    <3>1. call.key \in Nat /\ FALSE \in BOOLEAN
      BY DEF CallRecord
    <3>2. new = [key |-> call.key, epoch |-> call.epoch, snapshot |-> snapshot, cut |-> FALSE]
      OBVIOUS
    <3> HIDE DEF new
    <3>3. new \in Entry
      BY <2>1, <3>1, <3>2, Zenon DEF Entry
    <3>4. new.key = call.key /\ new.epoch = call.epoch /\ new.snapshot = snapshot /\ new.cut = FALSE
      BY <3>2
    <3>5. QED
      BY <3>3, <3>4
  <2> HIDE DEF new
  <2>3. /\ kept' \in [Caches -> SUBSET Entry]
        /\ \A x \in Caches : \A e \in kept'[x] : e \in kept[x] \/ (e = new /\ x = call.cache)
    BY <1>1, <1>3, <2>2
  <2>4. KeptOK(kept', generation)
    BY <1>1, <2>2, <2>3 DEF KeptOK
  <2>5. epoch[EpochOf(call.cache)] = new.epoch
    BY <1>3, <2>2 DEF Fresh
  <2>6. KeptIsCurrent'
    BY <1>1, <2>3, <2>5 DEF KeptIsCurrent
  <2>7. QED
    BY <2>3, <2>4, <2>6
<1>4. QED
  BY <1>2, <1>3 DEF Keep

\* A computation that is over ends its call, kept for others or not.
LEMMA ComputedOK ==
  ASSUME IInv, NEW t \in Threads, stack[t] # <<>>, Top(t).pc = "joining", Top(t).waits = FALSE,
         Top(t).cache \in Caches, NEW snapshot \in Nat, snapshot >= Top(t).key,
         NEW cut \in BOOLEAN, Checked(t) => cut = FALSE, Computed(t, snapshot, cut) \/ Fails(t),
         UNCHANGED <<epoch, releasing>>
  PROVE  /\ stack' \in Stacks /\ StackOK(stack', pool, generation, gates, busy')
         /\ cancelled' \in SUBSET Callers
         /\ answers' \in [Callers -> Answers] /\ AnswersOK(answers')
         /\ kept' \in [Caches -> SUBSET Entry] /\ KeptOK(kept', generation) /\ KeptIsCurrent'
<1> DEFINE last == Last(stack[t])
<1>1. /\ last \in CallRecord /\ CallOK(last, generation, gates, busy) /\ Top(t) = last
      /\ last.owner # NoOwner =>
           /\ At(stack, last.owner).key \in Nat
           /\ last.cache = "terms" /\ last.pc # "reading" => last.key >= At(stack, last.owner).key
  BY State, TopOK DEF Top
<1>2. last.key \in Nat
  BY <1>1 DEF CallRecord
<1>3. last.key \in 1 .. generation
  BY <1>1, <1>2, State DEF CallOK
<1>4. last.owner # NoOwner => snapshot >= At(stack, last.owner).key
  BY <1>1, <1>2 DEF CallOK
<1>5. None \in Nat
  BY DEF None
<1> HIDE DEF last
<1>6. CASE Ends(t, TRUE, None, FALSE) /\ UNCHANGED kept
  <2>1. kept' \in [Caches -> SUBSET Entry] /\ KeptOK(kept', generation) /\ KeptIsCurrent'
    BY <1>6 DEF IInv, Typed, KeptIsCurrent
  <2>2. QED
    BY <1>1, <1>5, <1>6, <2>1, EndsStep
<1>7. CASE cut = FALSE /\ Keep(last, snapshot, cut) /\ Ends(t, FALSE, snapshot, cut)
  <2>1. kept' \in [Caches -> SUBSET Entry] /\ KeptOK(kept', generation) /\ KeptIsCurrent'
    BY <1>1, <1>3, <1>7, KeepOK
  <2>2. QED
    BY <1>1, <1>4, <1>7, <2>1, EndsStep
<1>8. QED
  BY <1>1, <1>6, <1>7 DEF Computed, Fails

\* Joined ends the call that is answered.
LEMMA JoinedStep == ASSUME IInv, NEW t \in Threads, Joined(t) PROVE IInv'
<1> DEFINE last == Last(stack[t])
<1>1. /\ stack[t] # <<>> /\ last.pc = "joining" /\ Top(t) = last /\ ~last.waits
      /\ UNCHANGED <<generation, epoch, releasing, gates, pool>>
  BY DEF Joined, In, Top
<1>2. /\ last \in CallRecord /\ CallOK(last, generation, gates, busy)
      /\ last.owner = NoOwner => t \in Callers
  BY <1>1, State, TopOK
<1>3. last.waits = FALSE /\ last.failed \in BOOLEAN /\ last.snapshot \in Nat /\ last.key \in Nat
  BY <1>1, <1>2 DEF CallRecord
<1>4. ~last.failed => last.snapshot >= last.key
  BY <1>1, <1>2 DEF CallOK
<1>5. \/ last.cache \in Caches /\ ~last.failed /\ Computed(t, last.snapshot, FALSE)
      \/ last.cache = "patterns" /\ last.failed /\ Computed(t, last.key, Cancelled(t))
      \/ last.cache \in {"term_sets", "terms"} /\ last.failed /\ Fails(t)
      \/ /\ last.cache = "words" /\ Ends(t, last.failed, last.snapshot, FALSE)
         /\ UNCHANGED kept
  BY <1>1 DEF Joined
<1> HIDE DEF last
<1>6. /\ stack' \in Stacks /\ StackOK(stack', pool, generation, gates, busy')
      /\ cancelled' \in SUBSET Callers
      /\ answers' \in [Callers -> Answers] /\ AnswersOK(answers')
      /\ kept' \in [Caches -> SUBSET Entry] /\ KeptOK(kept', generation) /\ KeptIsCurrent'
  <2>1. CASE last.cache \in Caches /\ ~last.failed /\ Computed(t, last.snapshot, FALSE)
    BY <2>1, <1>1, <1>3, <1>4, ComputedOK
  <2>2. CASE last.cache = "patterns" /\ last.failed /\ Computed(t, last.key, Cancelled(t))
    <3>1. Cancelled(t) \in BOOLEAN /\ (Checked(t) => Cancelled(t) = FALSE) /\ last.cache \in Caches
          /\ last.key >= last.key
      BY <2>2, <1>3 DEF Cancelled, Checked, Caches
    <3>2. QED
      BY <2>2, <3>1, <1>1, <1>3, ComputedOK
  <2>3. CASE last.cache \in {"term_sets", "terms"} /\ last.failed /\ Fails(t)
    <3>1. last.cache \in Caches /\ last.key >= last.key
      BY <2>3, <1>3 DEF Caches
    <3>2. QED
      BY <2>3, <3>1, <1>1, <1>3, ComputedOK
  <2>4. CASE /\ last.cache = "words" /\ Ends(t, last.failed, last.snapshot, FALSE)
             /\ UNCHANGED kept
    <3>1. last.owner = NoOwner
      BY <2>4, <1>2 DEF CallOK
    <3>2. kept' \in [Caches -> SUBSET Entry] /\ KeptOK(kept', generation) /\ KeptIsCurrent'
      BY <2>4, <1>1 DEF IInv, Typed, KeptIsCurrent
    <3>3. QED
      BY <2>4, <3>1, <3>2, <1>1, <1>3, <1>4, EndsStep
  <2>5. QED
    BY <1>5, <2>1, <2>2, <2>3, <2>4
<1>7. Typed'
  BY <1>1, <1>6 DEF IInv, Typed
<1>8. QED
  BY <1>1, <1>6, <1>7 DEF IInv

----------------------------------------------------------------------------
(* What happens meanwhile.                                                  *)

\* A cancellation is of a caller that has a request.
LEMMA CancelStep == ASSUME IInv, NEW t \in Callers, Cancel(t) PROVE IInv'
<1>1. /\ UNCHANGED <<caches, gates, busy, stack, pool, answers>> /\ cancelled' \in SUBSET Callers
  BY State DEF Cancel
<1>2. QED
  BY <1>1, State, OthersKept

\* A later generation, and gates without entries nobody holds, are in order.
LEMMA LaterOK ==
  ASSUME IInv, NEW h \in Nat, h >= generation, NEW left \in [Caches -> SUBSET GateEntry],
         \A x \in Caches : left[x] \subseteq gates[x] /\ gates[x] \ Idle(x) \subseteq left[x]
  PROVE  StackOK(stack, pool, h, left, busy) /\ KeptOK(kept, h)
<1>1. StackOK(stack, pool, generation, gates, busy) /\ stack \in Stacks /\ generation \in Nat
  BY State
<1>2. GatesOK(left, HeldIn(stack), h)
  BY <1>1, GatesFewer DEF StackOK
<1>3. \A x \in Caches : {e \in gates[x] : e.work \in HeldIn(stack)} \subseteq left[x]
  BY HeldIs
<1>4. CallsOK(stack, h, left, busy)
  BY <1>1, <1>3, CallsLater DEF StackOK
<1>5. KeptOK(kept, h)
  BY <1>1 DEF IInv, KeptOK
<1>6. QED
  BY <1>1, <1>2, <1>4, <1>5 DEF StackOK

\* Reload is a later generation.
LEMMA ReloadStep == ASSUME IInv, Reload PROVE IInv'
<1>1. generation' = generation + 1 /\ generation' \in 1 .. MaxGeneration /\ generation' \in Nat
  BY State, SearchCachesAssumption DEF Reload, IInv, Typed
<1>2. StackOK(stack, pool, generation', gates, busy) /\ KeptOK(kept, generation')
  BY <1>1, State, LaterOK
<1>3. UNCHANGED <<epoch, kept, releasing, gates, busy, stack, pool, cancelled, answers>>
  BY DEF Reload
<1>4. Typed' /\ KeptIsCurrent'
  BY <1>1, <1>3 DEF IInv, Typed, KeptIsCurrent
<1>5. QED
  BY <1>2, <1>3, <1>4 DEF IInv

\* Commit is a later generation whose highlight caches are empty.
LEMMA CommitStep == ASSUME IInv, Commit PROVE IInv'
<1>1. generation' = generation + 1 /\ generation' \in 1 .. MaxGeneration /\ generation' \in Nat
  BY State, SearchCachesAssumption DEF Commit, IInv, Typed
<1>2. /\ gates' \in [Caches -> SUBSET GateEntry]
      /\ \A x \in Caches : gates'[x] \subseteq gates[x] /\ gates[x] \ Idle(x) \subseteq gates'[x]
  BY State DEF Commit
<1>3. StackOK(stack, pool, generation', gates', busy) /\ KeptOK(kept, generation')
  BY <1>1, <1>2, State, LaterOK
<1>4. /\ UNCHANGED <<releasing, busy, stack, pool, cancelled, answers>> /\ releasing = 0
      /\ epoch' = [epoch EXCEPT !["highlight"] = @ + 1]
      /\ kept' = [kept EXCEPT !["term_sets"] = {}, !["patterns"] = {}]
  BY DEF Commit
<1>5. kept \in [Caches -> SUBSET Entry] /\ epoch \in [Epochs -> Nat]
  BY DEF IInv, Typed
<1>6. /\ kept' \in [Caches -> SUBSET Entry] /\ kept'["term_sets"] = {} /\ kept'["patterns"] = {}
      /\ kept'["terms"] = kept["terms"]
  BY <1>4, <1>5 DEF Caches
<1>7. epoch' \in [Epochs -> Nat] /\ epoch'["memory"] = epoch["memory"]
  BY <1>4, <1>5 DEF Epochs
<1>8. KeptOK(kept', generation')
  BY <1>3, <1>6 DEF KeptOK, Caches
<1>9. KeptIsCurrent'
  <2> SUFFICES ASSUME NEW e \in kept["terms"] PROVE e.epoch = epoch["memory"]
    BY <1>6, <1>7 DEF KeptIsCurrent, Caches, EpochOf
  <2>1. e.epoch = epoch[EpochOf("terms")]
    BY <1>4 DEF IInv, KeptIsCurrent, Caches
  <2>2. QED
    BY <2>1 DEF EpochOf
<1>10. Typed'
  BY <1>1, <1>2, <1>4, <1>6, <1>7 DEF IInv, Typed
<1>11. QED
  BY <1>3, <1>4, <1>8, <1>9, <1>10 DEF IInv

\* Entries of an older epoch are those the release has yet to come to.
CurrentIn(k, e, r) ==
  /\ \A entry \in k["term_sets"] : entry.epoch = e["highlight"] \/ r \in 1 .. 2
  /\ \A entry \in k["patterns"] : entry.epoch = e["highlight"] \/ r \in 1 .. 3
  /\ \A entry \in k["terms"] : entry.epoch = e["memory"] \/ r \in 1 .. 5

\* What each step of a release is about.
LEMMA ReleasesAre ==
  /\ Len(Releases) = 7
  /\ \A x \in Caches :
       /\ x \in Releases[3] <=> x = "term_sets"
       /\ x \in Releases[4] <=> x = "patterns"
       /\ x \in Releases[6] <=> x = "terms"
       /\ x \notin Releases[1] /\ x \notin Releases[2]
  /\ "memory" \in Releases[1] /\ "highlight" \notin Releases[1]
  /\ "memory" \notin Releases[2] /\ "highlight" \in Releases[2]
  /\ \A step \in 3 .. 7 : "memory" \notin Releases[step] /\ "highlight" \notin Releases[step]
<1>1. /\ Releases[1] = {"memory"} /\ Releases[2] = {"highlight"} /\ Releases[3] = {"term_sets"}
      /\ Releases[4] = {"patterns"} /\ Releases[5] = {"term_sets", "patterns"}
      /\ Releases[6] = {"terms"} /\ Releases[7] = {"terms"} /\ Len(Releases) = 7
  BY DEF Releases
<1>2. \A step \in 3 .. 7 : step = 3 \/ step = 4 \/ step = 5 \/ step = 6 \/ step = 7
  OBVIOUS
<1>3. QED
  BY <1>1, <1>2 DEF Caches

\* KeptIsCurrent, cache by cache.
LEMMA CurrentIs ==
  /\ KeptIsCurrent <=> CurrentIn(kept, epoch, releasing)
  /\ KeptIsCurrent' <=> CurrentIn(kept', epoch', releasing')
<1>1. \A x \in Caches : x = "term_sets" \/ x = "patterns" \/ x = "terms"
  BY DEF Caches
<1>2. /\ "term_sets" \in Caches /\ "patterns" \in Caches /\ "terms" \in Caches
      /\ EpochOf("term_sets") = "highlight" /\ EpochOf("patterns") = "highlight" /\ EpochOf("terms") = "memory"
  BY DEF Caches, EpochOf
<1>3. Clears = {3, 4, 6} /\ 3 - 1 = 2 /\ 4 - 1 = 3 /\ 6 - 1 = 5
  BY DEF Clears
<1>4. \A r, x : x \in Caches =>
        ((\E step \in Clears : x \in Releases[step] /\ r \in 1 .. step - 1) <=>
         \/ x = "term_sets" /\ r \in 1 .. 2
         \/ x = "patterns" /\ r \in 1 .. 3
         \/ x = "terms" /\ r \in 1 .. 5)
  BY <1>3, ReleasesAre
<1>5. KeptIsCurrent <=> CurrentIn(kept, epoch, releasing)
  BY <1>1, <1>2, <1>4 DEF KeptIsCurrent, CurrentIn
<1>6. KeptIsCurrent' <=> CurrentIn(kept', epoch', releasing')
  BY <1>1, <1>2, <1>4 DEF KeptIsCurrent, CurrentIn
<1>7. QED
  BY <1>5, <1>6

\* A release clears what it made old.
LEMMA ReleaseStep == ASSUME IInv, Release PROVE IInv'
<1> DEFINE step == releasing + 1
<1>1. releasing \in 0 .. 6 /\ step \in 1 .. 7
  BY DEF IInv, Typed
<1>2. kept \in [Caches -> SUBSET Entry] /\ epoch \in [Epochs -> Nat]
  BY DEF IInv, Typed
<1>3. /\ UNCHANGED <<generation, busy, stack, pool, cancelled, answers>>
      /\ releasing' = step % 7
      /\ epoch' = [e \in DOMAIN epoch |-> IF e \in Releases[step] THEN epoch[e] + 1 ELSE epoch[e]]
      /\ kept' = [x \in Caches |-> IF step \in Clears /\ x \in Releases[step] THEN {} ELSE kept[x]]
      /\ gates' = [x \in Caches |->
                     IF step \notin Clears /\ x \in Releases[step] THEN gates[x] \ Idle(x) ELSE gates[x]]
  BY ReleasesAre DEF Release
<1>4. /\ releasing' \in 0 .. 6
      /\ step < 7 => releasing' = step
      /\ step = 7 => releasing' = 0
  BY <1>1, <1>3
<1> HIDE DEF step
<1>5. /\ gates' \in [Caches -> SUBSET GateEntry]
      /\ \A x \in Caches : gates'[x] \subseteq gates[x] /\ gates[x] \ Idle(x) \subseteq gates'[x]
  BY <1>3, State
<1>6. StackOK(stack, pool, generation, gates', busy) /\ KeptOK(kept, generation)
  BY <1>5, State, LaterOK
<1>7. kept' \in [Caches -> SUBSET Entry] /\ \A x \in Caches : kept'[x] \subseteq kept[x]
  BY <1>2, <1>3
<1>8. epoch' \in [Epochs -> Nat]
  <2>1. DOMAIN epoch = Epochs /\ \A e \in Epochs : epoch[e] \in Nat /\ epoch[e] + 1 \in Nat
    BY <1>2
  <2>2. QED
    BY <1>3, <2>1
<1>9. KeptOK(kept', generation)
  BY <1>6, <1>7 DEF KeptOK
<1>10. CurrentIn(kept, epoch, releasing)
  BY CurrentIs DEF IInv
<1>11. \A x \in Caches : step \in Clears /\ x \in Releases[step] => kept'[x] = {}
  BY <1>3
<1>12. step \notin {1, 2} => epoch'["memory"] = epoch["memory"] /\ epoch'["highlight"] = epoch["highlight"]
  BY <1>1, <1>2, <1>3, ReleasesAre DEF Epochs
<1>13. /\ step = 1 => epoch'["highlight"] = epoch["highlight"]
       /\ step = 2 => epoch'["memory"] = epoch["memory"]
  BY <1>2, <1>3, ReleasesAre DEF Epochs
<1>14. "term_sets" \in Caches /\ "patterns" \in Caches /\ "terms" \in Caches /\ Clears = {3, 4, 6}
  BY DEF Caches, Clears
<1>15. releasing = step - 1
  BY <1>1 DEF step
<1>16. \A e \in kept'["term_sets"] : e.epoch = epoch'["highlight"] \/ releasing' \in 1 .. 2
  <2>1. step = 3 => kept'["term_sets"] = {}
    BY <1>11, <1>14, ReleasesAre
  <2>2. QED
    BY <2>1, <1>1, <1>4, <1>7, <1>10, <1>12, <1>13, <1>14, <1>15 DEF CurrentIn
<1>17. \A e \in kept'["patterns"] : e.epoch = epoch'["highlight"] \/ releasing' \in 1 .. 3
  <2>1. step = 4 => kept'["patterns"] = {}
    BY <1>11, <1>14, ReleasesAre
  <2>2. QED
    BY <2>1, <1>1, <1>4, <1>7, <1>10, <1>12, <1>13, <1>14, <1>15 DEF CurrentIn
<1>18. \A e \in kept'["terms"] : e.epoch = epoch'["memory"] \/ releasing' \in 1 .. 5
  <2>1. step = 6 => kept'["terms"] = {}
    BY <1>11, <1>14, ReleasesAre
  <2>2. QED
    BY <2>1, <1>1, <1>4, <1>7, <1>10, <1>12, <1>13, <1>14, <1>15 DEF CurrentIn
<1>19. KeptIsCurrent'
  BY <1>16, <1>17, <1>18, CurrentIs DEF CurrentIn
<1>20. Typed'
  BY <1>3, <1>4, <1>5, <1>7, <1>8 DEF IInv, Typed
<1>21. QED
  BY <1>3, <1>6, <1>9, <1>19, <1>20 DEF IInv

----------------------------------------------------------------------------
(* The theorems.                                                            *)

\* At first no thread is in a call, no cache keeps and no gate knows anything.
LEMMA InitOK == ASSUME Init PROVE IInv
<1>1. Typed
  <2>1. generation \in 1 .. MaxGeneration /\ releasing \in 0 .. 6
    BY SearchCachesAssumption DEF Init
  <2>2. epoch \in [Epochs -> Nat] /\ kept \in [Caches -> SUBSET Entry] /\ gates \in [Caches -> SUBSET GateEntry]
    BY DEF Init, Epochs
  <2>3. stack \in Stacks
    <3>1. <<>> \in Seq(CallRecord)
      OBVIOUS
    <3>2. QED
      BY <3>1 DEF Init, Stacks
  <2>4. NoAnswer \in Answers
    BY DEF NoAnswer, Answers, None
  <2>5. QED
    BY <2>1, <2>2, <2>3, <2>4 DEF Init, Typed
<1>2. CallsOf(stack) = {}
  <2>1. \A t \in Threads : stack[t] = <<>> /\ DOMAIN stack[t] = {}
    BY DEF Init
  <2>2. QED
    BY <2>1 DEF CallsOf
<1>3. TreeOK(stack, pool) /\ CallsOK(stack, generation, gates, busy) /\ InsideOK(stack, busy)
  BY <1>2 DEF Init, TreeOK, ShapeIn, OwnersIn, OneChildIn, CallsOK, InsideOK
<1>4. GatesOK(gates, HeldIn(stack), generation)
  BY FS_EmptySet DEF Init, GatesOK
<1>5. KeptOK(kept, generation) /\ KeptIsCurrent
  BY DEF Init, KeptOK, KeptIsCurrent
<1>6. AnswersOK(answers)
  BY DEF Init, AnswersOK, NoAnswer, None
<1>7. QED
  BY <1>1, <1>3, <1>4, <1>5, <1>6 DEF IInv, StackOK

\* A thread's step keeps the invariant.
LEMMA StepOK == ASSUME IInv, NEW t \in Threads, Step(t) PROVE IInv'
<1>1. CASE Read(t) \/ Look(t) \/ Enter(t) \/ Take(t)
  BY <1>1, ReadOK, LookOK, EnterStep, TakeStep
<1>2. CASE Refused(t) \/ Compute(t) \/ Joined(t)
  BY <1>2, RefusedStep, ComputeStep, JoinedStep
<1>3. CASE t \in Callers /\ Spread(t)
  BY <1>3, SpreadStep
<1>4. CASE t \in Workers /\ (Steal(t) \/ Scan(t))
  BY <1>4, StealStep, ScanStep
<1>5. QED
  BY <1>1, <1>2, <1>3, <1>4 DEF Step

\* So does any step.
LEMMA NextOK == ASSUME IInv, [Next]_vars PROVE IInv'
<1>1. CASE \E t \in Threads : Step(t)
  BY <1>1, StepOK
<1>2. CASE \E c \in Callers : Cancel(c) \/ \E cache \in Requests[c] : Begin(c, cache)
  BY <1>2, CancelStep, BeginStep
<1>3. CASE Reload \/ Commit \/ Release
  BY <1>3, ReloadStep, CommitStep, ReleaseStep
<1>4. CASE UNCHANGED vars
  <2>1. UNCHANGED <<generation, epoch, kept, releasing, gates, busy, stack, pool, cancelled, answers>>
    BY <1>4 DEF vars, caches
  <2>2. QED
    BY <2>1, State, OthersKept DEF caches
<1>5. QED
  BY <1>1, <1>2, <1>3, <1>4 DEF Next

\* The caches, the gates, the calls and who waits for whom are in order.
THEOREM Inductive == Spec => []IInv
<1>1. Init => IInv
  BY InitOK
<1>2. IInv /\ [Next]_vars => IInv'
  BY NextOK
<1>3. QED
  BY <1>1, <1>2, PTL DEF Spec

\* Concurrent requests share one computation of a key, whatever the gates
\* forgot in between (WorkGate::enter, clear_idle): who is inside holds work the
\* gate knows by that key, the gate knows one such, and one is at it.
THEOREM OneComputes == Spec => []SingleFlight
<1>1. IInv => SingleFlight
  <2> SUFFICES ASSUME IInv, NEW p \in CallsOf(stack), NEW q \in CallsOf(stack),
                      Inside(At(stack, p)), Inside(At(stack, q)),
                      At(stack, p).cache = At(stack, q).cache, At(stack, p).key = At(stack, q).key
               PROVE  p = q
    BY DEF SingleFlight, Calls, CallsOf, Is, At
  <2> DEFINE x == At(stack, p).cache
             e == [key |-> At(stack, p).key, work |-> At(stack, p).work]
             f == [key |-> At(stack, q).key, work |-> At(stack, q).work]
  <2>1. StackOK(stack, pool, generation, gates, busy) /\ stack \in Stacks
    BY State
  <2>2. /\ At(stack, p).work # None /\ e \in gates[x]
        /\ At(stack, q).work # None /\ f \in gates[x] /\ x \in Caches
    BY <2>1 DEF StackOK, CallsOK, CallOK, Inside
  <2>3. At(stack, p).work \in HeldIn(stack) /\ At(stack, q).work \in HeldIn(stack)
    BY <2>2 DEF HeldIn
  <2>4. e.key = f.key /\ e.work \in HeldIn(stack) /\ f.work \in HeldIn(stack)
    BY <2>3
  <2> HIDE DEF x
  <2>5. e = f
    BY <2>1, <2>2, <2>4 DEF StackOK, GatesOK
  <2>6. At(stack, p).work = At(stack, q).work
    BY <2>5
  <2>7. QED
    BY <2>1, <2>6 DEF StackOK, InsideOK
<1>2. QED
  BY <1>1, Inductive, PTL

\* Nothing computed before a release or a commit is kept after it, but for what
\* the release under way has yet to clear (release_memory, HighlightCache::clear).
THEOREM OldIsCleared == Spec => []KeptIsCurrent
<1>1. IInv => KeptIsCurrent
  BY DEF IInv
<1>2. QED
  BY <1>1, Inductive, PTL

\* A pattern a cancelled request cut is neither kept nor answered
\* (check_current in HighlightCache::pattern).
THEOREM WholeOnly == Spec => []NothingCutKept
<1>1. IInv => NothingCutKept
  BY DEF IInv, KeptOK, AnswersOK, NothingCutKept
<1>2. QED
  BY <1>1, Inductive, PTL

\* What is kept and answered is of the generation asked for or newer, although
\* a term set reads a searcher of its own after its caller read one.
THEOREM NoneOlder == Spec => []NeverOlder
<1>1. IInv => NeverOlder
  BY DEF IInv, KeptOK, AnswersOK, NeverOlder
<1>2. QED
  BY <1>1, Inductive, PTL

\* The caches' and gates' keys are of generations there were, work somebody is
\* at is held, and a task's owner waits for it.
THEOREM TypeCorrect == Spec => []TypeOK
<1>1. IInv => TypeOK
  <2> SUFFICES ASSUME IInv PROVE TypeOK
    OBVIOUS
  <2>1. StackOK(stack, pool, generation, gates, busy) /\ stack \in Stacks
    BY State
  <2>2. generation \in 1 .. MaxGeneration /\ releasing \in 0 .. Len(Releases) - 1 /\ cancelled \subseteq Callers
    BY ReleasesAre DEF IInv, Typed
  <2>3. \A x \in Caches : /\ \A e \in kept[x] : e.key \in 1 .. generation
                          /\ \A g \in gates[x] : g.key \in 1 .. generation /\ g.work # None
    BY <2>1 DEF IInv, KeptOK, StackOK, GatesOK
  <2>4. busy \subseteq Held
    <3> SUFFICES ASSUME NEW w \in busy PROVE w \in Held
      OBVIOUS
    <3>1. PICK p \in CallsOf(stack) : Inside(At(stack, p)) /\ At(stack, p).work = w
      BY <2>1 DEF StackOK, InsideOK
    <3>2. w # None
      BY <2>1, <3>1 DEF StackOK, CallsOK, CallOK, Inside
    <3>3. QED
      BY <3>1, <3>2 DEF Held, Calls, CallsOf, Is, At
  <2>5. \A task \in pool : Is(task.owner).waits
    BY <2>1 DEF StackOK, TreeOK, OwnersIn, OwnedIn, Is, At
  <2>6. QED
    BY <2>2, <2>3, <2>4, <2>5 DEF TypeOK
<1>2. QED
  BY <1>1, Inductive, PTL

----------------------------------------------------------------------------
(* A request goes on: some thread always has a step, and each step leaves   *)
(* less to do.                                                              *)

\* A thread has a step of its own: to go on with its innermost call, to take the
\* gate or give up the wait for it, to go on with what it waited for, or to run a
\* task of the pool.
GoesOn(t) ==
  \/ stack[t] # <<>> /\ Top(t).pc \notin {"waiting", "joining"}
  \/ stack[t] # <<>> /\ Top(t).pc = "waiting" /\ (Cancelled(t) \/ Top(t).work \notin busy)
  \/ stack[t] # <<>> /\ Top(t).pc = "joining" /\ ~Top(t).waits
  \/ t \in Workers /\ pool # {} /\ (stack[t] = <<>> \/ Top(t).pc = "joining")

\* The threads of the callers and of the pool do not all wait for each other as
\* long as a request is not answered.
NeverStalled == (\E c \in Callers : stack[c] # <<>>) => \E t \in Threads : GoesOn(t)

\* The application searches for several words in one search at a time.
OneSpreads == \A c, d \in Callers : "words" \in Requests[c] /\ "words" \in Requests[d] => c = d

\* What p waits for is a call or a task.
Asked(s, tasks, p) ==
  (\E q \in CallsOf(s) : At(s, q).owner = p) \/ \E task \in tasks : task.owner = p

\* Only the words of a search are materialized on the pool.
Served(s, cache, owner) == cache = "terms" => At(s, owner).cache = "words"

\* Who waits has asked for what it waits for, except one call that is about to.
WaitsAsked(s, tasks, but) == \A p \in CallsOf(s) : At(s, p).waits => p = but \/ Asked(s, tasks, p)

\* A caller runs what it was asked for, and scans run on the pool.
RunsWhere(s, tasks) ==
  /\ \A p \in CallsOf(s) : p[1] \in Callers =>
       At(s, p).cache # "scan" /\ (p[2] = 1 => At(s, p).cache \in Requests[p[1]])
  /\ \A p \in CallsOf(s) : p[1] \in Workers => Served(s, At(s, p).cache, At(s, p).owner)
  /\ \A task \in tasks : Served(s, task.cache, task.owner)

GoOK(s, tasks, but) == WaitsAsked(s, tasks, but) /\ RunsWhere(s, tasks)

\* How many steps a call of a cache is before it waits for what it needs.
Before(pc) == CASE pc = "inside" -> 1 [] pc = "waiting" -> 2 [] pc = "queueing" -> 3
                [] pc = "looking" -> 4 [] pc = "reading" -> 5 [] OTHER -> 0

\* The most steps a call and what it will ask for can take: a scan is taken and
\* run, a term set reads, looks, queues, takes the gate, computes, scans and joins.
Weight(call) ==
  IF call.pc = "joining" \/ call.cache = "scan" THEN 1
  ELSE IF call.cache = "words" THEN 11
  ELSE IF call.cache = "terms" THEN 3 + Before(call.pc) ELSE 9 + Before(call.pc)

TaskWeight(task) == IF task.cache = "scan" THEN 2 ELSE 9

\* The steps of the calls and of the tasks, finitely many, and how many there are.
CallSteps(s) == UNION {{p} \X (1 .. Weight(At(s, p))) : p \in CallsOf(s)}
TaskSteps(tasks) == UNION {{task} \X (1 .. TaskWeight(task)) : task \in tasks}
StepsFinite(s, tasks) == IsFiniteSet(CallSteps(s)) /\ IsFiniteSet(TaskSteps(tasks))

GInv == GoOK(stack, pool, NoOwner) /\ StepsFinite(stack, pool)

StepsYet == Cardinality(CallSteps(stack)) + Cardinality(TaskSteps(pool))

ThreadStep == \E t \in Threads : Step(t)

----------------------------------------------------------------------------
(* What a step does to the calls and the tasks.                             *)

\* The innermost call of a thread is over.
Over(t) ==
  /\ stack[t] # <<>> /\ Last(stack[t]).waits = FALSE /\ pool' = pool
  /\ \E failed \in BOOLEAN, snapshot \in Nat : stack' = Ending(stack, t, failed, snapshot)

\* The innermost call of a thread becomes this one.
Becomes(t, call) ==
  /\ stack[t] # <<>> /\ Last(stack[t]).waits = FALSE
  /\ call \in CallRecord /\ call.owner = Last(stack[t]).owner /\ call.cache = Last(stack[t]).cache

\* It goes on.
Further(t) ==
  /\ pool' = pool
  /\ \E call : /\ Becomes(t, call) /\ call.waits = FALSE /\ stack' = Topped(stack, t, call)
               /\ Weight(call) < Weight(Last(stack[t]))

\* It gives the pool a task, and waits for it.
Gives(t) ==
  \E call, task :
    /\ Becomes(t, call) /\ call.waits = TRUE /\ stack' = Topped(stack, t, call)
    /\ task \in Task /\ task \notin pool /\ pool' = pool \cup {task}
    /\ task.owner = TopOf(stack, t) /\ (task.cache = "terms" => call.cache = "words")
    /\ Weight(call) + TaskWeight(task) < Weight(Last(stack[t]))

\* It calls for a term set, and waits for it.
Asks(t) ==
  \E call, new :
    /\ Becomes(t, call) /\ call.waits = TRUE
    /\ t \in Callers /\ Len(stack[t]) = 1
    /\ new \in CallRecord /\ new.waits = FALSE /\ new.cache = "terms" /\ new.owner = TopOf(stack, t)
    /\ stack' = Pushing(Topped(stack, t, call), t, new) /\ pool' = pool
    /\ Weight(call) + Weight(new) < Weight(Last(stack[t]))

\* A thread of the pool takes a task.
Steals(t) ==
  \E task, new :
    /\ t \in Workers /\ task \in pool /\ pool' = pool \ {task}
    /\ new \in CallRecord /\ new.waits = FALSE /\ new.cache = task.cache /\ new.owner = task.owner
    /\ stack' = Pushing(stack, t, new)
    /\ Weight(new) < TaskWeight(task)

\* A caller begins a request.
Starts(c) ==
  \E new :
    /\ c \in Callers /\ stack[c] = <<>>
    /\ new \in CallRecord /\ new.waits = FALSE /\ new.cache \in Requests[c] /\ new.owner = NoOwner
    /\ new.cache # "scan"
    /\ stack' = Pushing(stack, c, new) /\ pool' = pool
    /\ Weight(new) <= 14

----------------------------------------------------------------------------
(* Who waits has asked, and calls run where they do, after each change.     *)

\* An owner of a call or of a task is a call that waits.
LEMMA OwnersAre ==
  ASSUME NEW s \in Stacks, NEW tasks \in SUBSET Task, TreeOK(s, tasks)
  PROVE  /\ \A p \in CallsOf(s) : At(s, p).owner # NoOwner =>
              OwnedIn(s, At(s, p).cache, At(s, p).owner)
         /\ \A p \in CallsOf(s) : p[1] \in Workers => At(s, p).owner # NoOwner
         /\ \A task \in tasks : OwnedIn(s, task.cache, task.owner)
BY DEF TreeOK, OwnersIn, ShapeIn

\* The innermost call goes on, and may be about to ask for what it waits for.
LEMMA GoTopped ==
  ASSUME NEW s \in Stacks, NEW tasks \in SUBSET Task, TreeOK(s, tasks), GoOK(s, tasks, NoOwner),
         NEW t \in Threads, s[t] # <<>>, NEW call \in CallRecord,
         call.owner = Last(s[t]).owner, call.cache = Last(s[t]).cache, Last(s[t]).waits = FALSE,
         NEW but, call.waits => but = TopOf(s, t)
  PROVE  GoOK(Topped(s, t, call), tasks, but)
<1> DEFINE r == Topped(s, t, call)
           me == TopOf(s, t)
<1>1. /\ CallsOf(r) = CallsOf(s) /\ At(r, me) = call
      /\ \A p \in CallsOf(s) : p # me => At(r, p) = At(s, p)
  BY Replaced
<1>2. me \in CallsOf(s) /\ At(s, me) = Last(s[t])
  BY TopIs
<1>3. NoOwner \notin CallsOf(s)
  BY CallsAre, PairsAre
<1> HIDE DEF r, me
<1>4. \A p \in CallsOf(s) : At(r, p).owner = At(s, p).owner /\ At(r, p).cache = At(s, p).cache
  BY <1>1, <1>2
<1>5. ASSUME NEW p \in CallsOf(s), Asked(s, tasks, p) PROVE Asked(r, tasks, p)
  BY <1>1, <1>4, <1>5 DEF Asked
<1>6. WaitsAsked(r, tasks, but)
  <2>1. ASSUME NEW p \in CallsOf(s), At(r, p).waits PROVE p = but \/ Asked(r, tasks, p)
    <3>1. CASE p = me
      BY <3>1, <2>1, <1>1 DEF me
    <3>2. CASE p # me
      <4>1. Asked(s, tasks, p)
        BY <3>2, <2>1, <1>1, <1>3 DEF GoOK, WaitsAsked
      <4>2. QED
        BY <4>1, <1>5
    <3>3. QED
      BY <3>1, <3>2
  <2>2. QED
    BY <2>1, <1>1 DEF WaitsAsked
<1>7. RunsWhere(r, tasks)
  <2>1. RunsWhere(s, tasks)
    BY DEF GoOK
  <2>2. \A cache, owner : owner \in CallsOf(s) /\ Served(s, cache, owner) => Served(r, cache, owner)
    BY <1>4 DEF Served
  <2>3. ASSUME NEW p \in CallsOf(s), p[1] \in Callers
        PROVE  At(r, p).cache # "scan" /\ (p[2] = 1 => At(r, p).cache \in Requests[p[1]])
    BY <2>1, <2>3, <1>4 DEF RunsWhere
  <2>4. ASSUME NEW p \in CallsOf(s), p[1] \in Workers
        PROVE  Served(r, At(r, p).cache, At(r, p).owner)
    <3>1. At(s, p).owner \in CallsOf(s)
      BY <2>4, OwnersAre DEF OwnedIn
    <3>2. Served(s, At(s, p).cache, At(s, p).owner)
      BY <2>1, <2>4 DEF RunsWhere
    <3>3. QED
      BY <3>1, <3>2, <2>2, <1>4
  <2>5. ASSUME NEW task \in tasks PROVE Served(r, task.cache, task.owner)
    <3>1. task.owner \in CallsOf(s) /\ Served(s, task.cache, task.owner)
      BY <2>1, OwnersAre DEF OwnedIn, RunsWhere
    <3>2. QED
      BY <3>1, <2>2
  <2>6. QED
    BY <2>3, <2>4, <2>5, <1>1 DEF RunsWhere
<1>8. QED
  BY <1>6, <1>7 DEF GoOK, r

\* The task a call waits for is given to the pool.
LEMMA GoTask ==
  ASSUME NEW s \in Stacks, NEW tasks, NEW task, GoOK(s, tasks, task.owner),
         Served(s, task.cache, task.owner), NEW but
  PROVE  GoOK(s, tasks \cup {task}, but)
<1>1. ASSUME NEW p, Asked(s, tasks, p) \/ p = task.owner PROVE Asked(s, tasks \cup {task}, p)
  BY <1>1 DEF Asked
<1>2. WaitsAsked(s, tasks \cup {task}, but)
  BY <1>1 DEF GoOK, WaitsAsked
<1>3. RunsWhere(s, tasks \cup {task})
  BY DEF GoOK, RunsWhere
<1>4. QED
  BY <1>2, <1>3 DEF GoOK

\* A task is taken from the pool.
LEMMA GoTaken ==
  ASSUME NEW s \in Stacks, NEW tasks, NEW task \in tasks, GoOK(s, tasks, NoOwner)
  PROVE  GoOK(s, tasks \ {task}, task.owner)
<1>1. NoOwner \notin CallsOf(s)
  BY CallsAre, PairsAre
<1>2. ASSUME NEW p, Asked(s, tasks, p) PROVE p = task.owner \/ Asked(s, tasks \ {task}, p)
  BY <1>2 DEF Asked
<1>3. WaitsAsked(s, tasks \ {task}, task.owner)
  BY <1>1, <1>2 DEF GoOK, WaitsAsked
<1>4. RunsWhere(s, tasks \ {task})
  BY DEF GoOK, RunsWhere
<1>5. QED
  BY <1>3, <1>4 DEF GoOK

\* A call begins: of a request, of what a call is about to ask for, of a task.
LEMMA GoPushed ==
  ASSUME NEW s \in Stacks, NEW tasks \in SUBSET Task, TreeOK(s, tasks), NEW but, GoOK(s, tasks, but),
         NEW t \in Threads, NEW call \in CallRecord, call.waits = FALSE,
         but \in CallsOf(s) => call.owner = but,
         t \in Callers => call.cache # "scan" /\ (s[t] = <<>> => call.cache \in Requests[t]),
         t \in Workers => call.owner \in CallsOf(s) /\ Served(s, call.cache, call.owner)
  PROVE  GoOK(Pushing(s, t, call), tasks, NoOwner)
<1> DEFINE r == Pushing(s, t, call)
           me == <<t, Len(s[t]) + 1>>
<1>1. /\ CallsOf(r) = CallsOf(s) \cup {me} /\ me \notin CallsOf(s) /\ At(r, me) = call
      /\ \A p \in CallsOf(s) : At(r, p) = At(s, p)
  BY Pushed
<1>2. me[1] = t /\ (me[2] = 1 => s[t] = <<>>)
  <2>1. s[t] \in Seq(CallRecord) /\ Len(s[t]) \in Nat
    BY LenProperties DEF Stacks
  <2>2. QED
    BY <2>1, EmptySeq
<1> HIDE DEF r, me
<1>3. ASSUME NEW p \in CallsOf(s), p = but \/ Asked(s, tasks, p) PROVE Asked(r, tasks, p)
  <2>1. CASE p = but
    BY <2>1, <1>1 DEF Asked
  <2>2. CASE Asked(s, tasks, p)
    BY <2>2, <1>1 DEF Asked
  <2>3. QED
    BY <1>3, <2>1, <2>2
<1>4. WaitsAsked(r, tasks, NoOwner)
  <2>1. ASSUME NEW p \in CallsOf(r), At(r, p).waits PROVE Asked(r, tasks, p)
    <3>1. p \in CallsOf(s) /\ At(s, p).waits
      BY <2>1, <1>1
    <3>2. QED
      BY <3>1, <1>3 DEF GoOK, WaitsAsked
  <2>2. QED
    BY <2>1 DEF WaitsAsked
<1>5. RunsWhere(r, tasks)
  <2>1. RunsWhere(s, tasks)
    BY DEF GoOK
  <2>2. \A cache, owner : owner \in CallsOf(s) /\ Served(s, cache, owner) => Served(r, cache, owner)
    BY <1>1 DEF Served
  <2>3. ASSUME NEW p \in CallsOf(r), p[1] \in Callers
        PROVE  At(r, p).cache # "scan" /\ (p[2] = 1 => At(r, p).cache \in Requests[p[1]])
    BY <2>1, <2>3, <1>1, <1>2 DEF RunsWhere
  <2>4. ASSUME NEW p \in CallsOf(r), p[1] \in Workers
        PROVE  Served(r, At(r, p).cache, At(r, p).owner)
    <3>1. CASE p = me
      BY <3>1, <2>2, <2>4, <1>1, <1>2
    <3>2. CASE p # me
      <4>1. p \in CallsOf(s) /\ At(s, p).owner \in CallsOf(s) /\ At(r, p) = At(s, p)
        BY <3>2, <2>4, <1>1, OwnersAre DEF OwnedIn
      <4>2. Served(s, At(s, p).cache, At(s, p).owner)
        BY <4>1, <2>1, <2>4 DEF RunsWhere
      <4>3. QED
        BY <4>1, <4>2, <2>2
    <3>3. QED
      BY <3>1, <3>2
  <2>5. ASSUME NEW task \in tasks PROVE Served(r, task.cache, task.owner)
    <3>1. task.owner \in CallsOf(s) /\ Served(s, task.cache, task.owner)
      BY <2>1, OwnersAre DEF OwnedIn, RunsWhere
    <3>2. QED
      BY <3>1, <2>2
  <2>6. QED
    BY <2>3, <2>4, <2>5 DEF RunsWhere
<1>6. QED
  BY <1>4, <1>5 DEF GoOK, r

\* A call is over, and whoever waited for it goes on.
LEMMA GoEnded ==
  ASSUME NEW s \in Stacks, NEW tasks \in SUBSET Task, TreeOK(s, tasks), GoOK(s, tasks, NoOwner),
         NEW t \in Threads, s[t] # <<>>, Last(s[t]).waits = FALSE,
         NEW failed \in BOOLEAN, NEW snapshot \in Nat
  PROVE  GoOK(Ending(s, t, failed, snapshot), tasks, NoOwner)
<1> DEFINE r == Popping(s, t)
           me == TopOf(s, t)
           o == Last(s[t]).owner
<1>1. /\ r \in Stacks /\ CallsOf(r) = CallsOf(s) \ {me} /\ \A p \in CallsOf(r) : At(r, p) = At(s, p)
  BY Popped
<1>2. me \in CallsOf(s) /\ At(s, me) = Last(s[t])
  BY TopIs
<1>3. /\ TreeOK(r, tasks)
      /\ o # NoOwner => o \in CallsOf(r) /\ At(s, o) \in CallRecord
  BY TreePopped
<1>4. NoOwner \notin CallsOf(s)
  BY CallsAre, PairsAre
<1> HIDE DEF r, me
<1>5. GoOK(r, tasks, o)
  <2>1. ASSUME NEW p \in CallsOf(r), At(r, p).waits PROVE p = o \/ Asked(r, tasks, p)
    <3>1. p \in CallsOf(s) /\ At(s, p).waits
      BY <2>1, <1>1
    <3>2. Asked(s, tasks, p)
      BY <3>1, <1>4 DEF GoOK, WaitsAsked
    <3>3. QED
      BY <3>2, <1>1, <1>2 DEF Asked
  <2>2. RunsWhere(s, tasks)
    BY DEF GoOK
  <2>3. RunsWhere(r, tasks)
    <3>1. \A cache, owner : owner \in CallsOf(r) /\ Served(s, cache, owner) => Served(r, cache, owner)
      BY <1>1 DEF Served
    <3>2. ASSUME NEW p \in CallsOf(r), p[1] \in Workers
          PROVE  Served(r, At(r, p).cache, At(r, p).owner)
      <4>1. At(r, p).owner \in CallsOf(r)
        BY <3>2, <1>1, <1>3, OwnersAre DEF OwnedIn
      <4>2. Served(s, At(r, p).cache, At(r, p).owner)
        BY <2>2, <3>2, <1>1 DEF RunsWhere
      <4>3. QED
        BY <3>1, <4>1, <4>2
    <3>3. ASSUME NEW task \in tasks PROVE Served(r, task.cache, task.owner)
      <4>1. task.owner \in CallsOf(r)
        BY <1>1, <1>3, OwnersAre DEF OwnedIn
      <4>2. QED
        BY <2>2, <3>1, <4>1 DEF RunsWhere
    <3>4. QED
      BY <2>2, <3>2, <3>3, <1>1 DEF RunsWhere
  <2>4. QED
    BY <2>1, <2>3 DEF GoOK, WaitsAsked
<1> HIDE DEF o
<1>6. CASE o = NoOwner
  BY <1>5, <1>6 DEF Ending, r, o
<1>7. CASE o # NoOwner
  <2> DEFINE answered == [At(s, o) EXCEPT !.waits = FALSE, !.failed = failed, !.snapshot = snapshot]
             q == Changing(r, o, answered)
  <2>1. answered \in CallRecord /\ answered.waits = FALSE
        /\ answered.owner = At(s, o).owner /\ answered.cache = At(s, o).cache
    BY <1>3, <1>7 DEF CallRecord
  <2> HIDE DEF answered
  <2>2. /\ CallsOf(q) = CallsOf(r) /\ At(q, o) = answered
        /\ \A p \in CallsOf(r) : p # o => At(q, p) = At(r, p)
    BY <2>1, <1>1, <1>3, <1>7, Changed
  <2> HIDE DEF q
  <2>3. \A p \in CallsOf(r) : At(q, p).owner = At(r, p).owner /\ At(q, p).cache = At(r, p).cache
    BY <2>1, <2>2, <1>1
  <2>4. WaitsAsked(q, tasks, NoOwner)
    <3>1. ASSUME NEW p \in CallsOf(r), At(q, p).waits PROVE Asked(q, tasks, p)
      <4>1. p # o /\ At(r, p).waits
        BY <3>1, <2>1, <2>2
      <4>2. Asked(r, tasks, p)
        BY <4>1, <1>5 DEF GoOK, WaitsAsked
      <4>3. QED
        BY <4>2, <2>2, <2>3 DEF Asked
    <3>2. QED
      BY <3>1, <2>2 DEF WaitsAsked
  <2>5. RunsWhere(q, tasks)
    <3>1. \A cache, owner : owner \in CallsOf(r) /\ Served(r, cache, owner) => Served(q, cache, owner)
      BY <2>3 DEF Served
    <3>2. RunsWhere(r, tasks)
      BY <1>5 DEF GoOK
    <3>3. ASSUME NEW p \in CallsOf(r), p[1] \in Workers
          PROVE  Served(q, At(q, p).cache, At(q, p).owner)
      <4>1. At(r, p).owner \in CallsOf(r)
        BY <3>3, <1>1, <1>3, OwnersAre DEF OwnedIn
      <4>2. QED
        BY <4>1, <3>1, <3>2, <3>3, <2>3 DEF RunsWhere
    <3>4. ASSUME NEW task \in tasks PROVE Served(q, task.cache, task.owner)
      <4>1. task.owner \in CallsOf(r)
        BY <1>1, <1>3, OwnersAre DEF OwnedIn
      <4>2. QED
        BY <4>1, <3>1, <3>2 DEF RunsWhere
    <3>5. QED
      BY <3>2, <3>3, <3>4, <2>2, <2>3 DEF RunsWhere
  <2>6. Ending(s, t, failed, snapshot) = q
    BY <1>7 DEF Ending, r, o, q, answered
  <2>7. QED
    BY <2>4, <2>5, <2>6 DEF GoOK
<1>8. QED
  BY <1>6, <1>7

----------------------------------------------------------------------------
(* How many steps there are after each change.                              *)

Row(x, n) == {x} \X (1 .. n)

\* A row counts its steps.
LEMMA RowAdded ==
  ASSUME NEW S, NEW x, NEW n \in Nat, \A e \in S : e[1] # x,
         IsFiniteSet(S) \/ IsFiniteSet(S \cup Row(x, n))
  PROVE  /\ IsFiniteSet(S) /\ IsFiniteSet(S \cup Row(x, n)) /\ Cardinality(S) \in Nat
         /\ Cardinality(S \cup Row(x, n)) = Cardinality(S) + n
<1>1. IsFiniteSet(S) /\ Cardinality(S) \in Nat
  BY FS_Subset, FS_CardinalityType
<1>2. IsFiniteSet(1 .. n) /\ Cardinality(1 .. n) = n
  <2>1. 1 \in Int /\ n \in Int /\ n = IF 1 > n THEN 0 ELSE n - 1 + 1
    OBVIOUS
  <2>2. QED
    BY <2>1, FS_Interval
<1>3. IsFiniteSet({x}) /\ Cardinality({x}) = 1
  BY FS_Singleton
<1>4. IsFiniteSet(Row(x, n)) /\ Cardinality(Row(x, n)) = n
  <2>1. PICK X, N : X = {x} /\ N = 1 .. n
    OBVIOUS
  <2>2. IsFiniteSet(X \X N) /\ Cardinality(X \X N) = Cardinality(X) * Cardinality(N)
    BY <1>2, <1>3, <2>1, FS_Product
  <2>3. Row(x, n) = X \X N /\ Cardinality(X) = 1 /\ Cardinality(N) = n
    BY <1>2, <1>3, <2>1 DEF Row
  <2>4. QED
    BY <2>2, <2>3
<1>5. S \cap Row(x, n) = {}
  BY DEF Row
<1>6. Cardinality({}) = 0
  BY FS_EmptySet
<1>7. IsFiniteSet(S \cup Row(x, n))
      /\ Cardinality(S \cup Row(x, n)) = Cardinality(S) + Cardinality(Row(x, n)) - Cardinality(S \cap Row(x, n))
  BY <1>1, <1>4, FS_Union
<1>8. Cardinality(S \cap Row(x, n)) = 0
  BY <1>5, <1>6
<1>9. Cardinality(S \cup Row(x, n)) = Cardinality(S) + n
  BY <1>1, <1>4, <1>7, <1>8
<1>10. QED
  BY <1>1, <1>7, <1>9

\* The steps of a call and of a task are numbers.
LEMMA WeightsAre ==
  /\ \A call \in CallRecord : Weight(call) \in Nat /\ Weight(call) >= 1
  /\ \A task \in Task : TaskWeight(task) \in Nat
<1>1. ASSUME NEW call \in CallRecord PROVE Weight(call) \in Nat /\ Weight(call) >= 1
  <2>1. Before(call.pc) \in Nat
    BY DEF Before
  <2>2. QED
    BY <2>1 DEF Weight
<1>2. QED
  BY <1>1 DEF TaskWeight

\* The steps of the other calls.
RestSteps(s, p) == UNION {Row(q, Weight(At(s, q))) : q \in CallsOf(s) \ {p}}

\* The steps of the calls are those of one and of the rest.
LEMMA CallRows ==
  ASSUME NEW s, NEW p \in CallsOf(s)
  PROVE  /\ CallSteps(s) = RestSteps(s, p) \cup Row(p, Weight(At(s, p)))
         /\ \A e \in RestSteps(s, p) : e[1] # p
BY DEF CallSteps, RestSteps, Row

\* One call changes.
LEMMA StepsChanged ==
  ASSUME NEW s \in Stacks, NEW r \in Stacks, CallsOf(r) = CallsOf(s), NEW p \in CallsOf(s),
         \A q \in CallsOf(s) : q # p => At(r, q) = At(s, q),
         IsFiniteSet(CallSteps(s))
  PROVE  /\ IsFiniteSet(CallSteps(r))
         /\ Cardinality(CallSteps(s)) \in Nat /\ Cardinality(CallSteps(r)) \in Nat
         /\ Cardinality(CallSteps(r)) + Weight(At(s, p)) = Cardinality(CallSteps(s)) + Weight(At(r, p))
<1>1. RestSteps(r, p) = RestSteps(s, p)
  BY DEF RestSteps
<1>2. Weight(At(s, p)) \in Nat /\ Weight(At(r, p)) \in Nat
  BY CallsAre, WeightsAre
<1> DEFINE S == RestSteps(s, p)
<1>3. /\ CallSteps(s) = S \cup Row(p, Weight(At(s, p)))
      /\ CallSteps(r) = S \cup Row(p, Weight(At(r, p)))
      /\ \A e \in S : e[1] # p
  BY <1>1, CallRows
<1> HIDE DEF S
<1>4. /\ IsFiniteSet(S) /\ Cardinality(S) \in Nat
      /\ Cardinality(CallSteps(s)) = Cardinality(S) + Weight(At(s, p))
  BY <1>2, <1>3, RowAdded
<1>5. IsFiniteSet(CallSteps(r)) /\ Cardinality(CallSteps(r)) = Cardinality(S) + Weight(At(r, p))
  BY <1>2, <1>3, <1>4, RowAdded
<1>6. QED
  BY <1>2, <1>4, <1>5

\* There is one call more.
LEMMA StepsAdded ==
  ASSUME NEW s \in Stacks, NEW r \in Stacks, NEW p, p \notin CallsOf(s), CallsOf(r) = CallsOf(s) \cup {p},
         \A q \in CallsOf(s) : At(r, q) = At(s, q),
         IsFiniteSet(CallSteps(s)) \/ IsFiniteSet(CallSteps(r))
  PROVE  /\ IsFiniteSet(CallSteps(s)) /\ IsFiniteSet(CallSteps(r)) /\ Cardinality(CallSteps(s)) \in Nat
         /\ Cardinality(CallSteps(r)) = Cardinality(CallSteps(s)) + Weight(At(r, p))
<1>1. CallsOf(r) \ {p} = CallsOf(s)
  OBVIOUS
<1>2. RestSteps(r, p) = CallSteps(s)
  BY <1>1 DEF RestSteps, CallSteps, Row
<1>3. Weight(At(r, p)) \in Nat
  BY CallsAre, WeightsAre
<1>4. CallSteps(r) = CallSteps(s) \cup Row(p, Weight(At(r, p))) /\ \A e \in CallSteps(s) : e[1] # p
  BY <1>2, CallRows
<1>5. QED
  BY <1>3, <1>4, RowAdded

\* There is one task more.
LEMMA TaskStepsAdded ==
  ASSUME NEW tasks \in SUBSET Task, NEW task \in Task, task \notin tasks,
         IsFiniteSet(TaskSteps(tasks)) \/ IsFiniteSet(TaskSteps(tasks \cup {task}))
  PROVE  /\ IsFiniteSet(TaskSteps(tasks)) /\ IsFiniteSet(TaskSteps(tasks \cup {task}))
         /\ Cardinality(TaskSteps(tasks)) \in Nat
         /\ Cardinality(TaskSteps(tasks \cup {task})) = Cardinality(TaskSteps(tasks)) + TaskWeight(task)
<1>1. TaskSteps(tasks \cup {task}) = TaskSteps(tasks) \cup Row(task, TaskWeight(task))
      /\ \A e \in TaskSteps(tasks) : e[1] # task
  BY DEF TaskSteps, Row
<1>2. TaskWeight(task) \in Nat
  BY WeightsAre
<1>3. PICK T, U : T = TaskSteps(tasks) /\ U = TaskSteps(tasks \cup {task})
  OBVIOUS
<1>4. /\ U = T \cup Row(task, TaskWeight(task)) /\ \A e \in T : e[1] # task
      /\ IsFiniteSet(T) \/ IsFiniteSet(U)
  BY <1>1, <1>3
<1>5. IsFiniteSet(T) /\ IsFiniteSet(U) /\ Cardinality(T) \in Nat
      /\ Cardinality(U) = Cardinality(T) + TaskWeight(task)
  BY <1>2, <1>4, RowAdded
<1>6. QED
  BY <1>3, <1>5

\* A call ends, and with it its steps.
LEMMA StepsEnded ==
  ASSUME NEW s \in Stacks, NEW tasks \in SUBSET Task, TreeOK(s, tasks),
         NEW t \in Threads, s[t] # <<>>, Last(s[t]).waits = FALSE,
         NEW failed \in BOOLEAN, NEW snapshot \in Nat,
         IsFiniteSet(CallSteps(s))
  PROVE  /\ IsFiniteSet(CallSteps(Ending(s, t, failed, snapshot)))
         /\ Cardinality(CallSteps(Ending(s, t, failed, snapshot))) \in Nat
         /\ Cardinality(CallSteps(s)) \in Nat
         /\ Cardinality(CallSteps(Ending(s, t, failed, snapshot))) < Cardinality(CallSteps(s))
<1> DEFINE r == Popping(s, t)
           me == TopOf(s, t)
           o == Last(s[t]).owner
<1>1. /\ r \in Stacks /\ CallsOf(r) = CallsOf(s) \ {me} /\ \A p \in CallsOf(r) : At(r, p) = At(s, p)
  BY Popped
<1>2. me \in CallsOf(s)
  BY TopIs
<1>3. o # NoOwner => o \in CallsOf(r) /\ At(s, o) \in CallRecord /\ At(r, o) = At(s, o)
  BY TreePopped
<1>4. Weight(At(s, me)) \in Nat /\ Weight(At(s, me)) >= 1
  BY <1>2, CallsAre, WeightsAre
<1> HIDE DEF r, me
<1>5. /\ IsFiniteSet(CallSteps(r)) /\ Cardinality(CallSteps(r)) \in Nat
      /\ Cardinality(CallSteps(s)) = Cardinality(CallSteps(r)) + Weight(At(s, me))
  <2>1. me \notin CallsOf(r) /\ CallsOf(s) = CallsOf(r) \cup {me} /\ \A p \in CallsOf(r) : At(s, p) = At(r, p)
    BY <1>1, <1>2
  <2>2. QED
    BY <2>1, <1>1, StepsAdded
<1> HIDE DEF o
<1>6. CASE o = NoOwner
  BY <1>4, <1>5, <1>6 DEF Ending, r, o
<1>7. CASE o # NoOwner
  <2> DEFINE answered == [At(s, o) EXCEPT !.waits = FALSE, !.failed = failed, !.snapshot = snapshot]
             q == Changing(r, o, answered)
  <2>1. answered \in CallRecord /\ answered.pc = At(s, o).pc /\ answered.cache = At(s, o).cache
    BY <1>3, <1>7 DEF CallRecord
  <2>2. Weight(answered) = Weight(At(r, o))
    BY <2>1, <1>3, <1>7 DEF Weight
  <2> HIDE DEF answered
  <2>3. /\ q \in Stacks /\ CallsOf(q) = CallsOf(r) /\ At(q, o) = answered
        /\ \A p \in CallsOf(r) : p # o => At(q, p) = At(r, p)
    BY <2>1, <1>1, <1>3, <1>7, Changed
  <2> HIDE DEF q
  <2>4. Weight(At(r, o)) \in Nat
    BY <1>3, <1>7, WeightsAre
  <2>5. /\ IsFiniteSet(CallSteps(q)) /\ Cardinality(CallSteps(q)) \in Nat
        /\ Cardinality(CallSteps(q)) + Weight(At(r, o)) = Cardinality(CallSteps(r)) + Weight(At(q, o))
    BY <2>3, <1>1, <1>3, <1>5, <1>7, StepsChanged
  <2>6. Cardinality(CallSteps(q)) = Cardinality(CallSteps(r))
    BY <2>2, <2>3, <2>4, <2>5, <1>5
  <2>7. Ending(s, t, failed, snapshot) = q
    BY <1>7 DEF Ending, r, o, q, answered
  <2>8. QED
    BY <2>5, <2>6, <2>7, <1>4, <1>5
<1>8. QED
  BY <1>6, <1>7

----------------------------------------------------------------------------
(* What each action does to the calls and the tasks.                        *)

Turn(t) == Over(t) \/ Further(t) \/ Gives(t) \/ Asks(t) \/ Steals(t)

\* The steps of a call of a cache fall as it goes on.
LEMMA WeightsFall ==
  ASSUME NEW call, call.cache \in Caches
  PROVE  LET rest == IF call.cache = "terms" THEN 3 ELSE 9
         IN  /\ call.pc = "reading" => Weight(call) = rest + 5
             /\ call.pc = "looking" => Weight(call) = rest + 4
             /\ call.pc = "queueing" => Weight(call) = rest + 3
             /\ call.pc = "waiting" => Weight(call) = rest + 2
             /\ call.pc = "inside" => Weight(call) = rest + 1
             /\ call.pc = "joining" => Weight(call) = 1
<1>1. call.cache # "scan" /\ call.cache # "words"
  BY DEF Caches
<1>2. /\ Before("reading") = 5 /\ Before("looking") = 4 /\ Before("queueing") = 3
      /\ Before("waiting") = 2 /\ Before("inside") = 1
  BY DEF Before
<1>3. QED
  BY <1>1, <1>2 DEF Weight

\* The innermost call of a thread, in the state there is.
LEMMA LastIs ==
  ASSUME IInv, NEW t \in Threads, stack[t] # <<>>
  PROVE  /\ Top(t) = Last(stack[t]) /\ Last(stack[t]) \in CallRecord
         /\ CallOK(Last(stack[t]), generation, gates, busy)
         /\ Last(stack[t]).pc # "joining" => Last(stack[t]).waits = FALSE
BY State, TopOK DEF Top

\* A call that ends is over.
LEMMA EndsOver ==
  ASSUME IInv, NEW t \in Threads, stack[t] # <<>>, Last(stack[t]).waits = FALSE,
         NEW failed \in BOOLEAN, NEW snapshot \in Nat, NEW cut, Ends(t, failed, snapshot, cut), pool' = pool
  PROVE  Over(t)
BY State, EndsIs DEF Over, StackOK

\* What is kept answers a call, which is over.
LEMMA AnswerOver ==
  ASSUME IInv, NEW t \in Threads, stack[t] # <<>>, Last(stack[t]).waits = FALSE,
         Last(stack[t]).cache \in Caches, Answer(t), pool' = pool
  PROVE  Over(t)
<1> DEFINE last == Last(stack[t])
<1>1. PICK e \in Found(last) : Ends(t, FALSE, e.snapshot, e.cut)
  BY LastIs DEF Answer
<1>2. e \in kept[last.cache]
  BY <1>1 DEF Found
<1>3. e \in Entry
  BY <1>2 DEF IInv, Typed
<1>4. e.snapshot \in Nat /\ FALSE \in BOOLEAN
  BY <1>3 DEF Entry
<1> HIDE DEF last
<1>5. QED
  BY <1>1, <1>4, EndsOver

\* Reading, looking in vain, queueing and taking the gate are the innermost call's.
LEMMA ReadTurn == ASSUME IInv, NEW t \in Threads, Read(t) PROVE Turn(t)
<1> DEFINE last == Last(stack[t])
<1>1. stack[t] # <<>> /\ last.pc = "reading" /\ Top(t) = last /\ pool' = pool
  BY DEF Read, In, Top
<1>2. last \in CallRecord /\ CallOK(last, generation, gates, busy) /\ last.waits = FALSE
  BY <1>1, LastIs
<1>3. last.cache \in Caches
  BY <1>1, <1>2 DEF CallOK, CallRecord, Kinds
<1>4. PICK call : /\ stack' = WithTop(t, call)
                  /\ call = IF last.cache = "terms" THEN [last EXCEPT !.pc = "looking", !.key = generation]
                           ELSE [last EXCEPT !.pc = "looking", !.epoch = epoch["highlight"]]
  BY <1>1 DEF Read
<1>5. epoch["highlight"] \in Nat
  BY State DEF Epochs
<1>6. call \in CallRecord
  BY <1>2, <1>4, <1>5, State DEF CallRecord, Pcs
<1>7. call.pc = "looking" /\ call.cache = last.cache /\ call.owner = last.owner /\ call.waits = FALSE
  BY <1>2, <1>4 DEF CallRecord
<1> HIDE DEF last
<1>8. Weight(call) < Weight(last)
  BY <1>1, <1>3, <1>7, WeightsFall
<1>9. stack' = Topped(stack, t, call)
  BY <1>4, State
<1>10. QED
  BY <1>1, <1>2, <1>6, <1>7, <1>8, <1>9 DEF Turn, Further, Becomes, last

LEMMA LookTurn == ASSUME IInv, NEW t \in Threads, Look(t) PROVE Turn(t)
<1> DEFINE last == Last(stack[t])
<1>1. stack[t] # <<>> /\ last.pc = "looking" /\ Top(t) = last /\ pool' = pool
  BY DEF Look, In, Top
<1>2. last \in CallRecord /\ CallOK(last, generation, gates, busy) /\ last.waits = FALSE
  BY <1>1, LastIs
<1>3. last.cache \in Caches
  BY <1>1, <1>2 DEF CallOK, CallRecord, Kinds
<1>4. CASE Answer(t)
  BY <1>1, <1>2, <1>3, <1>4, AnswerOver DEF Turn
<1>5. CASE stack' = WithTop(t, [Top(t) EXCEPT !.pc = "queueing"])
  <2>1. PICK call : call = [last EXCEPT !.pc = "queueing"] /\ stack' = WithTop(t, call)
    BY <1>1, <1>5
  <2>2. call \in CallRecord
    BY <1>2, <2>1 DEF CallRecord, Pcs
  <2>3. call.pc = "queueing" /\ call.cache = last.cache /\ call.owner = last.owner /\ call.waits = FALSE
    BY <1>2, <2>1 DEF CallRecord
  <2> HIDE DEF last
  <2>4. Weight(call) < Weight(last)
    BY <1>1, <1>3, <2>3, WeightsFall
  <2>5. stack' = Topped(stack, t, call)
    BY <2>1, State
  <2>6. QED
    BY <1>1, <1>2, <2>2, <2>3, <2>4, <2>5 DEF Turn, Further, Becomes, last
<1>6. QED
  BY <1>4, <1>5 DEF Look

LEMMA EnterTurn == ASSUME IInv, NEW t \in Threads, Enter(t) PROVE Turn(t)
<1> DEFINE last == Last(stack[t])
           live == gates[last.cache] \ Idle(last.cache)
           same == {g \in live : g.key = last.key}
           mine == IF same = {} THEN [key |-> last.key, work |-> NewWork] ELSE CHOOSE g \in same : TRUE
<1>1. stack[t] # <<>> /\ last.pc = "queueing" /\ Top(t) = last /\ pool' = pool
  BY DEF Enter, In, Top
<1>2. stack' = WithTop(t, [last EXCEPT !.pc = "waiting", !.work = mine.work])
  BY <1>1 DEF Enter
<1>3. last \in CallRecord /\ CallOK(last, generation, gates, busy) /\ last.waits = FALSE
  BY <1>1, LastIs
<1>4. last.cache \in Caches
  BY <1>1, <1>3 DEF CallOK, CallRecord, Kinds
<1>5. mine.work \in Nat
  <2>1. gates[last.cache] \subseteq GateEntry
    BY <1>4, State
  <2> HIDE DEF last
  <2>2. CASE same = {}
    BY <2>2, NewWorkOK
  <2>3. CASE same # {}
    <3>1. mine \in same
      BY <2>3
    <3>2. mine \in GateEntry
      BY <3>1, <2>1
    <3>3. QED
      BY <3>2 DEF GateEntry
  <2>4. QED
    BY <2>2, <2>3
<1> HIDE DEF mine, live, same
<1>6. PICK call : call = [last EXCEPT !.pc = "waiting", !.work = mine.work] /\ stack' = WithTop(t, call)
  BY <1>2
<1>7. call \in CallRecord
  BY <1>3, <1>5, <1>6 DEF CallRecord, Pcs
<1>8. call.pc = "waiting" /\ call.cache = last.cache /\ call.owner = last.owner /\ call.waits = FALSE
  BY <1>3, <1>6 DEF CallRecord
<1> HIDE DEF last
<1>9. Weight(call) < Weight(last)
  BY <1>1, <1>4, <1>8, WeightsFall
<1>10. stack' = Topped(stack, t, call)
  BY <1>6, State
<1>11. QED
  BY <1>1, <1>3, <1>7, <1>8, <1>9, <1>10 DEF Turn, Further, Becomes, last

LEMMA TakeTurn == ASSUME IInv, NEW t \in Threads, Take(t) PROVE Turn(t)
<1> DEFINE last == Last(stack[t])
<1>1. stack[t] # <<>> /\ last.pc = "waiting" /\ Top(t) = last /\ pool' = pool
  BY DEF Take, In, Top
<1>2. last \in CallRecord /\ CallOK(last, generation, gates, busy) /\ last.waits = FALSE
  BY <1>1, LastIs
<1>3. last.cache \in Caches
  BY <1>1, <1>2 DEF CallOK, CallRecord, Kinds
<1>4. PICK call : call = [last EXCEPT !.pc = "inside"] /\ stack' = WithTop(t, call)
  BY <1>1 DEF Take
<1>5. call \in CallRecord
  BY <1>2, <1>4 DEF CallRecord, Pcs
<1>6. call.pc = "inside" /\ call.cache = last.cache /\ call.owner = last.owner /\ call.waits = FALSE
  BY <1>2, <1>4 DEF CallRecord
<1> HIDE DEF last
<1>7. Weight(call) < Weight(last)
  BY <1>1, <1>3, <1>6, WeightsFall
<1>8. stack' = Topped(stack, t, call)
  BY <1>4, State
<1>9. QED
  BY <1>1, <1>2, <1>5, <1>6, <1>7, <1>8 DEF Turn, Further, Becomes, last

\* A call that gives up its wait for the gate is over.
LEMMA RefusedTurn == ASSUME IInv, NEW t \in Threads, Refused(t) PROVE Turn(t)
<1>1. pool' = pool
  BY DEF Refused
<1>2. QED
  BY <1>1, RefusedEnds DEF Turn, Over

\* A call inside the gate answers, fails, or waits for a scan or a term set.
LEMMA ComputeTurn == ASSUME IInv, NEW t \in Threads, Compute(t) PROVE Turn(t)
<1> DEFINE last == Last(stack[t])
           me == TopOf(stack, t)
           call == [last EXCEPT !.pc = "joining", !.waits = TRUE]
<1>1. stack[t] # <<>> /\ last.pc = "inside" /\ Top(t) = last /\ me = <<t, Len(stack[t])>>
  BY DEF Compute, In, Top, TopOf
<1>2. last \in CallRecord /\ CallOK(last, generation, gates, busy) /\ last.waits = FALSE
  BY <1>1, LastIs
<1>3. last.cache \in Caches /\ (last.owner # NoOwner => last.cache = "terms")
  BY <1>1, <1>2 DEF CallOK, CallRecord, Kinds
<1>4. /\ t \in Callers /\ last.owner = NoOwner => Len(stack[t]) = 1
      /\ t \in Workers => last.owner # NoOwner
      /\ me \in Pairs
  BY <1>1, State, TopOK, TopIs
<1>5. call \in CallRecord
  BY <1>2 DEF CallRecord, Pcs
<1>6. call.pc = "joining" /\ call.waits = TRUE /\ call.cache = last.cache /\ call.owner = last.owner
  BY <1>2 DEF CallRecord
<1>7. \/ Answer(t) /\ pool' = pool
      \/ Ends(t, TRUE, None, FALSE) /\ pool' = pool
      \/ /\ last.cache = "terms"
         /\ stack' = WithTop(t, call) /\ pool' = pool \cup {[cache |-> "scan", owner |-> me]}
      \/ /\ last.cache # "terms"
         /\ stack' = [WithTop(t, call) EXCEPT ![t] = Append(@, Call("terms", me))]
         /\ pool' = pool
  BY <1>1 DEF Compute
<1>8. Weight(last) = (IF last.cache = "terms" THEN 3 ELSE 9) + 1
  BY <1>1, <1>3, WeightsFall
<1> HIDE DEF call, me
<1>9. Weight(call) = 1
  BY <1>6 DEF Weight
<1>10. WithTop(t, call) = Topped(stack, t, call)
  BY State
<1> HIDE DEF last
<1>11. Becomes(t, call)
  BY <1>1, <1>2, <1>5, <1>6 DEF Becomes, last
<1>12. CASE Answer(t) /\ pool' = pool
  BY <1>1, <1>2, <1>3, <1>12, AnswerOver DEF Turn, last
<1>13. CASE Ends(t, TRUE, None, FALSE) /\ pool' = pool
  <2>1. None \in Nat /\ TRUE \in BOOLEAN
    BY DEF None
  <2>2. QED
    BY <2>1, <1>1, <1>2, <1>13, EndsOver DEF Turn, last
<1>14. CASE /\ last.cache = "terms"
            /\ stack' = WithTop(t, call) /\ pool' = pool \cup {[cache |-> "scan", owner |-> me]}
  <2>1. PICK task : task = [cache |-> "scan", owner |-> me]
    OBVIOUS
  <2>2. task \in Task /\ task.cache = "scan" /\ task.owner = me
    BY <2>1, <1>4 DEF Task
  <2>3. \A other \in pool : other.owner # me
    <3>1. me \in CallsOf(stack) /\ At(stack, me) = last
      BY <1>1, State, TopIs DEF me, last
    <3>2. QED
      BY <3>1, <1>2, State, NoChild
  <2>4. TaskWeight(task) = 2 /\ Weight(last) = 4
    BY <2>2, <1>8, <1>14 DEF TaskWeight
  <2>5. Weight(call) + TaskWeight(task) < Weight(last)
    BY <2>4, <1>9
  <2>6. stack' = Topped(stack, t, call) /\ pool' = pool \cup {task} /\ task \notin pool
    BY <2>1, <2>2, <2>3, <1>10, <1>14
  <2>7. Gives(t)
    BY <2>2, <2>5, <2>6, <1>6, <1>11 DEF Gives, me, last
  <2>8. QED
    BY <2>7 DEF Turn
<1>15. CASE /\ last.cache # "terms"
            /\ stack' = [WithTop(t, call) EXCEPT ![t] = Append(@, Call("terms", me))]
            /\ pool' = pool
  <2>1. PICK new : new = Call("terms", me)
    OBVIOUS
  <2>2. new \in CallRecord
    <3>1. epoch["memory"] \in Nat
      BY State DEF Epochs
    <3>2. QED
      BY <2>1, <3>1, <1>4 DEF Call, CallRecord, Kinds, Caches, Pcs, None
  <2>3. new.pc = "reading" /\ new.cache = "terms" /\ new.owner = me /\ new.waits = FALSE
    BY <2>1 DEF Call, Caches, None
  <2>4. Weight(new) = 8
    BY <2>3, WeightsFall DEF Caches
  <2>5. Weight(call) + Weight(new) < Weight(last)
    BY <2>4, <1>8, <1>9, <1>15
  <2>6. t \in Callers /\ Len(stack[t]) = 1
    BY <1>3, <1>4, <1>15 DEF Threads
  <2>7. stack' = Pushing(Topped(stack, t, call), t, new)
    BY <2>1, <1>10, <1>15 DEF Pushing
  <2>8. Asks(t)
    BY <2>2, <2>3, <2>5, <2>6, <2>7, <1>6, <1>11, <1>15 DEF Asks, me, last
  <2>9. QED
    BY <2>8 DEF Turn
<1>16. QED
  BY <1>7, <1>12, <1>13, <1>14, <1>15

\* The words of a search wait for a term set the pool computes.
LEMMA SpreadTurn == ASSUME IInv, NEW t \in Callers, Spread(t) PROVE Turn(t)
<1> DEFINE last == Last(stack[t])
           me == TopOf(stack, t)
<1>1. /\ t \in Threads /\ stack[t] # <<>> /\ last.pc = "running" /\ Top(t) = last /\ last.cache = "words"
      /\ stack' = WithTop(t, [last EXCEPT !.pc = "joining", !.waits = TRUE, !.key = generation])
      /\ pool' = pool \cup {[cache |-> "terms", owner |-> <<t, 1>>]}
  BY DEF Spread, In, Top, Threads
<1>2. last \in CallRecord /\ CallOK(last, generation, gates, busy) /\ last.waits = FALSE
  BY <1>1, LastIs
<1>3. last.owner = NoOwner
  BY <1>1, <1>2 DEF CallOK, Caches
<1>4. me = <<t, 1>> /\ me \in Pairs /\ me \in CallsOf(stack) /\ At(stack, me) = last
  <2>1. Len(stack[t]) = 1
    BY <1>1, <1>3, State, TopOK
  <2>2. QED
    BY <2>1, <1>1, State, TopIs DEF TopOf
<1>5. PICK call : call = [last EXCEPT !.pc = "joining", !.waits = TRUE, !.key = generation]
                  /\ stack' = WithTop(t, call)
  BY <1>1
<1>6. call \in CallRecord
  BY <1>2, <1>5, State DEF CallRecord, Pcs
<1>7. call.pc = "joining" /\ call.waits = TRUE /\ call.cache = "words" /\ call.owner = last.owner
  BY <1>1, <1>2, <1>5 DEF CallRecord
<1>8. PICK task : task = [cache |-> "terms", owner |-> me]
  OBVIOUS
<1>9. task \in Task /\ task.cache = "terms" /\ task.owner = me
  BY <1>4, <1>8 DEF Task
<1>10. \A other \in pool : other.owner # me
  BY <1>2, <1>4, State, NoChild
<1> HIDE DEF last, me
<1>11. Weight(call) = 1 /\ TaskWeight(task) = 9 /\ Weight(last) = 11
  BY <1>1, <1>7, <1>9 DEF Weight, TaskWeight
<1>12. Weight(call) + TaskWeight(task) < Weight(last)
  BY <1>11
<1>13. stack' = Topped(stack, t, call) /\ pool' = pool \cup {task} /\ task \notin pool
  BY <1>1, <1>4, <1>5, <1>8, <1>9, <1>10, State
<1>14. Becomes(t, call)
  BY <1>1, <1>2, <1>6, <1>7 DEF Becomes, last
<1>15. Gives(t)
  BY <1>7, <1>9, <1>12, <1>13, <1>14 DEF Gives, me, last
<1>16. QED
  BY <1>15 DEF Turn

\* A thread of the pool takes a task.
LEMMA StealTurn == ASSUME IInv, NEW t \in Workers, Steal(t) PROVE Turn(t)
<1>1. PICK task \in pool :
        /\ pool' = pool \ {task}
        /\ stack' = [stack EXCEPT ![t] = Append(@, Call(task.cache, task.owner))]
  BY DEF Steal
<1>2. task \in Task /\ task.owner \in Pairs /\ task.cache \in {"terms", "scan"}
  BY State DEF Task
<1>3. PICK new : new = Call(task.cache, task.owner)
  OBVIOUS
<1>4. new \in CallRecord
  <2>1. epoch["memory"] \in Nat
    BY State DEF Epochs
  <2>2. QED
    BY <2>1, <1>2, <1>3, State DEF Call, CallRecord, Kinds, Caches, Pcs, None
<1>5. /\ new.pc = IF task.cache = "terms" THEN "reading" ELSE "running"
      /\ new.cache = task.cache /\ new.owner = task.owner /\ new.waits = FALSE
  BY <1>2, <1>3 DEF Call, Caches, None
<1>6. Weight(new) < TaskWeight(task)
  <2>1. CASE task.cache = "terms"
    BY <2>1, <1>5, WeightsFall DEF TaskWeight, Caches
  <2>2. CASE task.cache = "scan"
    BY <2>2, <1>5 DEF TaskWeight, Weight
  <2>3. QED
    BY <2>1, <2>2, <1>2
<1>7. stack' = Pushing(stack, t, new)
  BY <1>1, <1>3 DEF Pushing
<1>8. Steals(t)
  BY <1>1, <1>4, <1>5, <1>6, <1>7 DEF Steals
<1>9. QED
  BY <1>8 DEF Turn

\* A scan is over when it ran.
LEMMA ScanTurn == ASSUME IInv, NEW t \in Workers, Scan(t) PROVE Turn(t)
<1> DEFINE last == Last(stack[t])
<1>1. /\ t \in Threads /\ stack[t] # <<>> /\ last.pc = "running" /\ Top(t) = last /\ pool' = pool
  BY DEF Scan, In, Top, Threads
<1>2. /\ last.waits = FALSE /\ last.owner # NoOwner
      /\ At(stack, last.owner).key \in Nat
  BY <1>1, State, TopOK
<1>3. \/ Ends(t, FALSE, At(stack, last.owner).key, FALSE)
      \/ Ends(t, TRUE, None, FALSE)
  BY <1>1 DEF Scan, Is, At
<1>4. None \in Nat
  BY DEF None
<1> HIDE DEF last
<1>5. CASE Ends(t, FALSE, At(stack, last.owner).key, FALSE)
  <2>1. PICK key \in Nat : key = At(stack, last.owner).key
    BY <1>2
  <2>2. Ends(t, FALSE, key, FALSE)
    BY <1>5, <2>1
  <2>3. QED
    BY <1>1, <1>2, <2>1, <2>2, EndsOver DEF Turn, last
<1>6. CASE Ends(t, TRUE, None, FALSE)
  BY <1>1, <1>2, <1>4, <1>6, EndsOver DEF Turn, last
<1>7. QED
  BY <1>3, <1>5, <1>6

\* A call that has what it waited for is over.
LEMMA JoinedTurn == ASSUME IInv, NEW t \in Threads, Joined(t) PROVE Turn(t)
<1> DEFINE last == Last(stack[t])
<1>1. /\ stack[t] # <<>> /\ Top(t) = last /\ ~last.waits /\ pool' = pool
  BY DEF Joined, In, Top
<1>2. last \in CallRecord
  BY <1>1, LastIs
<1>3. last.waits = FALSE /\ last.failed \in BOOLEAN /\ last.snapshot \in Nat /\ last.key \in Nat /\ None \in Nat
  BY <1>1, <1>2 DEF CallRecord, None
<1>4. PICK cut : cut = Cancelled(t)
  OBVIOUS
<1>5. \/ Computed(t, last.snapshot, FALSE) \/ Computed(t, last.key, cut) \/ Fails(t)
      \/ Ends(t, last.failed, last.snapshot, FALSE)
  BY <1>1, <1>4 DEF Joined
<1> HIDE DEF last
<1>6. \/ Ends(t, FALSE, last.snapshot, FALSE) \/ Ends(t, FALSE, last.key, cut) \/ Ends(t, TRUE, None, FALSE)
      \/ Ends(t, last.failed, last.snapshot, FALSE)
  BY <1>5 DEF Computed, Fails
<1>7. FALSE \in BOOLEAN /\ TRUE \in BOOLEAN
  OBVIOUS
<1>8. Over(t)
  BY <1>1, <1>3, <1>6, <1>7, EndsOver DEF last
<1>9. QED
  BY <1>8 DEF Turn

\* A step of a thread is one of these.
LEMMA StepTurns == ASSUME IInv, NEW t \in Threads, Step(t) PROVE Turn(t)
BY ReadTurn, LookTurn, EnterTurn, TakeTurn, RefusedTurn, ComputeTurn, JoinedTurn, SpreadTurn, StealTurn, ScanTurn
   DEF Step

\* A caller begins a request.
LEMMA BeginStarts == ASSUME IInv, NEW c \in Callers, NEW cache \in Requests[c], Begin(c, cache) PROVE Starts(c)
<1>1. /\ stack[c] = <<>> /\ stack' = [stack EXCEPT ![c] = <<Call(cache, NoOwner)>>] /\ pool' = pool
  BY DEF Begin
<1>2. cache \in {"patterns", "term_sets", "terms", "words"}
  BY SearchCachesAssumption
<1>3. PICK new : new = Call(cache, NoOwner)
  OBVIOUS
<1>4. new \in CallRecord
  <2>1. epoch["memory"] \in Nat
    BY State DEF Epochs
  <2>2. QED
    BY <2>1, <1>2, <1>3, State DEF Call, CallRecord, Kinds, Caches, Pcs, None
<1>5. /\ new.pc = IF cache \in Caches THEN "reading" ELSE "running"
      /\ new.cache = cache /\ new.owner = NoOwner /\ new.waits = FALSE
  BY <1>2, <1>3 DEF Call, None
<1>6. Weight(new) <= 14
  <2>1. CASE cache \in Caches
    BY <2>1, <1>5, WeightsFall
  <2>2. CASE cache \notin Caches
    <3>1. cache = "words"
      BY <2>2, <1>2 DEF Caches
    <3>2. QED
      BY <3>1, <1>5 DEF Weight, Caches
  <2>3. QED
    BY <2>1, <2>2
<1>7. stack' = Pushing(stack, c, new)
  <2>1. Append(stack[c], new) = <<new>>
    BY <1>1
  <2>2. QED
    BY <1>1, <1>3, <2>1 DEF Pushing
<1>8. QED
  BY <1>1, <1>2, <1>4, <1>5, <1>6, <1>7 DEF Starts

----------------------------------------------------------------------------
(* The invariant, and that steps get fewer.                                 *)

\* What is known of the calls and of the tasks, in the state there is.
LEMMA Going ==
  ASSUME IInv, GInv
  PROVE  /\ stack \in Stacks /\ pool \in SUBSET Task /\ TreeOK(stack, pool)
         /\ GoOK(stack, pool, NoOwner)
         /\ IsFiniteSet(CallSteps(stack)) /\ IsFiniteSet(TaskSteps(pool))
         /\ Cardinality(CallSteps(stack)) \in Nat /\ Cardinality(TaskSteps(pool)) \in Nat
BY State, FS_CardinalityType DEF GInv, StepsFinite, StackOK

\* A call is over.
LEMMA OverFewer ==
  ASSUME IInv, GInv, NEW t \in Threads, Over(t)
  PROVE  GInv' /\ StepsYet \in Nat /\ StepsYet' < StepsYet
<1>1. PICK failed \in BOOLEAN, snapshot \in Nat : stack' = Ending(stack, t, failed, snapshot)
  BY DEF Over
<1>2. stack[t] # <<>> /\ Last(stack[t]).waits = FALSE /\ pool' = pool
  BY DEF Over
<1>3. GoOK(stack', pool', NoOwner)
  BY <1>1, <1>2, Going, GoEnded
<1>4. /\ IsFiniteSet(CallSteps(stack')) /\ Cardinality(CallSteps(stack')) \in Nat
      /\ Cardinality(CallSteps(stack')) < Cardinality(CallSteps(stack))
  BY <1>1, <1>2, Going, StepsEnded
<1>5. QED
  BY <1>2, <1>3, <1>4, Going DEF GInv, StepsFinite, StepsYet

\* The innermost call of a thread becomes another: the steps that leaves.
LEMMA BecomesSteps ==
  ASSUME IInv, GInv, NEW t \in Threads, NEW call, Becomes(t, call)
  PROVE  LET r == Topped(stack, t, call)
         IN  /\ r \in Stacks /\ CallsOf(r) = CallsOf(stack) /\ At(r, TopOf(stack, t)) = call
             /\ \A u \in Threads : Len(r[u]) = Len(stack[u])
             /\ TopOf(stack, t) \in CallsOf(stack)
             /\ Weight(call) \in Nat /\ Weight(Last(stack[t])) \in Nat
             /\ IsFiniteSet(CallSteps(r)) /\ Cardinality(CallSteps(r)) \in Nat
             /\ Cardinality(CallSteps(r)) + Weight(Last(stack[t])) =
                  Cardinality(CallSteps(stack)) + Weight(call)
<1> DEFINE r == Topped(stack, t, call)
           me == TopOf(stack, t)
<1>1. stack[t] # <<>> /\ call \in CallRecord
  BY DEF Becomes
<1>2. /\ r \in Stacks /\ CallsOf(r) = CallsOf(stack) /\ At(r, me) = call
      /\ \A u \in Threads : Len(r[u]) = Len(stack[u])
      /\ \A p \in CallsOf(stack) : p # me => At(r, p) = At(stack, p)
  BY <1>1, Going, Replaced
<1>3. me \in CallsOf(stack) /\ At(stack, me) = Last(stack[t]) /\ Last(stack[t]) \in CallRecord
  BY <1>1, Going, TopIs
<1>4. Weight(call) \in Nat /\ Weight(Last(stack[t])) \in Nat
  BY <1>1, <1>3, WeightsAre
<1> HIDE DEF r, me
<1>5. /\ IsFiniteSet(CallSteps(r)) /\ Cardinality(CallSteps(r)) \in Nat
      /\ Cardinality(CallSteps(r)) + Weight(At(stack, me)) = Cardinality(CallSteps(stack)) + Weight(At(r, me))
  BY <1>2, <1>3, Going, StepsChanged
<1>6. QED
  BY <1>2, <1>3, <1>4, <1>5 DEF r, me

\* It goes on.
LEMMA FurtherFewer ==
  ASSUME IInv, GInv, NEW t \in Threads, Further(t)
  PROVE  GInv' /\ StepsYet \in Nat /\ StepsYet' < StepsYet
<1>1. PICK call : /\ Becomes(t, call) /\ call.waits = FALSE /\ stack' = Topped(stack, t, call)
                  /\ Weight(call) < Weight(Last(stack[t]))
  BY DEF Further
<1>2. pool' = pool
  BY DEF Further
<1>3. GoOK(stack', pool', NoOwner)
  BY <1>1, <1>2, Going, GoTopped DEF Becomes
<1>4. /\ Weight(call) \in Nat /\ Weight(Last(stack[t])) \in Nat
      /\ IsFiniteSet(CallSteps(stack')) /\ Cardinality(CallSteps(stack')) \in Nat
      /\ Cardinality(CallSteps(stack')) + Weight(Last(stack[t])) =
           Cardinality(CallSteps(stack)) + Weight(call)
  BY <1>1, BecomesSteps
<1>5. Cardinality(CallSteps(stack')) < Cardinality(CallSteps(stack))
  BY <1>1, <1>4, Going
<1>6. QED
  BY <1>2, <1>3, <1>4, <1>5, Going DEF GInv, StepsFinite, StepsYet

\* It gives the pool a task.
LEMMA GivesFewer ==
  ASSUME IInv, GInv, NEW t \in Threads, Gives(t)
  PROVE  GInv' /\ StepsYet \in Nat /\ StepsYet' < StepsYet
<1>1. PICK call, task :
        /\ Becomes(t, call) /\ call.waits = TRUE /\ stack' = Topped(stack, t, call)
        /\ task \in Task /\ task \notin pool /\ pool' = pool \cup {task}
        /\ task.owner = TopOf(stack, t) /\ (task.cache = "terms" => call.cache = "words")
        /\ Weight(call) + TaskWeight(task) < Weight(Last(stack[t]))
  BY DEF Gives
<1>2. /\ At(stack', TopOf(stack, t)) = call
      /\ Weight(call) \in Nat /\ Weight(Last(stack[t])) \in Nat
      /\ IsFiniteSet(CallSteps(stack')) /\ Cardinality(CallSteps(stack')) \in Nat
      /\ Cardinality(CallSteps(stack')) + Weight(Last(stack[t])) =
           Cardinality(CallSteps(stack)) + Weight(call)
      /\ stack' \in Stacks
  BY <1>1, BecomesSteps
<1>3. GoOK(stack', pool, task.owner)
  BY <1>1, Going, GoTopped DEF Becomes
<1>4. Served(stack', task.cache, task.owner)
  BY <1>1, <1>2 DEF Served
<1>5. GoOK(stack', pool', NoOwner)
  BY <1>1, <1>2, <1>3, <1>4, GoTask
<1>6. /\ IsFiniteSet(TaskSteps(pool')) /\ Cardinality(TaskSteps(pool')) \in Nat
      /\ Cardinality(TaskSteps(pool')) = Cardinality(TaskSteps(pool)) + TaskWeight(task)
  BY <1>1, Going, TaskStepsAdded, FS_CardinalityType
<1>7. TaskWeight(task) \in Nat
  BY <1>1, WeightsAre
<1>8. Cardinality(CallSteps(stack')) + Cardinality(TaskSteps(pool')) <
        Cardinality(CallSteps(stack)) + Cardinality(TaskSteps(pool))
  BY <1>1, <1>2, <1>6, <1>7, Going
<1>9. QED
  BY <1>2, <1>5, <1>6, <1>8, Going DEF GInv, StepsFinite, StepsYet

\* It calls for a term set.
LEMMA AsksFewer ==
  ASSUME IInv, GInv, NEW t \in Threads, Asks(t)
  PROVE  GInv' /\ StepsYet \in Nat /\ StepsYet' < StepsYet
<1>1. PICK call, new :
        /\ Becomes(t, call) /\ call.waits = TRUE
        /\ t \in Callers /\ Len(stack[t]) = 1
        /\ new \in CallRecord /\ new.waits = FALSE /\ new.cache = "terms" /\ new.owner = TopOf(stack, t)
        /\ stack' = Pushing(Topped(stack, t, call), t, new) /\ pool' = pool
        /\ Weight(call) + Weight(new) < Weight(Last(stack[t]))
  BY DEF Asks
<1>2. PICK r : r = Topped(stack, t, call)
  OBVIOUS
<1>3. /\ r \in Stacks /\ CallsOf(r) = CallsOf(stack) /\ TopOf(stack, t) \in CallsOf(r)
      /\ Len(r[t]) = 1
      /\ Weight(call) \in Nat /\ Weight(Last(stack[t])) \in Nat
      /\ IsFiniteSet(CallSteps(r)) /\ Cardinality(CallSteps(r)) \in Nat
      /\ Cardinality(CallSteps(r)) + Weight(Last(stack[t])) =
           Cardinality(CallSteps(stack)) + Weight(call)
  BY <1>1, <1>2, BecomesSteps
<1>4. GoOK(r, pool, TopOf(stack, t))
  BY <1>1, <1>2, Going, GoTopped DEF Becomes
<1>5. TreeOK(r, pool)
  <2>1. stack[t] # <<>> /\ call.owner = Last(stack[t]).owner
    BY <1>1 DEF Becomes
  <2>2. Last(stack[t]).owner # NoOwner => Len(stack[t]) = 2
    BY <1>1, <2>1, State, TopOK
  <2>3. call.owner = NoOwner
    BY <1>1, <2>1, <2>2
  <2>4. QED
    BY <1>1, <1>2, <2>3, Going, TreeReplaced DEF Becomes
<1>6. t \notin Workers
  BY <1>1, SearchCachesAssumption
<1>7. r[t] # <<>>
  <2>1. Len(r[t]) # 0
    BY <1>3
  <2>2. QED
    BY <2>1, EmptySeq
<1>8. GoOK(stack', pool', NoOwner)
  BY <1>1, <1>2, <1>3, <1>4, <1>5, <1>6, <1>7, Going, GoPushed
<1>9. PICK me : me = <<t, Len(r[t]) + 1>>
  OBVIOUS
<1>10. /\ stack' \in Stacks /\ CallsOf(stack') = CallsOf(r) \cup {me} /\ me \notin CallsOf(r)
       /\ At(stack', me) = new /\ \A p \in CallsOf(r) : At(stack', p) = At(r, p)
  <2>1. stack' = Pushing(r, t, new) /\ r \in Stacks /\ new \in CallRecord
    BY <1>1, <1>2, <1>3
  <2>2. QED
    BY <1>9, <2>1, Pushed
<1>11. /\ IsFiniteSet(CallSteps(stack')) /\ Cardinality(CallSteps(stack')) \in Nat
       /\ Cardinality(CallSteps(stack')) = Cardinality(CallSteps(r)) + Weight(new)
  BY <1>3, <1>10, StepsAdded, FS_CardinalityType
<1>12. Weight(new) \in Nat
  BY <1>1, WeightsAre
<1>13. Cardinality(CallSteps(stack')) < Cardinality(CallSteps(stack))
  BY <1>1, <1>3, <1>11, <1>12, Going
<1>14. QED
  BY <1>1, <1>8, <1>11, <1>13, Going DEF GInv, StepsFinite, StepsYet

\* A thread of the pool takes a task.
LEMMA StealsFewer ==
  ASSUME IInv, GInv, NEW t \in Threads, Steals(t)
  PROVE  GInv' /\ StepsYet \in Nat /\ StepsYet' < StepsYet
<1>1. PICK task, new :
        /\ t \in Workers /\ task \in pool /\ pool' = pool \ {task}
        /\ new \in CallRecord /\ new.waits = FALSE /\ new.cache = task.cache /\ new.owner = task.owner
        /\ stack' = Pushing(stack, t, new)
        /\ Weight(new) < TaskWeight(task)
  BY DEF Steals
<1>2. GoOK(stack, pool', task.owner)
  BY <1>1, Going, GoTaken
<1>3. TreeOK(stack, pool') /\ pool' \in SUBSET Task
  BY <1>1, Going, TreeTaken
<1>4. task.owner \in CallsOf(stack) /\ Served(stack, task.cache, task.owner)
  BY <1>1, Going, OwnersAre DEF OwnedIn, GoOK, RunsWhere
<1>5. t \notin Callers
  BY <1>1, SearchCachesAssumption
<1>6. GoOK(stack', pool', NoOwner)
  BY <1>1, <1>2, <1>3, <1>4, <1>5, Going, GoPushed
<1>7. PICK me : me = <<t, Len(stack[t]) + 1>>
  OBVIOUS
<1>8. /\ stack' \in Stacks /\ CallsOf(stack') = CallsOf(stack) \cup {me} /\ me \notin CallsOf(stack)
      /\ At(stack', me) = new /\ \A p \in CallsOf(stack) : At(stack', p) = At(stack, p)
  BY <1>1, <1>7, Going, Pushed
<1>9. /\ IsFiniteSet(CallSteps(stack')) /\ Cardinality(CallSteps(stack')) \in Nat
      /\ Cardinality(CallSteps(stack')) = Cardinality(CallSteps(stack)) + Weight(new)
  BY <1>8, Going, StepsAdded, FS_CardinalityType
<1>10. /\ IsFiniteSet(TaskSteps(pool')) /\ Cardinality(TaskSteps(pool')) \in Nat
       /\ Cardinality(TaskSteps(pool)) = Cardinality(TaskSteps(pool')) + TaskWeight(task)
  <2>1. pool = pool' \cup {task} /\ task \notin pool' /\ task \in Task
    BY <1>1, Going
  <2>2. QED
    BY <2>1, <1>3, Going, TaskStepsAdded
<1>11. Weight(new) \in Nat /\ TaskWeight(task) \in Nat
  BY <1>1, Going, WeightsAre
<1>12. Cardinality(CallSteps(stack')) + Cardinality(TaskSteps(pool')) <
         Cardinality(CallSteps(stack)) + Cardinality(TaskSteps(pool))
  BY <1>1, <1>9, <1>10, <1>11, Going
<1>13. QED
  BY <1>6, <1>9, <1>10, <1>12, Going DEF GInv, StepsFinite, StepsYet

\* A caller begins a request.
LEMMA StartsMore ==
  ASSUME IInv, GInv, NEW c \in Callers, Starts(c)
  PROVE  GInv' /\ StepsYet \in Nat /\ StepsYet' <= StepsYet + 14
<1>1. PICK new :
        /\ stack[c] = <<>>
        /\ new \in CallRecord /\ new.waits = FALSE /\ new.cache \in Requests[c] /\ new.owner = NoOwner
        /\ new.cache # "scan"
        /\ stack' = Pushing(stack, c, new) /\ pool' = pool
        /\ Weight(new) <= 14
  BY DEF Starts
<1>2. c \in Threads /\ c \notin Workers
  BY SearchCachesAssumption DEF Threads
<1>3. NoOwner \notin CallsOf(stack)
  BY Going, CallsAre, PairsAre
<1>4. GoOK(stack', pool', NoOwner)
  BY <1>1, <1>2, <1>3, Going, GoPushed
<1>5. PICK me : me = <<c, Len(stack[c]) + 1>>
  OBVIOUS
<1>6. /\ stack' \in Stacks /\ CallsOf(stack') = CallsOf(stack) \cup {me} /\ me \notin CallsOf(stack)
      /\ At(stack', me) = new /\ \A p \in CallsOf(stack) : At(stack', p) = At(stack, p)
  BY <1>1, <1>2, <1>5, Going, Pushed
<1>7. /\ IsFiniteSet(CallSteps(stack')) /\ Cardinality(CallSteps(stack')) \in Nat
      /\ Cardinality(CallSteps(stack')) = Cardinality(CallSteps(stack)) + Weight(new)
  BY <1>6, Going, StepsAdded, FS_CardinalityType
<1>8. Weight(new) \in Nat
  BY <1>1, WeightsAre
<1>9. QED
  BY <1>1, <1>4, <1>7, <1>8, Going DEF GInv, StepsFinite, StepsYet

\* Each step of a thread leaves fewer.
LEMMA TurnFewer ==
  ASSUME IInv, GInv, NEW t \in Threads, Step(t)
  PROVE  GInv' /\ StepsYet \in Nat /\ StepsYet' < StepsYet
BY StepTurns, OverFewer, FurtherFewer, GivesFewer, AsksFewer, StealsFewer DEF Turn

\* Only a request that begins makes more.
LEMMA OthersMore ==
  ASSUME IInv, GInv, [Next]_vars, ~ThreadStep
  PROVE  /\ GInv' /\ StepsYet \in Nat
         /\ \/ StepsYet' = StepsYet
            \/ requests_left' = requests_left - 1 /\ StepsYet' <= StepsYet + 14
<1>1. StepsYet \in Nat
  BY Going DEF StepsYet
<1>2. ASSUME stack' = stack, pool' = pool
      PROVE  GInv' /\ StepsYet' = StepsYet
  BY <1>2 DEF GInv, StepsYet
<1>3. ASSUME NEW c \in Callers, NEW cache \in Requests[c], Begin(c, cache)
      PROVE  GInv' /\ requests_left' = requests_left - 1 /\ StepsYet' <= StepsYet + 14
  BY <1>3, BeginStarts, StartsMore DEF Begin
<1>4. ASSUME (\E c \in Callers : Cancel(c)) \/ Reload \/ Commit \/ Release \/ UNCHANGED vars
      PROVE  stack' = stack /\ pool' = pool
  BY <1>4 DEF Cancel, Reload, Commit, Release, vars
<1>5. QED
  BY <1>1, <1>2, <1>3, <1>4 DEF Next, ThreadStep

\* Nothing is asked for yet.
LEMMA InitGoing == ASSUME Init PROVE GInv
<1>1. CallsOf(stack) = {} /\ pool = {}
  BY DEF Init, CallsOf
<1>2. CallSteps(stack) = {} /\ TaskSteps(pool) = {}
  BY <1>1 DEF CallSteps, TaskSteps
<1>3. QED
  BY <1>1, <1>2, FS_EmptySet DEF GInv, GoOK, WaitsAsked, RunsWhere, StepsFinite

\* What a request that goes on keeps.
LEMMA NextGoing == ASSUME IInv, GInv, [Next]_vars PROVE GInv'
<1>1. CASE ThreadStep
  BY <1>1, TurnFewer DEF ThreadStep
<1>2. CASE ~ThreadStep
  BY <1>2, OthersMore
<1>3. QED
  BY <1>1, <1>2

\* The calls and the tasks stay such that a request goes on (Step, Begin).
THEOREM GoingInvariant == Spec => [](IInv /\ GInv)
<1>1. Init => IInv /\ GInv
  BY InitOK, InitGoing
<1>2. (IInv /\ GInv) /\ [Next]_vars => (IInv /\ GInv)'
  BY NextOK, NextGoing
<1>3. QED
  BY <1>1, <1>2, PTL DEF Spec

\* Each step of a thread leaves it and the others fewer, and nothing but a request
\* that begins, at most fourteen, makes more: no thread waits, is woken and waits
\* again, computes what another is computing or scans again what was scanned
\* (WorkGate::enter, HighlightCache::pattern and term_set, materialize_term_set).
THEOREM StepsFewer ==
  Spec => [][/\ StepsYet \in Nat
             /\ ThreadStep => StepsYet' < StepsYet
             /\ ~ThreadStep => \/ StepsYet' = StepsYet
                               \/ requests_left' = requests_left - 1 /\ StepsYet' <= StepsYet + 14]_vars
<1> DEFINE Less == /\ StepsYet \in Nat
                   /\ ThreadStep => StepsYet' < StepsYet
                   /\ ~ThreadStep => \/ StepsYet' = StepsYet
                                     \/ requests_left' = requests_left - 1 /\ StepsYet' <= StepsYet + 14
<1>1. ASSUME IInv /\ GInv, [Next]_vars PROVE Less
  <2>1. CASE ThreadStep
    <3>1. StepsYet \in Nat /\ StepsYet' < StepsYet
      BY <1>1, <2>1, TurnFewer DEF ThreadStep
    <3>2. QED
      BY <2>1, <3>1
  <2>2. CASE ~ThreadStep
    BY <1>1, <2>2, OthersMore
  <2>3. QED
    BY <2>1, <2>2
<1>2. IInv /\ GInv /\ [Next]_vars => [Less]_vars
  BY <1>1
<1> HIDE DEF Less
<1>3. Spec => [][Less]_vars
  BY <1>2, GoingInvariant, PTL DEF Spec
<1>4. QED
  BY <1>3 DEF Less

----------------------------------------------------------------------------
(* Some thread always has a step.                                           *)

Stalled == \A t \in Threads : ~GoesOn(t)

\* When no thread goes on, every call waits: at a gate somebody is inside, or for
\* what it asked for, or below such a call; and if a task is left, every thread of
\* the pool has a call.
LEMMA StalledIs ==
  ASSUME IInv, Stalled
  PROVE  /\ \A p \in CallsOf(stack) :
              /\ At(stack, p).pc \in {"waiting", "joining"}
              /\ At(stack, p).pc = "waiting" => At(stack, p).work \in busy
              /\ p = TopOf(stack, p[1]) /\ At(stack, p).pc = "joining" => At(stack, p).waits = TRUE
         /\ \A u \in Workers : pool # {} => stack[u] # <<>>
<1>1. ASSUME NEW p \in CallsOf(stack), p = TopOf(stack, p[1])
      PROVE  /\ At(stack, p).pc \in {"waiting", "joining"}
             /\ At(stack, p).pc = "waiting" => At(stack, p).work \in busy
             /\ At(stack, p).pc = "joining" => At(stack, p).waits = TRUE
  <2>1. PICK t \in Threads : t = p[1] /\ p[2] \in 1 .. Len(stack[t])
    BY State, CallsAre
  <2>2. stack[t] # <<>>
    <3>1. Len(stack[t]) # 0
      BY <2>1, State, CallsAre
    <3>2. QED
      BY <3>1, EmptySeq
  <2>3. At(stack, p) = Top(t) /\ Top(t) \in CallRecord
    BY <1>1, <2>1, <2>2, State, TopIs DEF Top
  <2>4. Top(t).waits \in BOOLEAN
    BY <2>3 DEF CallRecord
  <2>5. ~GoesOn(t)
    BY DEF Stalled
  <2>6. QED
    BY <2>2, <2>3, <2>4, <2>5 DEF GoesOn
<1>2. ASSUME NEW p \in CallsOf(stack), p # TopOf(stack, p[1])
      PROVE  At(stack, p).pc = "joining"
  BY <1>2, State DEF StackOK, TreeOK, ShapeIn
<1>3. ASSUME NEW u \in Workers, pool # {}
      PROVE  stack[u] # <<>>
  <2>1. u \in Threads
    BY DEF Threads
  <2>2. QED
    BY <1>3, <2>1 DEF Stalled, GoesOn
<1>4. QED
  BY <1>1, <1>2, <1>3

\* A call that another waits for is of a term set or a scan; a thread of the pool
\* has only such calls.
LEMMA AskedIs ==
  ASSUME IInv
  PROVE  /\ \A p \in CallsOf(stack) : p[1] \in Workers => At(stack, p).owner # NoOwner
         /\ \A p \in CallsOf(stack) : At(stack, p).owner # NoOwner =>
              /\ At(stack, p).cache \in {"terms", "scan"}
              /\ At(stack, p).owner \in CallsOf(stack) /\ At(stack, At(stack, p).owner).waits = TRUE
              /\ At(stack, p).cache = "scan" <=> At(stack, At(stack, p).owner).cache = "terms"
<1>1. /\ \A p \in CallsOf(stack) : At(stack, p).owner # NoOwner =>
           OwnedIn(stack, At(stack, p).cache, At(stack, p).owner)
      /\ \A p \in CallsOf(stack) : p[1] \in Workers => At(stack, p).owner # NoOwner
  BY State, OwnersAre DEF StackOK
<1>2. ASSUME NEW p \in CallsOf(stack), At(stack, p).owner # NoOwner
      PROVE  /\ At(stack, p).cache \in {"terms", "scan"}
             /\ At(stack, p).owner \in CallsOf(stack) /\ At(stack, At(stack, p).owner).waits = TRUE
             /\ At(stack, p).cache = "scan" <=> At(stack, At(stack, p).owner).cache = "terms"
  <2>1. OwnedIn(stack, At(stack, p).cache, At(stack, p).owner)
    BY <1>1, <1>2
  <2>2. At(stack, p).cache \in {"terms", "scan"}
    BY <1>2, State DEF StackOK, CallsOK, CallOK
  <2>3. PICK o : o = At(stack, p).owner
    OBVIOUS
  <2>4. o \in CallsOf(stack) /\ At(stack, o).waits
    BY <2>1, <2>3 DEF OwnedIn
  <2>5. At(stack, o).waits \in BOOLEAN
    <3>1. At(stack, o) \in CallRecord
      BY <2>4, State, CallsAre
    <3>2. QED
      BY <3>1 DEF CallRecord
  <2>6. At(stack, o).waits = TRUE
    BY <2>4, <2>5
  <2>7. At(stack, p).cache = "scan" <=> At(stack, o).cache = "terms"
    BY <2>1, <2>3 DEF OwnedIn
  <2>8. QED
    BY <2>2, <2>3, <2>4, <2>6, <2>7
<1>3. QED
  BY <1>1, <1>2

\* Below a caller's innermost call there is only one that waits for it.
LEMMA CallerBelow ==
  ASSUME IInv, NEW p \in CallsOf(stack), p[1] \in Callers, p # TopOf(stack, p[1])
  PROVE  At(stack, p).waits = TRUE
<1>1. PICK c \in Threads : c = p[1] /\ p[2] \in 1 .. Len(stack[c]) /\ p = <<c, p[2]>> /\ Len(stack[c]) \in Nat
  BY State, CallsAre
<1>2. p[2] # Len(stack[c])
  BY <1>1 DEF TopOf
<1>3. PICK n \in Nat : n = p[2] + 1 /\ n \in 1 .. Len(stack[c]) /\ n >= 2
  BY <1>1, <1>2
<1>4. PICK q : q = <<c, n>>
  OBVIOUS
<1>5. q \in CallsOf(stack) /\ q[1] = c /\ q[2] = n
  BY <1>3, <1>4, State, CallsAre
<1>6. \/ q[2] = 1 /\ At(stack, q).owner = NoOwner
      \/ q[2] = 2 /\ At(stack, q).owner = <<q[1], 1>>
  BY <1>1, <1>5, State DEF StackOK, TreeOK, ShapeIn
<1>7. n = 2 /\ At(stack, q).owner = <<c, 1>>
  BY <1>3, <1>5, <1>6
<1>8. p[2] = 1
  BY <1>1, <1>3, <1>7
<1>9. At(stack, q).owner = p
  BY <1>1, <1>7, <1>8
<1>10. p # NoOwner
  BY State, CallsAre, PairsAre
<1>11. QED
  BY <1>5, <1>9, <1>10, AskedIs

\* A search over words is of the one caller that asks for words.
LEMMA WordsAre ==
  ASSUME IInv, GInv, OneSpreads, NEW p \in CallsOf(stack), NEW q \in CallsOf(stack),
         At(stack, p).cache = "words", At(stack, q).cache = "words"
  PROVE  p = q
<1>1. ASSUME NEW o \in CallsOf(stack), At(stack, o).cache = "words"
      PROVE  o[1] \in Callers /\ "words" \in Requests[o[1]] /\ o = <<o[1], 1>>
  <2>1. At(stack, o).owner = NoOwner
    BY <1>1, AskedIs
  <2>2. o[1] \in Threads /\ o = <<o[1], o[2]>>
    BY State, CallsAre
  <2>3. o[1] \in Callers
    BY <2>1, <2>2, AskedIs DEF Threads
  <2>4. \/ o[2] = 1 /\ At(stack, o).owner = NoOwner
        \/ o[2] = 2 /\ At(stack, o).owner = <<o[1], 1>>
    BY <2>3, State DEF StackOK, TreeOK, ShapeIn
  <2>5. <<o[1], 1>> # NoOwner
    BY <2>2, PairsAre
  <2>6. o[2] = 1
    BY <2>1, <2>4, <2>5
  <2>7. At(stack, o).cache \in Requests[o[1]]
    BY <2>3, <2>6, Going DEF GoOK, RunsWhere
  <2>8. QED
    BY <1>1, <2>2, <2>3, <2>6, <2>7
<1>2. p[1] = q[1]
  BY <1>1 DEF OneSpreads
<1>3. QED
  BY <1>1, <1>2

\* Without scans, the pool has at most one call: the term set of that search.
LEMMA OneServed ==
  ASSUME IInv, GInv, OneSpreads, \A p \in CallsOf(stack) : At(stack, p).cache # "scan",
         NEW p \in CallsOf(stack), NEW q \in CallsOf(stack), p[1] \in Workers, q[1] \in Workers
  PROVE  p = q
<1>1. ASSUME NEW o \in CallsOf(stack), o[1] \in Workers
      PROVE  /\ At(stack, o).owner # NoOwner /\ At(stack, o).owner \in CallsOf(stack)
             /\ At(stack, At(stack, o).owner).cache = "words"
  <2>1. /\ At(stack, o).owner # NoOwner /\ At(stack, o).owner \in CallsOf(stack)
        /\ At(stack, o).cache \in {"terms", "scan"}
    BY <1>1, AskedIs
  <2>2. At(stack, o).cache = "terms"
    BY <2>1
  <2>3. Served(stack, At(stack, o).cache, At(stack, o).owner)
    BY <1>1, Going DEF GoOK, RunsWhere
  <2>4. QED
    BY <2>1, <2>2, <2>3 DEF Served
<1>2. At(stack, p).owner = At(stack, q).owner /\ At(stack, p).owner # NoOwner
  BY <1>1, WordsAre
<1>3. OneChildIn(stack, pool)
  BY Going DEF TreeOK
<1>4. QED
  BY <1>2, <1>3 DEF OneChildIn

\* Whoever waits at a gate that is taken waits for a call of its cache inside it.
LEMMA HolderIs ==
  ASSUME IInv, NEW p \in CallsOf(stack), At(stack, p).pc = "waiting", At(stack, p).work \in busy
  PROVE  \E q \in CallsOf(stack) :
           At(stack, q).pc \in {"inside", "joining"} /\ At(stack, q).cache = At(stack, p).cache
<1>1. PICK q \in CallsOf(stack) : Inside(At(stack, q)) /\ At(stack, q).work = At(stack, p).work
  BY State DEF StackOK, InsideOK
<1>2. /\ \A o \in CallsOf(stack) : At(stack, o).work # None =>
           [key |-> At(stack, o).key, work |-> At(stack, o).work] \in gates[At(stack, o).cache]
      /\ \A o \in CallsOf(stack) : At(stack, o).work # None => At(stack, o).cache \in Caches
      /\ \A o \in CallsOf(stack) : Inside(At(stack, o)) => At(stack, o).work # None
  BY State DEF StackOK, CallsOK, CallOK, Inside
<1>3. \A x, y \in Caches : \A e \in gates[x], f \in gates[y] : e.work = f.work => x = y
  BY State DEF StackOK, GatesOK
<1>4. PICK e, f : /\ e = [key |-> At(stack, p).key, work |-> At(stack, p).work]
                  /\ f = [key |-> At(stack, q).key, work |-> At(stack, q).work]
  OBVIOUS
<1>5. e.work = f.work
  BY <1>1, <1>4
<1>6. e \in gates[At(stack, p).cache] /\ f \in gates[At(stack, q).cache]
      /\ At(stack, p).cache \in Caches /\ At(stack, q).cache \in Caches
  BY <1>1, <1>2, <1>4
<1>7. At(stack, p).cache = At(stack, q).cache
  BY <1>3, <1>5, <1>6
<1>8. QED
  BY <1>1, <1>7 DEF Inside

\* As long as a request is not answered, a caller or a thread of the pool has a
\* step: whoever is inside a gate gets what it waits for, as a scan waits for
\* nothing and of two threads of the pool only one can wait at a gate, if one caller
\* at a time has its words materialized there (WorkGate::enter, materialize_term_set).
THEOREM NeverStalls ==
  ASSUME OneSpreads, NEW v \in Workers, NEW w \in Workers, v # w
  PROVE  Spec => []NeverStalled
<1>1. ASSUME IInv, GInv
      PROVE  NeverStalled
  <2> SUFFICES ASSUME Stalled, NEW c \in Callers, stack[c] # <<>>
               PROVE  FALSE
    BY DEF NeverStalled, Stalled
  <2> DEFINE all == CallsOf(stack)
             call(p) == At(stack, p)
  <2>1. \A p \in all : call(p).pc \in {"waiting", "joining"}
    BY <1>1, StalledIs
  <2>2. \A p \in all : call(p).cache # "scan"
    BY <1>1, <2>1, State DEF StackOK, CallsOK, CallOK
  <2>3. \A p, q \in all : p[1] \in Workers /\ q[1] \in Workers => p = q
    BY <1>1, <2>2, OneServed
  <2>4. pool = {}
    <3>1. SUFFICES ASSUME pool # {} PROVE FALSE
      OBVIOUS
    <3>2. v \in Threads /\ w \in Threads /\ stack[v] # <<>> /\ stack[w] # <<>>
      BY <1>1, <3>1, StalledIs DEF Threads
    <3>3. TopOf(stack, v) \in all /\ TopOf(stack, w) \in all
      BY <1>1, <3>2, State, TopIs
    <3>4. TopOf(stack, v)[1] = v /\ TopOf(stack, w)[1] = w
      BY DEF TopOf
    <3>5. TopOf(stack, v) = TopOf(stack, w)
      BY <2>3, <3>3, <3>4
    <3>6. QED
      BY <3>4, <3>5
  <2>5. ASSUME NEW p \in all, call(p).pc = "joining"
        PROVE  call(p).waits = TRUE
    <3>1. CASE p = TopOf(stack, p[1])
      BY <1>1, <2>5, <3>1, StalledIs
    <3>2. CASE p # TopOf(stack, p[1]) /\ p[1] \in Callers
      BY <1>1, <3>2, CallerBelow
    <3>3. CASE p # TopOf(stack, p[1]) /\ p[1] \in Workers
      <4>1. p[1] \in Threads /\ stack[p[1]] # <<>>
        <5>1. p[1] \in Threads /\ p[2] \in 1 .. Len(stack[p[1]])
          BY <1>1, State, CallsAre
        <5>2. Len(stack[p[1]]) # 0
          BY <5>1, <1>1, State, CallsAre
        <5>3. QED
          BY <5>1, <5>2, EmptySeq
      <4>2. TopOf(stack, p[1]) \in all
        BY <1>1, <4>1, State, TopIs
      <4>3. TopOf(stack, p[1])[1] = p[1]
        BY DEF TopOf
      <4>4. QED
        BY <2>3, <3>3, <4>2, <4>3
    <3>4. p[1] \in Callers \/ p[1] \in Workers
      BY <1>1, State, CallsAre DEF Threads
    <3>5. QED
      BY <3>1, <3>2, <3>3, <3>4
  <2>6. ASSUME NEW p \in all, call(p).pc = "joining"
        PROVE  \E q \in all : call(q).owner = p /\ call(q).owner # NoOwner
    <3>1. p # NoOwner
      BY <1>1, State, CallsAre, PairsAre
    <3>2. Asked(stack, pool, p)
      BY <1>1, <2>5, <2>6, <3>1, Going DEF GoOK, WaitsAsked
    <3>3. QED
      BY <2>4, <3>1, <3>2 DEF Asked
  <2>7. ASSUME NEW p \in all, call(p).pc = "waiting"
        PROVE  \E q \in all : call(q).pc = "joining" /\ call(q).cache = call(p).cache
    <3>1. call(p).work \in busy
      BY <1>1, <2>7, StalledIs
    <3>2. PICK q \in all : call(q).pc \in {"inside", "joining"} /\ call(q).cache = call(p).cache
      BY <1>1, <2>7, <3>1, HolderIs
    <3>3. QED
      BY <2>1, <3>2
  <2>8. ASSUME NEW p \in all, call(p).pc = "joining"
        PROVE  call(p).cache # "terms"
    <3>1. PICK q \in all : call(q).owner = p /\ call(q).owner # NoOwner
      BY <2>6, <2>8
    <3>2. QED
      BY <1>1, <2>2, <3>1, AskedIs
  <2>9. \A p \in all : call(p).cache # "terms"
    BY <2>1, <2>7, <2>8
  <2>10. \A p \in all : call(p).pc # "joining"
    <3>1. SUFFICES ASSUME NEW p \in all, call(p).pc = "joining" PROVE FALSE
      OBVIOUS
    <3>2. PICK q \in all : call(q).owner = p /\ call(q).owner # NoOwner
      BY <2>6, <3>1
    <3>3. call(q).cache \in {"terms", "scan"}
      BY <1>1, <3>2, AskedIs
    <3>4. QED
      BY <2>2, <2>9, <3>3
  <2>11. all = {}
    BY <2>1, <2>7, <2>10
  <2>12. c \in Threads /\ TopOf(stack, c) \in all
    BY <1>1, State, TopIs DEF Threads
  <2>13. QED
    BY <2>11, <2>12
<1>2. QED
  BY <1>1, GoingInvariant, PTL
=============================================================================
