----------------------- MODULE LibraryIndexingProofs -----------------------
(* Theorems about a batch of books whose source others suspend, replace and *)
(* move meanwhile: what is added is current, no sender waits for room, the  *)
(* batch keeps the promise of BookBatch, its threads never wait for each    *)
(* other in vain, and each of their steps brings its end nearer, for any    *)
(* books and workers.                                                       *)
EXTENDS LibraryIndexing, LineSourceProofs, SequenceTheorems

----------------------------------------------------------------------------
(* The inductive invariant.                                                *)

Idle == {"none", "taking", "exited"}
Admitted == {"opening", "reading", "dropping", "preparing", "sending"}
Outcomes == {"Prepared", "Missing", "Unavailable", "Failed", "Cancelled"}

Message == [book : 1 .. NumBooks, outcome : Outcomes, text : Text \cup {NoText}]

BatchTypes ==
  /\ BatchTypeOK
  /\ batch \in [at : {"numbering", "receiving", "adding", "joining", "returned", "failed"},
                next : 1 .. NumBooks + 1, waiting : SUBSET Message, added : Seq(1 .. NumBooks),
                results : [1 .. NumBooks -> Outcomes \cup {"Indexed", "none"}],
                cancelled : BOOLEAN, abort : BOOLEAN]
  /\ next_book \in Nat \ {0}
  /\ channel \in Seq(Message)
  /\ \A w \in Scanners : /\ workers[w].at \notin Idle => workers[w].book # 0
                         /\ workers[w].at = "sending" => workers[w].outcome # "none"

\* The batch adds books: it neither numbers them, nor ended, nor waits to fail.
Adding == batch.at \in {"receiving", "adding"}

\* Outside, no message is anywhere that is still to be decided on.
Stages ==
  /\ batch.at = "numbering" =>
       /\ next_book = 1 /\ budget = [in_flight |-> 0, next |-> 1] /\ batch.next = 1
       /\ batch.waiting = {} /\ ~batch.abort /\ \A w \in Scanners : workers[w].at = "none"
  /\ batch.at \in {"returned", "failed"} => \A w \in Scanners : workers[w].at \in Idle \ {"taking"}
  /\ ~Adding => channel = <<>>
  /\ batch.at = "joining" => batch.abort
  /\ Adding => ~batch.abort /\ \A w \in Scanners : workers[w].at # "none"

\* A book in flight was admitted and not settled; it is with one worker, in
\* the channel once, or waiting.
InFlight(b) == batch.next <= b /\ b < budget.next

Places ==
  /\ budget.in_flight = budget.next - batch.next
  /\ \A w \in Scanners : workers[w].at \in Admitted => InFlight(workers[w].book)
  /\ \A k \in 1 .. Len(channel) : InFlight(channel[k].book)
  /\ \A o \in batch.waiting : InFlight(o.book)

Apart ==
  /\ \A v, w \in Scanners :
       /\ workers[v].at \in Admitted /\ workers[w].at \in Admitted
       /\ workers[v].book = workers[w].book
       => v = w
  /\ \A j, k \in 1 .. Len(channel) : channel[j].book = channel[k].book => j = k
  /\ \A o, p \in batch.waiting : o.book = p.book => o = p
  /\ \A w \in Scanners : workers[w].at \in Admitted =>
       /\ \A k \in 1 .. Len(channel) : channel[k].book # workers[w].book
       /\ \A o \in batch.waiting : o.book # workers[w].book
  /\ \A k \in 1 .. Len(channel) : \A o \in batch.waiting : channel[k].book # o.book

\* Unless the batch is cancelled, a book that was taken is somewhere until it
\* is settled, and a worker leaves only when no book is left.
Somewhere(b) ==
  \/ \E w \in Scanners : workers[w].at \notin Idle /\ workers[w].book = b
  \/ \E k \in 1 .. Len(channel) : channel[k].book = b
  \/ \E o \in batch.waiting : o.book = b

Covered ==
  ~batch.cancelled =>
    /\ \A w \in Scanners : workers[w].at = "exited" => next_book > NumBooks
    /\ \A b \in 1 .. NumBooks : batch.next <= b /\ b < next_book => Somewhere(b)

\* The books that have a result are those before the next one.
Settled == \A b \in 1 .. NumBooks : batch.results[b] = "none" <=> batch.next <= b

\* The text of what comes as prepared is there, and current unless the
\* generation it was read in is over.
MessageOK(o) ==
  /\ o.text # NoText => TextOK(o.text, source, files)
  /\ o.outcome = "Prepared" => o.text # NoText
  /\ o.outcome = "Cancelled" => batch.cancelled

Sound ==
  /\ \A w \in Scanners : workers[w].at = "sending" =>
       /\ workers[w].outcome = "Prepared" => scans[w].text # NoText
       /\ workers[w].outcome = "Cancelled" => batch.cancelled \/ batch.abort
  /\ \A k \in 1 .. Len(channel) : MessageOK(channel[k])
  /\ \A o \in batch.waiting : MessageOK(o)

BInv ==
  /\ BatchTypes /\ Stages
  /\ ~Ended => Settled
  /\ Adding => Places /\ Apart /\ Covered /\ Sound

LIInv == IInv /\ BInv

----------------------------------------------------------------------------
(* What the batch does to the source.                                      *)

\* A look at the source takes the mutex and nothing else.
LEMMA LookStep ==
  ASSUME IInv, source' = Locked,
         UNCHANGED <<ports, isolates, scans, files, calls_left, scans_left>>
  PROVE  IInv' /\ TextsKept
<1>1. PICK L : Found(L)
  BY LockFound
<1>2. L \in Global /\ source' = L /\ QuietIn(L) /\ L.generation \in Nat
  BY <1>1 DEF Found, Follows, Global
<1>3. Follows(L, L)
  BY <1>2 DEF Follows
<1>4. calls_left' \in 0 .. MaxCalls
  BY DEF IInv, TypeOK
<1>5. QED
  BY <1>1, <1>2, <1>3, <1>4, SourceStep

\* What fails outside the source leaves it alone.
LEMMA HappensStep ==
  ASSUME IInv, Happens, UNCHANGED source
  PROVE  IInv' /\ TextsKept
<1>1. /\ calls_left' \in 0 .. MaxCalls
      /\ UNCHANGED <<source, ports, isolates, scans, files, scans_left>>
  BY SourceAssumption DEF Happens, IInv, TypeOK
<1>2. TypeOK'
  BY <1>1 DEF IInv, TypeOK
<1>3. TextsKept
  BY <1>1 DEF TextsKept, TextOK, Suspended
<1>4. QED
  BY <1>1, <1>2, <1>3 DEF IInv, Counts, Owners, OpenScans, Holders, QuietIn, Suspended,
                          SessionsSound, ScansEnded

\* And so does what does not touch it.
LEMMA ApartStep ==
  ASSUME IInv, UNCHANGED vars
  PROVE  IInv' /\ TextsKept
BY NextIInv

----------------------------------------------------------------------------
(* Types.                                                                  *)

BatchType ==
  [at : {"numbering", "receiving", "adding", "joining", "returned", "failed"},
   next : 1 .. NumBooks + 1, waiting : SUBSET Message, added : Seq(1 .. NumBooks),
   results : [1 .. NumBooks -> Outcomes \cup {"Indexed", "none"}],
   cancelled : BOOLEAN, abort : BOOLEAN]

WorkerType ==
  [at : {"none", "taking", "admitting", "opening", "reading", "dropping",
         "preparing", "sending", "exited"},
   book : 0 .. NumBooks, outcome : Outcomes \cup {"none"}]

\* The parts of the types.
LEMMA TypeParts ==
  ASSUME BInv
  PROVE  /\ batch \in BatchType /\ workers \in [Scanners -> WorkerType]
         /\ next_book \in Nat \ {0} /\ channel \in Seq(Message) /\ Len(channel) \in Nat
         /\ budget \in [in_flight : 0 .. book_workers, next : 1 .. NumBooks + 1]
         /\ budget.in_flight \in 0 .. book_workers /\ budget.next \in 1 .. NumBooks + 1
         /\ batch.next \in 1 .. NumBooks + 1
         /\ batch.at \in {"numbering", "receiving", "adding", "joining", "returned", "failed"}
         /\ batch.cancelled \in BOOLEAN /\ batch.abort \in BOOLEAN
         /\ batch.waiting \subseteq Message
         /\ batch.results \in [1 .. NumBooks -> Outcomes \cup {"Indexed", "none"}]
         /\ batch.added \in Seq(1 .. NumBooks)
         /\ \A w \in Scanners : /\ workers[w] \in WorkerType
                                /\ workers[w].at \notin Idle => workers[w].book # 0
                                /\ workers[w].at = "sending" => workers[w].outcome # "none"
         /\ NumBooks \in Nat /\ book_workers \in Nat
<1>1. /\ batch \in BatchType /\ workers \in [Scanners -> WorkerType]
      /\ next_book \in Nat \ {0} /\ channel \in Seq(Message)
      /\ budget \in [in_flight : 0 .. book_workers, next : 1 .. NumBooks + 1]
      /\ \A w \in Scanners : /\ workers[w].at \notin Idle => workers[w].book # 0
                             /\ workers[w].at = "sending" => workers[w].outcome # "none"
  BY DEF BInv, BatchTypes, BatchTypeOK, BatchType, WorkerType, Outcomes
<1>2. NumBooks \in Nat /\ book_workers \in Nat
  BY SourceAssumption, BatchAssumption, FS_CardinalityType DEF book_workers
<1>3. /\ batch.next \in 1 .. NumBooks + 1
      /\ batch.at \in {"numbering", "receiving", "adding", "joining", "returned", "failed"}
      /\ batch.waiting \subseteq Message
      /\ batch.results \in [1 .. NumBooks -> Outcomes \cup {"Indexed", "none"}]
      /\ batch.added \in Seq(1 .. NumBooks)
  BY <1>1 DEF BatchType
<1>4. batch.cancelled \in BOOLEAN /\ batch.abort \in BOOLEAN
  BY <1>1, Zenon DEF BatchType
<1>5. Len(channel) \in Nat
  BY <1>1, LenProperties
<1>6. QED
  BY <1>1, <1>2, <1>3, <1>4, <1>5

\* The types of the next state from its parts.
LEMMA TypesNext ==
  ASSUME batch' \in BatchType, workers' \in [Scanners -> WorkerType],
         next_book' \in Nat \ {0}, channel' \in Seq(Message),
         budget' \in [in_flight : 0 .. book_workers, next : 1 .. NumBooks + 1],
         \A w \in Scanners : /\ workers'[w].at \notin Idle => workers'[w].book # 0
                             /\ workers'[w].at = "sending" => workers'[w].outcome # "none"
  PROVE  BatchTypes'
<1>1. batch'.at \in {"numbering", "receiving", "adding", "joining", "returned", "failed"}
      /\ batch'.next \in 1 .. NumBooks + 1
  BY DEF BatchType
<1>2. workers' \in [Scanners -> [at : {"none", "taking", "admitting", "opening", "reading", "dropping",
                                    "preparing", "sending", "exited"},
                               book : 0 .. NumBooks,
                               outcome : {"none", "Prepared", "Missing", "Unavailable", "Failed", "Cancelled"}]]
  BY DEF WorkerType, Outcomes
<1>3. QED
  BY <1>1, <1>2 DEF BatchTypes, BatchTypeOK, BatchType

\* A message is at one place of the channel.
LEMMA InChannel ==
  ASSUME BInv, NEW k \in 1 .. Len(channel)
  PROVE  /\ channel[k] \in Message /\ channel[k].book \in 1 .. NumBooks
         /\ channel[k].outcome \in Outcomes /\ channel[k].text \in Text \cup {NoText}
<1>1. channel \in Seq(Message)
  BY TypeParts
<1>2. channel[k] \in Message
  BY <1>1, ElementOfSeq
<1>3. QED
  BY <1>2 DEF Message

\* What is sound of a message stays so while texts do, and a batch is not
\* taken back from being cancelled.
LEMMA MessageKept ==
  ASSUME NEW o \in Message, MessageOK(o), TextsKept, batch.cancelled => batch'.cancelled
  PROVE  MessageOK(o)'
<1>1. o.text # NoText => o.text \in Text
  BY DEF Message
<1>2. o.text # NoText => TextOK(o.text, source, files)'
  BY <1>1 DEF MessageOK, TextsKept
<1>3. QED
  BY <1>2 DEF MessageOK

----------------------------------------------------------------------------
(* Steps that leave the batch, or all of it but one worker.                *)

\* Whatever becomes of the source, the batch is as it was.
LEMMA BatchSame ==
  ASSUME BInv, UNCHANGED batch_vars, TextsKept,
         \A w \in Scanners : workers[w].at = "sending" => scans'[w].text = scans[w].text
  PROVE  BInv'
<1>1. /\ batch' = batch /\ workers' = workers /\ next_book' = next_book
      /\ budget' = budget /\ channel' = channel
  BY DEF batch_vars
<1>2. BatchTypes'
  BY <1>1 DEF BInv, BatchTypes, BatchTypeOK
<1>3. Stages' /\ (~Ended' => Settled')
  BY <1>1 DEF BInv, Stages, Settled, Ended, Adding, Waiting
<1>4. Adding' <=> Adding
  BY <1>1 DEF Adding
<1>5. Adding => Places' /\ Apart' /\ Covered'
  BY <1>1 DEF BInv, Places, InFlight, Apart, Covered, Somewhere
<1>6. ASSUME Adding PROVE Sound'
  <2>1. Sound /\ channel \in Seq(Message) /\ batch.waiting \subseteq Message
    BY <1>6, TypeParts DEF BInv
  <2>2. \A k \in 1 .. Len(channel) : MessageOK(channel[k])'
    <3>1. SUFFICES ASSUME NEW k \in 1 .. Len(channel) PROVE MessageOK(channel[k])'
      OBVIOUS
    <3>2. PICK o \in Message : o = channel[k] /\ MessageOK(o)
      BY <2>1, InChannel DEF Sound
    <3>3. MessageOK(o)'
      BY <1>1, <3>2, MessageKept
    <3>4. QED
      BY <1>1, <3>2, <3>3 DEF MessageOK
  <2>3. \A o \in batch.waiting : MessageOK(o)'
    BY <1>1, <2>1, MessageKept DEF Sound
  <2>4. \A w \in Scanners : workers[w].at = "sending" =>
          /\ workers[w].outcome = "Prepared" => scans'[w].text # NoText
          /\ workers[w].outcome = "Cancelled" => batch.cancelled \/ batch.abort
    BY <2>1 DEF Sound
  <2>5. QED
    BY <1>1, <2>2, <2>3, <2>4 DEF Sound, MessageOK
<1>7. QED
  BY <1>2, <1>3, <1>4, <1>5, <1>6 DEF BInv

\* A worker goes on with its book.
LEMMA WorkerMoves ==
  ASSUME BInv, NEW w \in Scanners, NEW r \in WorkerType,
         workers' = [workers EXCEPT ![w] = r],
         UNCHANGED <<batch, next_book, budget, channel>>, TextsKept,
         r.book = workers[w].book, workers[w].at \in Admitted, r.at \in Admitted,
         r.at = "sending" => /\ r.outcome # "none"
                             /\ r.outcome = "Prepared" => scans'[w].text # NoText
                             /\ r.outcome = "Cancelled" => stop,
         \A v \in Scanners \ {w} : scans'[v].text = scans[v].text
  PROVE  BInv'
<1>1. /\ workers \in [Scanners -> WorkerType] /\ workers' \in [Scanners -> WorkerType]
      /\ workers'[w] = r /\ \A v \in Scanners \ {w} : workers'[v] = workers[v]
  BY TypeParts
<1>2. workers[w].at \notin Idle /\ r.at \notin Idle
  BY DEF Admitted, Idle
<1>3. BatchTypes'
  <2>1. \A v \in Scanners : /\ workers'[v].at \notin Idle => workers'[v].book # 0
                            /\ workers'[v].at = "sending" => workers'[v].outcome # "none"
    BY <1>1, <1>2, TypeParts
  <2>2. batch \in BatchType /\ next_book \in Nat \ {0} /\ channel \in Seq(Message)
        /\ budget \in [in_flight : 0 .. book_workers, next : 1 .. NumBooks + 1]
    BY TypeParts
  <2>3. batch.at \in {"numbering", "receiving", "adding", "joining", "returned", "failed"}
        /\ batch.next \in 1 .. NumBooks + 1
    BY TypeParts
  <2>4. workers' \in [Scanners -> [at : {"none", "taking", "admitting", "opening", "reading", "dropping",
                                    "preparing", "sending", "exited"},
                               book : 0 .. NumBooks,
                               outcome : {"none", "Prepared", "Missing", "Unavailable", "Failed", "Cancelled"}]]
    BY <1>1 DEF WorkerType, Outcomes
  <2>5. QED
    BY <2>1, <2>2, <2>3, <2>4 DEF BatchTypes, BatchTypeOK, BatchType
<1>4. Stages' /\ (~Ended' => Settled')
  <2>1. batch.at # "numbering" /\ batch.at \notin {"returned", "failed"}
    BY <1>2 DEF BInv, Stages, Idle
  <2>2. ~Ended' => Settled'
    BY DEF BInv, Settled, Ended
  <2>3. Adding' => \A v \in Scanners : workers'[v].at # "none"
    BY <1>1, <1>2 DEF BInv, Stages, Adding, Idle
  <2>4. Stages'
    BY <2>1, <2>3 DEF BInv, Stages, Adding, Waiting
  <2>5. QED
    BY <2>2, <2>4
<1>5. Adding' <=> Adding
  BY DEF Adding
<1>6. ASSUME Adding PROVE Places' /\ Apart' /\ Covered' /\ Sound'
  <2>1. Places /\ Apart /\ Covered /\ Sound
    BY <1>6 DEF BInv
  <2>2. \A v \in Scanners : /\ workers'[v].at \in Admitted <=> workers[v].at \in Admitted
                            /\ workers'[v].at \notin Idle <=> workers[v].at \notin Idle
                            /\ workers'[v].at = "exited" => workers[v].at = "exited"
                            /\ workers'[v].book = workers[v].book
    BY <1>1, <1>2 DEF Admitted, Idle
  <2>3. Places'
    BY <2>1, <2>2 DEF Places, InFlight
  <2>4. Apart'
    BY <2>1, <2>2 DEF Apart
  <2>5. Covered'
    BY <2>1, <2>2 DEF Covered, Somewhere
  <2>6. Sound'
    <3>1. \A v \in Scanners : workers'[v].at = "sending" =>
            /\ workers'[v].outcome = "Prepared" => scans'[v].text # NoText
            /\ workers'[v].outcome = "Cancelled" => batch.cancelled \/ batch.abort
      BY <1>1, <2>1 DEF Sound, stop
    <3>2. \A k \in 1 .. Len(channel) : MessageOK(channel[k])'
      <4>1. SUFFICES ASSUME NEW k \in 1 .. Len(channel) PROVE MessageOK(channel[k])'
        OBVIOUS
      <4>2. PICK o \in Message : o = channel[k] /\ MessageOK(o)
        BY <2>1, InChannel DEF Sound
      <4>3. MessageOK(o)'
        BY <4>2, MessageKept
      <4>4. QED
        BY <4>2, <4>3 DEF MessageOK
    <3>3. \A o \in batch.waiting : MessageOK(o)'
      BY <2>1, TypeParts, MessageKept DEF Sound
    <3>4. QED
      BY <3>1, <3>2, <3>3 DEF Sound, MessageOK
  <2>7. QED
    BY <2>3, <2>4, <2>5, <2>6
<1>7. QED
  BY <1>3, <1>4, <1>5, <1>6 DEF BInv

\* The types after a step of one worker.
LEMMA WorkerTypes ==
  ASSUME BInv, NEW w \in Scanners, NEW r \in WorkerType,
         workers' = [workers EXCEPT ![w] = r], batch' = batch,
         r.at \notin Idle => r.book # 0, r.at = "sending" => r.outcome # "none",
         next_book' \in Nat \ {0}, channel' \in Seq(Message),
         budget' \in [in_flight : 0 .. book_workers, next : 1 .. NumBooks + 1]
  PROVE  BatchTypes' /\ \A v \in Scanners : workers'[v] = IF v = w THEN r ELSE workers[v]
<1>1. /\ workers \in [Scanners -> WorkerType] /\ workers' \in [Scanners -> WorkerType]
      /\ \A v \in Scanners : workers'[v] = IF v = w THEN r ELSE workers[v]
  BY TypeParts
<1>2. batch' \in BatchType
  BY TypeParts
<1>3. \A v \in Scanners : /\ workers'[v].at \notin Idle => workers'[v].book # 0
                          /\ workers'[v].at = "sending" => workers'[v].outcome # "none"
  BY <1>1, TypeParts
<1>4. QED
  BY <1>1, <1>2, <1>3, TypesNext

\* What is sound of the messages stays so while texts do.
LEMMA MessagesKept ==
  ASSUME BInv, Sound, TextsKept, batch.cancelled => batch'.cancelled
  PROVE  /\ \A k \in 1 .. Len(channel) : \A o \in Message : o = channel[k] => MessageOK(o)'
         /\ \A o \in batch.waiting : o \in Message /\ MessageOK(o)'
<1>1. \A k \in 1 .. Len(channel) : \A o \in Message : o = channel[k] => MessageOK(o)
  BY DEF Sound
<1>2. \A o \in batch.waiting : o \in Message /\ MessageOK(o)
  BY TypeParts DEF Sound
<1>3. QED
  BY <1>1, <1>2, MessageKept

\* Soundness of the next state, when the channel and what waits are the same.
LEMMA SoundSameMessages ==
  ASSUME BInv, Sound, TextsKept, batch.cancelled => batch'.cancelled,
         batch'.waiting = batch.waiting, channel' = channel,
         \A w \in Scanners : workers'[w].at = "sending" =>
           /\ workers'[w].outcome = "Prepared" => scans'[w].text # NoText
           /\ workers'[w].outcome = "Cancelled" => batch'.cancelled \/ batch'.abort
  PROVE  Sound'
<1>1. \A k \in 1 .. Len(channel) : MessageOK(channel[k])'
  <2>1. SUFFICES ASSUME NEW k \in 1 .. Len(channel) PROVE MessageOK(channel[k])'
    OBVIOUS
  <2>2. PICK o \in Message : o = channel[k]
    BY InChannel
  <2>3. MessageOK(o)'
    BY <2>2, MessagesKept
  <2>4. QED
    BY <2>2, <2>3 DEF MessageOK
<1>2. \A o \in batch.waiting : MessageOK(o)'
  BY MessagesKept
<1>3. QED
  BY <1>1, <1>2 DEF Sound, MessageOK

\* Take: the next book is this worker's, or there is none.
LEMMA TakeStep == ASSUME LIInv, NEW w \in Scanners, Take(w) PROVE LIInv'
<1>1. IInv' /\ TextsKept /\ scans' = scans /\ BInv
  BY ApartStep DEF Take, LIInv, vars
<1>2. PICK r : r = IF next_book <= NumBooks THEN [NoWorker EXCEPT !.at = "admitting", !.book = next_book]
                                            ELSE [NoWorker EXCEPT !.at = "exited"]
  OBVIOUS
<1>3. next_book \in Nat \ {0} /\ NumBooks \in Nat
  BY <1>1, TypeParts
<1>4. /\ r \in WorkerType
      /\ \/ next_book <= NumBooks /\ r.at = "admitting" /\ r.book = next_book
         \/ next_book > NumBooks /\ r.at = "exited"
  <2>1. CASE next_book <= NumBooks
    <3>1. r = [at |-> "admitting", book |-> next_book, outcome |-> "none"]
      BY <1>2, <2>1 DEF NoWorker
    <3>2. next_book \in 0 .. NumBooks
      BY <1>3, <2>1
    <3>3. QED
      BY <2>1, <3>1, <3>2 DEF WorkerType
  <2>2. CASE next_book > NumBooks
    <3>1. r = [at |-> "exited", book |-> 0, outcome |-> "none"]
      BY <1>2, <1>3, <2>2 DEF NoWorker
    <3>2. 0 \in 0 .. NumBooks
      BY <1>3
    <3>3. QED
      BY <2>2, <3>1, <3>2 DEF WorkerType
  <2>3. QED
    BY <1>3, <2>1, <2>2
<1>5. /\ workers' = [workers EXCEPT ![w] = r] /\ next_book' = next_book + 1
      /\ UNCHANGED <<batch, budget, channel>> /\ workers[w].at = "taking"
  BY <1>2 DEF Take
<1>6. BatchTypes' /\ \A v \in Scanners : workers'[v] = IF v = w THEN r ELSE workers[v]
  <2>1. (r.at \notin Idle => r.book # 0) /\ (r.at = "sending" => r.outcome # "none")
    BY <1>3, <1>4 DEF Idle
  <2>2. /\ next_book' \in Nat \ {0} /\ channel' \in Seq(Message) /\ batch' = batch
        /\ budget' \in [in_flight : 0 .. book_workers, next : 1 .. NumBooks + 1]
    BY <1>1, <1>3, <1>5, TypeParts
  <2>3. QED
    BY <1>1, <1>4, <1>5, <2>1, <2>2, WorkerTypes
<1>7. Stages' /\ (~Ended' => Settled') /\ (Adding' <=> Adding)
  <2>1. batch.at # "numbering" /\ batch.at \notin {"returned", "failed"}
    BY <1>1, <1>5 DEF BInv, Stages
  <2>2. ~Ended' => Settled'
    BY <1>1, <1>5 DEF BInv, Settled, Ended
  <2>3. Adding' => \A v \in Scanners : workers'[v].at # "none"
    BY <1>1, <1>4, <1>5, <1>6 DEF BInv, Stages, Adding
  <2>4. Stages'
    BY <1>1, <1>5, <2>1, <2>3 DEF BInv, Stages, Adding, Waiting
  <2>5. QED
    BY <1>5, <2>2, <2>4 DEF Adding
<1>8. ASSUME Adding PROVE Places' /\ Apart' /\ Covered' /\ Sound'
  <2>1. Places /\ Apart /\ Covered /\ Sound
    BY <1>1, <1>8 DEF BInv
  <2>2. \A v \in Scanners : workers'[v].at \in Admitted => workers[v].at \in Admitted
                                                           /\ workers'[v] = workers[v]
    BY <1>4, <1>6 DEF Admitted
  <2>3. Places' /\ Apart'
    BY <1>5, <2>1, <2>2 DEF Places, InFlight, Apart
  <2>4. ASSUME ~batch.cancelled PROVE Covered'
    <3>1. \A v \in Scanners : workers'[v].at = "exited" => next_book' > NumBooks
      BY <1>3, <1>4, <1>5, <1>6, <2>1, <2>4 DEF Covered
    <3>2. ASSUME NEW b \in 1 .. NumBooks, batch.next <= b, b < next_book + 1 PROVE Somewhere(b)'
      <4>1. CASE b < next_book
        <5>1. Somewhere(b)
          BY <2>1, <2>4, <3>2, <4>1 DEF Covered
        <5>2. \A v \in Scanners : workers[v].at \notin Idle => workers'[v] = workers[v]
          BY <1>5, <1>6 DEF Idle
        <5>3. QED
          BY <1>5, <5>1, <5>2 DEF Somewhere
      <4>2. CASE b = next_book
        <5>1. workers'[w].at \notin Idle /\ workers'[w].book = b
          BY <1>3, <1>4, <1>6, <3>2, <4>2 DEF Idle
        <5>2. QED
          BY <5>1 DEF Somewhere
      <4>3. QED
        BY <1>3, <3>2, <4>1, <4>2
    <3>3. QED
      BY <1>5, <3>1, <3>2 DEF Covered
  <2>5. Covered'
    BY <1>5, <2>4 DEF Covered
  <2>6. Sound'
    <3>1. \A v \in Scanners : workers'[v].at = "sending" => workers[v].at = "sending"
                                                            /\ workers'[v] = workers[v]
      BY <1>4, <1>6
    <3>2. \A v \in Scanners : workers'[v].at = "sending" =>
            /\ workers'[v].outcome = "Prepared" => scans'[v].text # NoText
            /\ workers'[v].outcome = "Cancelled" => batch'.cancelled \/ batch'.abort
      BY <1>1, <1>5, <2>1, <3>1 DEF Sound
    <3>3. QED
      BY <1>1, <1>5, <2>1, <3>2, SoundSameMessages
  <2>7. QED
    BY <2>3, <2>5, <2>6
<1>9. QED
  BY <1>1, <1>6, <1>7, <1>8 DEF LIInv, BInv

\* Admit: the books in flight are one more.
LEMMA AdmitStep == ASSUME LIInv, NEW w \in Scanners, Admit(w) PROVE LIInv'
<1>1. IInv' /\ TextsKept /\ scans' = scans /\ BInv
  BY ApartStep DEF Admit, LIInv, vars
<1>2. PICK r : r = [workers[w] EXCEPT !.at = "opening"]
  OBVIOUS
<1>3. PICK n : n = budget.next
  OBVIOUS
<1>4. PICK f : f = budget.in_flight
  OBVIOUS
<1>5. workers[w] \in WorkerType /\ workers \in [Scanners -> WorkerType]
  BY <1>1, TypeParts
<1>6. /\ workers[w].at = "admitting" /\ workers[w].book = n /\ f < book_workers /\ ~stop
      /\ workers' = [workers EXCEPT ![w] = r]
      /\ budget' = [in_flight |-> f + 1, next |-> n + 1]
      /\ UNCHANGED <<batch, next_book, channel>>
  BY <1>2, <1>3, <1>4, <1>5 DEF Admit, Goes
<1>7. r \in WorkerType /\ r.at = "opening" /\ r.book = n
  BY <1>2, <1>5, <1>6 DEF WorkerType
<1>8. n \in 1 .. NumBooks /\ f \in 0 .. book_workers /\ NumBooks \in Nat /\ book_workers \in Nat
  <2>1. n # 0
    BY <1>1, <1>6, TypeParts DEF Idle
  <2>2. n \in 0 .. NumBooks /\ f \in 0 .. book_workers /\ NumBooks \in Nat /\ book_workers \in Nat
    BY <1>1, <1>4, <1>5, <1>6, TypeParts DEF WorkerType
  <2>3. QED
    BY <2>1, <2>2
<1>9. BatchTypes' /\ \A v \in Scanners : workers'[v] = IF v = w THEN r ELSE workers[v]
  <2>1. budget' \in [in_flight : 0 .. book_workers, next : 1 .. NumBooks + 1]
    BY <1>6, <1>8
  <2>2. next_book' \in Nat \ {0} /\ channel' \in Seq(Message)
    BY <1>1, <1>6, TypeParts
  <2>3. (r.at \notin Idle => r.book # 0) /\ (r.at = "sending" => r.outcome # "none")
    BY <1>7, <1>8
  <2>4. batch' = batch /\ workers' = [workers EXCEPT ![w] = r] /\ r \in WorkerType /\ BInv
    BY <1>1, <1>6, <1>7
  <2>5. QED
    BY <2>1, <2>2, <2>3, <2>4, WorkerTypes
<1>10. batch.at \in {"receiving", "adding"} /\ Adding
  <2>1. batch.at # "numbering" /\ batch.at \notin {"returned", "failed"} /\ batch.at # "joining"
    BY <1>1, <1>6 DEF BInv, Stages, stop, Idle
  <2>2. QED
    BY <1>1, <2>1, TypeParts DEF Adding
<1>11. Stages' /\ Settled' /\ Adding'
  <2>1. Settled'
    BY <1>1, <1>6, <1>10 DEF BInv, Settled, Ended
  <2>2. \A v \in Scanners : workers'[v].at # "none"
    BY <1>1, <1>7, <1>9, <1>10 DEF BInv, Stages
  <2>3. Stages'
    BY <1>1, <1>6, <1>10, <2>2 DEF BInv, Stages, Adding, Waiting
  <2>4. QED
    BY <1>6, <1>10, <2>1, <2>3 DEF Adding
<1>12. Places /\ Apart /\ Covered /\ Sound
  BY <1>1, <1>10 DEF BInv
<1>13. batch.next \in 1 .. NumBooks + 1 /\ f = n - batch.next /\ budget'.next = n + 1
       /\ budget'.in_flight = f + 1 /\ batch' = batch /\ channel' = channel
  BY <1>1, <1>3, <1>4, <1>6, <1>12, TypeParts DEF Places
<1>14. \A v \in Scanners : workers'[v].at \in Admitted =>
         v = w \/ (workers[v].at \in Admitted /\ workers'[v] = workers[v])
  BY <1>9
<1>15. /\ \A v \in Scanners : workers[v].at \in Admitted => batch.next <= workers[v].book /\ workers[v].book < n
       /\ \A k \in 1 .. Len(channel) : batch.next <= channel[k].book /\ channel[k].book < n
       /\ \A o \in batch.waiting : batch.next <= o.book /\ o.book < n
  BY <1>3, <1>12 DEF Places, InFlight
<1>16. Places'
  <2>1. \A v \in Scanners : workers'[v].at \in Admitted =>
          batch.next <= workers'[v].book /\ workers'[v].book < n + 1
    <3>1. SUFFICES ASSUME NEW v \in Scanners, workers'[v].at \in Admitted
                   PROVE  batch.next <= workers'[v].book /\ workers'[v].book < n + 1
      OBVIOUS
    <3>2. CASE v = w
      BY <1>7, <1>8, <1>9, <1>13, <3>2
    <3>3. CASE v # w
      <4>1. batch.next <= workers[v].book /\ workers[v].book < n /\ workers'[v] = workers[v]
        BY <1>14, <1>15, <3>1, <3>3
      <4>2. workers[v].book \in 0 .. NumBooks
        BY <1>5 DEF WorkerType
      <4>3. QED
        BY <1>8, <4>1, <4>2
    <3>4. QED
      BY <3>2, <3>3
  <2>2. \A k \in 1 .. Len(channel) : batch.next <= channel[k].book /\ channel[k].book < n + 1
    <3>1. \A k \in 1 .. Len(channel) : channel[k].book \in 1 .. NumBooks
      BY <1>1, InChannel
    <3>2. QED
      BY <1>8, <1>15, <3>1
  <2>3. \A o \in batch.waiting : batch.next <= o.book /\ o.book < n + 1
    <3>1. \A o \in batch.waiting : o.book \in 1 .. NumBooks
      BY <1>1, TypeParts DEF Message
    <3>2. QED
      BY <1>8, <1>15, <3>1
  <2>4. budget'.in_flight = budget'.next - batch'.next
    BY <1>8, <1>13
  <2>5. QED
    BY <1>13, <2>1, <2>2, <2>3, <2>4 DEF Places, InFlight
<1>17. Apart'
  <2>1. \A v \in Scanners : v # w /\ workers'[v].at \in Admitted => workers'[v].book # n
    <3>1. \A v \in Scanners : workers[v].book \in 0 .. NumBooks
      BY <1>5 DEF WorkerType
    <3>2. QED
      BY <1>8, <1>14, <1>15, <3>1
  <2>2. \A k \in 1 .. Len(channel) : channel[k].book # n
    <3>1. \A k \in 1 .. Len(channel) : channel[k].book \in 1 .. NumBooks
      BY <1>1, InChannel
    <3>2. QED
      BY <1>8, <1>15, <3>1
  <2>3. \A o \in batch.waiting : o.book # n
    <3>1. \A o \in batch.waiting : o.book \in 1 .. NumBooks
      BY <1>1, TypeParts DEF Message
    <3>2. QED
      BY <1>8, <1>15, <3>1
  <2>4. workers'[w].book = n
    BY <1>7, <1>9
  <2>5. \A u, v \in Scanners : /\ workers'[u].at \in Admitted /\ workers'[v].at \in Admitted
                               /\ workers'[u].book = workers'[v].book
                               => u = v
    <3>1. SUFFICES ASSUME NEW u \in Scanners, NEW v \in Scanners, workers'[u].at \in Admitted,
                          workers'[v].at \in Admitted, workers'[u].book = workers'[v].book, u # v
                   PROVE  FALSE
      OBVIOUS
    <3>2. u # w /\ v # w
      BY <2>1, <2>4, <3>1
    <3>3. QED
      BY <1>12, <1>14, <3>1, <3>2 DEF Apart
  <2>6. \A v \in Scanners : workers'[v].at \in Admitted =>
          /\ \A k \in 1 .. Len(channel) : channel[k].book # workers'[v].book
          /\ \A o \in batch.waiting : o.book # workers'[v].book
    <3>1. SUFFICES ASSUME NEW v \in Scanners, workers'[v].at \in Admitted
                   PROVE  /\ \A k \in 1 .. Len(channel) : channel[k].book # workers'[v].book
                          /\ \A o \in batch.waiting : o.book # workers'[v].book
      OBVIOUS
    <3>2. CASE v = w
      BY <2>2, <2>3, <2>4, <3>2
    <3>3. CASE v # w
      BY <1>12, <1>14, <3>1, <3>3 DEF Apart
    <3>4. QED
      BY <3>2, <3>3
  <2>7. QED
    BY <1>12, <1>13, <2>5, <2>6 DEF Apart
<1>18. Covered'
  <2>1. \A v \in Scanners : /\ workers[v].at \notin Idle => workers'[v].at \notin Idle
                                                            /\ workers'[v].book = workers[v].book
                            /\ workers'[v].at = "exited" => workers[v].at = "exited"
    BY <1>6, <1>7, <1>9 DEF Idle
  <2>2. QED
    BY <1>6, <1>12, <1>13, <2>1 DEF Covered, Somewhere
<1>19. Sound'
  <2>1. \A v \in Scanners : workers'[v].at = "sending" => workers[v].at = "sending"
                                                          /\ workers'[v] = workers[v]
    BY <1>7, <1>9
  <2>2. \A v \in Scanners : workers'[v].at = "sending" =>
          /\ workers'[v].outcome = "Prepared" => scans'[v].text # NoText
          /\ workers'[v].outcome = "Cancelled" => batch'.cancelled \/ batch'.abort
    BY <1>1, <1>6, <1>12, <2>1 DEF Sound
  <2>3. QED
    BY <1>1, <1>6, <1>12, <2>2, SoundSameMessages
<1>20. QED
  BY <1>1, <1>9, <1>11, <1>16, <1>17, <1>18, <1>19 DEF LIInv, BInv

\* A worker leaves: nothing is in flight with it, or the batch is cancelled.
LEMMA LeaveStep ==
  ASSUME LIInv, NEW w \in Scanners, NotAdmitted(w) \/ SendFails(w)
  PROVE  LIInv'
<1>1. IInv' /\ TextsKept /\ scans' = scans /\ BInv
  BY ApartStep DEF NotAdmitted, SendFails, LIInv, vars
<1>2. PICK r : r = [workers[w] EXCEPT !.at = "exited"]
  OBVIOUS
<1>3. workers[w] \in WorkerType /\ workers \in [Scanners -> WorkerType]
  BY <1>1, TypeParts
<1>4. /\ workers[w].at \in {"admitting", "sending"}
      /\ workers' = [workers EXCEPT ![w] = r]
      /\ UNCHANGED <<batch, next_book, budget, channel>>
      /\ stop \/ batch.at = "joining"
  BY <1>2, <1>3 DEF NotAdmitted, SendFails, Goes
<1>5. r \in WorkerType /\ r.at = "exited"
  BY <1>2, <1>3 DEF WorkerType
<1>6. BatchTypes' /\ \A v \in Scanners : workers'[v] = IF v = w THEN r ELSE workers[v]
  <2>1. (r.at \notin Idle => r.book # 0) /\ (r.at = "sending" => r.outcome # "none")
    BY <1>5 DEF Idle
  <2>2. /\ next_book' \in Nat \ {0} /\ channel' \in Seq(Message) /\ batch' = batch
        /\ budget' \in [in_flight : 0 .. book_workers, next : 1 .. NumBooks + 1]
    BY <1>1, <1>4, TypeParts
  <2>3. QED
    BY <1>1, <1>4, <1>5, <2>1, <2>2, WorkerTypes
<1>7. Stages' /\ (~Ended' => Settled') /\ (Adding' <=> Adding)
  <2>1. batch.at # "numbering" /\ batch.at \notin {"returned", "failed"}
    BY <1>1, <1>4 DEF BInv, Stages, Idle
  <2>2. ~Ended' => Settled'
    BY <1>1, <1>4 DEF BInv, Settled, Ended
  <2>3. Adding' => \A v \in Scanners : workers'[v].at # "none"
    BY <1>1, <1>4, <1>5, <1>6 DEF BInv, Stages, Adding
  <2>4. Stages'
    BY <1>1, <1>4, <2>1, <2>3 DEF BInv, Stages, Adding, Waiting
  <2>5. QED
    BY <1>4, <2>2, <2>4 DEF Adding
<1>8. ASSUME Adding PROVE Places' /\ Apart' /\ Covered' /\ Sound'
  <2>1. Places /\ Apart /\ Covered /\ Sound
    BY <1>1, <1>8 DEF BInv
  <2>2. \A v \in Scanners : workers'[v].at \in Admitted => workers[v].at \in Admitted
                                                           /\ workers'[v] = workers[v]
    BY <1>5, <1>6 DEF Admitted
  <2>3. Places' /\ Apart'
    BY <1>4, <2>1, <2>2 DEF Places, InFlight, Apart
  <2>4. batch.cancelled
    BY <1>1, <1>4, <1>8 DEF BInv, Stages, Adding, stop
  <2>5. Covered'
    BY <1>4, <2>4 DEF Covered
  <2>6. \A v \in Scanners : workers'[v].at = "sending" =>
          /\ workers'[v].outcome = "Prepared" => scans'[v].text # NoText
          /\ workers'[v].outcome = "Cancelled" => batch'.cancelled \/ batch'.abort
    BY <1>1, <1>4, <1>5, <1>6, <2>1 DEF Sound
  <2>7. Sound'
    BY <1>1, <1>4, <2>1, <2>6, SoundSameMessages
  <2>8. QED
    BY <2>3, <2>5, <2>7
<1>9. QED
  BY <1>1, <1>6, <1>7, <1>8 DEF LIInv, BInv

\* Send: the book goes from its worker to the end of the channel.
LEMMA SendStep == ASSUME LIInv, NEW w \in Scanners, Send(w) PROVE LIInv'
<1>1. IInv' /\ TextsKept /\ scans' = scans /\ source' = source /\ files' = files /\ BInv /\ IInv
  BY ApartStep DEF Send, LIInv, vars
<1>2. PICK r : r = [workers[w] EXCEPT !.at = "taking"]
  OBVIOUS
<1>3. PICK m : m = [book |-> workers[w].book, outcome |-> workers[w].outcome, text |-> scans[w].text]
  OBVIOUS
<1>4. workers[w] \in WorkerType /\ workers \in [Scanners -> WorkerType]
  BY <1>1, TypeParts
<1>5. /\ workers[w].at = "sending" /\ batch.at # "joining"
      /\ workers' = [workers EXCEPT ![w] = r] /\ channel' = Append(channel, m)
      /\ UNCHANGED <<batch, next_book, budget>>
  BY <1>2, <1>3, <1>4 DEF Send, Goes
<1>6. r \in WorkerType /\ r.at = "taking"
  BY <1>2, <1>4 DEF WorkerType
<1>7. m \in Message /\ m.book = workers[w].book /\ m.outcome = workers[w].outcome /\ m.text = scans[w].text
  <2>1. workers[w].book # 0 /\ workers[w].outcome # "none"
    BY <1>1, <1>5, TypeParts DEF Idle
  <2>2. workers[w].book \in 1 .. NumBooks /\ workers[w].outcome \in Outcomes
    BY <1>1, <1>4, <2>1, TypeParts DEF WorkerType
  <2>3. scans[w].text \in Text \cup {NoText}
    BY <1>1, ScanIn DEF ScanType
  <2>4. QED
    BY <1>3, <2>2, <2>3 DEF Message
<1>8. /\ channel \in Seq(Message) /\ channel' \in Seq(Message) /\ Len(channel) \in Nat
      /\ Len(channel') = Len(channel) + 1
      /\ channel'[Len(channel) + 1] = m
      /\ \A k \in 1 .. Len(channel) : channel'[k] = channel[k] /\ channel[k] \in Message
  BY <1>1, <1>5, <1>7, TypeParts, AppendProperties, InChannel
<1>9. \A k \in 1 .. Len(channel') : \/ k = Len(channel) + 1 /\ channel'[k] = m
                                    \/ k \in 1 .. Len(channel) /\ channel'[k] = channel[k]
  BY <1>8
<1>10. BatchTypes' /\ \A v \in Scanners : workers'[v] = IF v = w THEN r ELSE workers[v]
  <2>1. (r.at \notin Idle => r.book # 0) /\ (r.at = "sending" => r.outcome # "none")
    BY <1>6 DEF Idle
  <2>2. /\ next_book' \in Nat \ {0} /\ batch' = batch
        /\ budget' \in [in_flight : 0 .. book_workers, next : 1 .. NumBooks + 1]
    BY <1>1, <1>5, TypeParts
  <2>3. QED
    BY <1>1, <1>5, <1>6, <1>8, <2>1, <2>2, WorkerTypes
<1>11. Adding
  <2>1. batch.at # "numbering" /\ batch.at \notin {"returned", "failed"}
    BY <1>1, <1>5 DEF BInv, Stages, Idle
  <2>2. QED
    BY <1>1, <1>5, <2>1, TypeParts DEF Adding
<1>12. Stages' /\ Settled' /\ Adding'
  <2>1. Settled'
    BY <1>1, <1>5, <1>11 DEF BInv, Settled, Ended, Adding
  <2>2. \A v \in Scanners : workers'[v].at # "none"
    BY <1>1, <1>6, <1>10, <1>11 DEF BInv, Stages
  <2>3. Stages'
    BY <1>1, <1>5, <1>11, <2>2 DEF BInv, Stages, Adding, Waiting
  <2>4. QED
    BY <1>5, <1>11, <2>1, <2>3 DEF Adding
<1>13. Places /\ Apart /\ Covered /\ Sound
  BY <1>1, <1>11 DEF BInv
<1>14. \A v \in Scanners : workers'[v].at \in Admitted =>
         workers[v].at \in Admitted /\ workers'[v] = workers[v] /\ v # w
  BY <1>6, <1>10 DEF Admitted
<1>15. workers[w].at \in Admitted
  BY <1>5 DEF Admitted
<1>16. Places'
  <2>1. InFlight(m.book)
    BY <1>7, <1>13, <1>15 DEF Places
  <2>2. \A k \in 1 .. Len(channel') : InFlight(channel'[k].book)
    BY <1>9, <1>13, <2>1 DEF Places
  <2>3. QED
    BY <1>5, <1>13, <1>14, <2>2 DEF Places, InFlight
<1>17. Apart'
  <2>1. \A k \in 1 .. Len(channel) : channel[k].book # m.book
    BY <1>7, <1>13, <1>15 DEF Apart
  <2>2. \A j, k \in 1 .. Len(channel') : channel'[j].book = channel'[k].book => j = k
    <3>1. SUFFICES ASSUME NEW j \in 1 .. Len(channel'), NEW k \in 1 .. Len(channel'),
                          channel'[j].book = channel'[k].book
                   PROVE  j = k
      OBVIOUS
    <3>2. QED
      BY <1>9, <1>13, <2>1, <3>1 DEF Apart
  <2>3. \A v \in Scanners : workers'[v].at \in Admitted => workers'[v].book # m.book
    BY <1>7, <1>13, <1>14, <1>15 DEF Apart
  <2>4. \A v \in Scanners : workers'[v].at \in Admitted =>
          \A k \in 1 .. Len(channel') : channel'[k].book # workers'[v].book
    <3>1. SUFFICES ASSUME NEW v \in Scanners, workers'[v].at \in Admitted, NEW k \in 1 .. Len(channel')
                   PROVE  channel'[k].book # workers'[v].book
      OBVIOUS
    <3>2. CASE channel'[k] = m
      BY <2>3, <3>1, <3>2
    <3>3. CASE k \in 1 .. Len(channel) /\ channel'[k] = channel[k]
      BY <1>13, <1>14, <3>1, <3>3 DEF Apart
    <3>4. QED
      BY <1>9, <3>2, <3>3
  <2>5. \A k \in 1 .. Len(channel') : \A o \in batch.waiting : channel'[k].book # o.book
    <3>1. SUFFICES ASSUME NEW k \in 1 .. Len(channel'), NEW o \in batch.waiting
                   PROVE  channel'[k].book # o.book
      OBVIOUS
    <3>2. CASE channel'[k] = m
      BY <1>7, <1>13, <1>15, <3>2 DEF Apart
    <3>3. CASE k \in 1 .. Len(channel) /\ channel'[k] = channel[k]
      BY <1>13, <3>3 DEF Apart
    <3>4. QED
      BY <1>9, <3>2, <3>3
  <2>6. \A u, v \in Scanners : /\ workers'[u].at \in Admitted /\ workers'[v].at \in Admitted
                               /\ workers'[u].book = workers'[v].book
                               => u = v
    BY <1>13, <1>14 DEF Apart
  <2>7. \A v \in Scanners : workers'[v].at \in Admitted =>
          \A o \in batch.waiting : o.book # workers'[v].book
    BY <1>13, <1>14 DEF Apart
  <2>8. \A o, p \in batch.waiting : o.book = p.book => o = p
    BY <1>13 DEF Apart
  <2>9. batch' = batch
    BY <1>5
  <2>10. QED
    BY <2>2, <2>4, <2>5, <2>6, <2>7, <2>8, <2>9 DEF Apart
<1>18. Covered'
  <2>1. SUFFICES ASSUME ~batch.cancelled PROVE Covered'
    BY <1>5 DEF Covered
  <2>2. \A v \in Scanners : workers'[v].at = "exited" => next_book' > NumBooks
    BY <1>5, <1>6, <1>10, <1>13, <2>1 DEF Covered
  <2>3. ASSUME NEW b \in 1 .. NumBooks, batch.next <= b, b < next_book PROVE Somewhere(b)'
    <3>1. Somewhere(b)
      BY <1>13, <2>1, <2>3 DEF Covered
    <3>2. CASE \E v \in Scanners : workers[v].at \notin Idle /\ workers[v].book = b
      <4>1. PICK v \in Scanners : workers[v].at \notin Idle /\ workers[v].book = b
        BY <3>2
      <4>2. CASE v = w
        <5>1. Len(channel) + 1 \in 1 .. Len(channel') /\ channel'[Len(channel) + 1].book = b
          BY <1>7, <1>8, <4>1, <4>2
        <5>2. QED
          BY <5>1 DEF Somewhere
      <4>3. CASE v # w
        BY <1>10, <4>1, <4>3 DEF Somewhere
      <4>4. QED
        BY <4>2, <4>3
    <3>3. CASE \E k \in 1 .. Len(channel) : channel[k].book = b
      <4>1. PICK k \in 1 .. Len(channel) : channel[k].book = b
        BY <3>3
      <4>2. k \in 1 .. Len(channel') /\ channel'[k].book = b
        BY <1>8, <4>1
      <4>3. QED
        BY <4>2 DEF Somewhere
    <3>4. CASE \E o \in batch.waiting : o.book = b
      BY <1>5, <3>4 DEF Somewhere
    <3>5. QED
      BY <3>1, <3>2, <3>3, <3>4 DEF Somewhere
  <2>4. QED
    BY <1>5, <2>2, <2>3 DEF Covered
<1>19. Sound'
  <2>1. MessageOK(m)
    <3>1. TextOK(scans[w].text, source, files)
      BY <1>1 DEF IInv, SessionsSound
    <3>2. m.outcome = "Prepared" => m.text # NoText
      BY <1>5, <1>7, <1>13 DEF Sound
    <3>3. m.outcome = "Cancelled" => batch.cancelled
      BY <1>1, <1>5, <1>7, <1>11, <1>13 DEF BInv, Stages, Sound
    <3>4. QED
      BY <1>7, <3>1, <3>2, <3>3 DEF MessageOK
  <2>2. MessageOK(m)'
    BY <1>1, <1>5, <2>1 DEF MessageOK, TextOK, Suspended
  <2>3. \A k \in 1 .. Len(channel') : MessageOK(channel[k])'
    <3>1. SUFFICES ASSUME NEW k \in 1 .. Len(channel') PROVE MessageOK(channel[k])'
      OBVIOUS
    <3>2. CASE channel'[k] = m
      BY <2>2, <3>2 DEF MessageOK
    <3>3. CASE k \in 1 .. Len(channel) /\ channel'[k] = channel[k]
      <4>1. PICK o \in Message : o = channel[k]
        BY <1>8, <3>3
      <4>2. MessageOK(o)'
        BY <1>1, <1>5, <1>13, <3>3, <4>1, MessagesKept
      <4>3. QED
        BY <3>3, <4>1, <4>2 DEF MessageOK
    <3>4. QED
      BY <1>9, <3>2, <3>3
  <2>4. \A o \in batch.waiting : MessageOK(o)'
    BY <1>1, <1>5, <1>13, MessagesKept
  <2>5. \A v \in Scanners : workers'[v].at = "sending" =>
          /\ workers'[v].outcome = "Prepared" => scans'[v].text # NoText
          /\ workers'[v].outcome = "Cancelled" => batch'.cancelled \/ batch'.abort
    BY <1>1, <1>5, <1>6, <1>10, <1>13 DEF Sound
  <2>6. batch' = batch
    BY <1>5
  <2>7. QED
    BY <2>3, <2>4, <2>5, <2>6 DEF Sound, MessageOK
<1>20. QED
  BY <1>1, <1>10, <1>12, <1>16, <1>17, <1>18, <1>19 DEF LIInv, BInv

\* A worker goes on with its book, with another outcome or none.
LEMMA WorkerGoes ==
  ASSUME BInv, NEW w \in Scanners, workers[w].at \in Admitted,
         NEW to \in Admitted \ {"sending"}, workers' = [workers EXCEPT ![w].at = to],
         UNCHANGED <<batch, next_book, budget, channel>>, TextsKept,
         \A v \in Scanners \ {w} : scans'[v].text = scans[v].text
  PROVE  BInv'
<1>1. PICK r : r = [workers[w] EXCEPT !.at = to]
  OBVIOUS
<1>2. workers[w] \in WorkerType /\ workers \in [Scanners -> WorkerType]
  BY TypeParts
<1>3. r \in WorkerType /\ r.at = to /\ r.book = workers[w].book
  BY <1>1, <1>2 DEF WorkerType, Admitted
<1>4. workers' = [workers EXCEPT ![w] = r]
  BY <1>1, <1>2
<1>5. QED
  BY <1>3, <1>4, WorkerMoves

\* A worker has the outcome of its book.
LEMMA OutcomeStep ==
  ASSUME BInv, NEW w \in Scanners, workers[w].at \in {"opening", "preparing"},
         NEW outcome \in Outcomes, Outcome(w, outcome),
         UNCHANGED <<batch, next_book, budget, channel>>, TextsKept, scans' = scans,
         outcome = "Prepared" => scans[w].text # NoText, outcome = "Cancelled" => stop
  PROVE  BInv'
<1>1. PICK r : r = [workers[w] EXCEPT !.at = "sending", !.outcome = outcome]
  OBVIOUS
<1>2. workers[w] \in WorkerType /\ workers \in [Scanners -> WorkerType]
  BY TypeParts
<1>3. r \in WorkerType /\ r.at = "sending" /\ r.outcome = outcome /\ r.book = workers[w].book
  BY <1>1, <1>2 DEF WorkerType
<1>4. workers' = [workers EXCEPT ![w] = r]
  BY <1>1, <1>2 DEF Outcome
<1>5. outcome # "none" /\ r.at \in Admitted /\ workers[w].at \in Admitted
  BY <1>3 DEF Outcomes, Admitted
<1>6. QED
  BY <1>3, <1>4, <1>5, WorkerMoves

\* The steps of a worker that opens, reads and closes the session of its book.
LEMMA SessionStep ==
  ASSUME LIInv, NEW w \in Scanners,
         Open(w) \/ ReadBegins(w) \/ ReadEnds(w) \/ Dropped(w)
  PROVE  LIInv'
<1>1. IInv /\ BInv /\ TypeOK
  BY DEF LIInv, IInv
<1>2. \A s \in Scanners : scans[s] \in ScanType
  BY <1>1, ScanIn
<1>3. scans \in [Scanners -> ScanType]
  BY <1>1 DEF TypeOK, ScanType
<1>4. CASE Open(w)
  <2>1. IInv' /\ TextsKept
    BY <1>1, <1>4, BeginScanStep DEF Open
  <2>2. \A v \in Scanners \ {w} : scans'[v] = scans[v]
    BY <1>3, <1>4 DEF Open, begin_scan
  <2>3. BInv'
    BY <1>1, <1>4, <2>1, <2>2, WorkerGoes DEF Open, Goes, Admitted
  <2>4. QED
    BY <2>1, <2>3 DEF LIInv
<1>5. CASE ReadBegins(w)
  <2>1. IInv' /\ TextsKept
    BY <1>1, <1>5, ReadStep DEF ReadBegins
  <2>2. \A v \in Scanners : v # w => scans'[v] = scans[v]
    BY <1>3, <1>5 DEF ReadBegins, Read
  <2>3. workers[w].at = "reading" /\ UNCHANGED batch_vars
    BY <1>5 DEF ReadBegins
  <2>4. \A v \in Scanners : workers[v].at = "sending" => scans'[v].text = scans[v].text
    BY <2>2, <2>3
  <2>5. BInv'
    BY <1>1, <2>1, <2>3, <2>4, BatchSame
  <2>6. QED
    BY <2>1, <2>5 DEF LIInv
<1>6. CASE ReadEnds(w)
  <2>1. Goes(w, "reading", "dropping") /\ UNCHANGED <<batch, next_book, budget, channel>>
    BY <1>6 DEF ReadEnds
  <2>2. IInv' /\ TextsKept /\ \A v \in Scanners \ {w} : scans'[v] = scans[v]
    <3>1. CASE ReadDone(w)
      BY <1>1, <1>3, <3>1, ReadDoneStep DEF ReadDone
    <3>2. CASE ReadFails(w)
      BY <1>1, <1>3, <3>2, ReadFailsStep DEF ReadFails
    <3>3. CASE ReadRefused(w)
      BY <1>1, <3>3, LookStep DEF ReadRefused
    <3>4. QED
      BY <1>6, <3>1, <3>2, <3>3 DEF ReadEnds
  <2>3. BInv'
    BY <1>1, <2>1, <2>2, WorkerGoes DEF Goes, Admitted
  <2>4. QED
    BY <2>2, <2>3 DEF LIInv
<1>7. CASE Dropped(w)
  <2>1. IInv' /\ TextsKept
    BY <1>1, <1>7, DropStep DEF Dropped
  <2>2. \A v \in Scanners \ {w} : scans'[v] = scans[v]
    BY <1>3, <1>7 DEF Dropped, Drop
  <2>3. BInv'
    BY <1>1, <1>7, <2>1, <2>2, WorkerGoes DEF Dropped, Goes, Admitted
  <2>4. QED
    BY <2>1, <2>3 DEF LIInv
<1>8. QED
  BY <1>4, <1>5, <1>6, <1>7

\* The steps of a worker that end with an outcome.
LEMMA PrepareStep ==
  ASSUME LIInv, NEW w \in Scanners, OpenFails(w) \/ Prepare(w) \/ PrepareFails(w)
  PROVE  LIInv'
<1>1. IInv /\ BInv
  BY DEF LIInv
<1>2. CASE OpenFails(w)
  <2>1. IInv' /\ TextsKept /\ scans' = scans
    BY <1>1, <1>2, LookStep DEF OpenFails
  <2>2. BInv'
    BY <1>1, <1>2, <2>1, OutcomeStep DEF OpenFails, Outcomes
  <2>3. QED
    BY <2>1, <2>2 DEF LIInv
<1>3. CASE Prepare(w)
  <2>1. IInv' /\ TextsKept /\ scans' = scans
    BY <1>1, <1>3, ApartStep DEF Prepare, vars
  <2>2. PICK outcome : outcome = CASE stop -> "Cancelled"
                  [] ~stop /\ scans[w].text = NoText -> "Unavailable"
                  [] ~stop /\ scans[w].text # NoText ->
                       IF workers[w].book \in Empty THEN "Missing" ELSE "Prepared"
    OBVIOUS
  <2>3. stop \in BOOLEAN
    BY <1>1, TypeParts DEF stop
  <2>4. /\ outcome \in Outcomes /\ (outcome = "Prepared" => scans[w].text # NoText)
        /\ outcome = "Cancelled" => stop
    <3>1. CASE stop
      BY <2>2, <3>1 DEF Outcomes
    <3>2. CASE ~stop /\ scans[w].text = NoText
      BY <2>2, <3>2 DEF Outcomes
    <3>3. CASE ~stop /\ scans[w].text # NoText
      <4>1. outcome = IF workers[w].book \in Empty THEN "Missing" ELSE "Prepared"
        BY <2>2, <3>3
      <4>2. QED
        BY <3>3, <4>1 DEF Outcomes
    <3>4. QED
      BY <3>1, <3>2, <3>3
  <2>5. Outcome(w, outcome) /\ workers[w].at = "preparing"
        /\ UNCHANGED <<batch, next_book, budget, channel>>
    BY <1>3, <2>2 DEF Prepare
  <2>6. BInv'
    BY <1>1, <2>1, <2>4, <2>5, OutcomeStep
  <2>7. QED
    BY <2>1, <2>6 DEF LIInv
<1>4. CASE PrepareFails(w)
  <2>1. IInv' /\ TextsKept /\ scans' = scans
    BY <1>1, <1>4, HappensStep DEF PrepareFails, Happens
  <2>2. BInv'
    BY <1>1, <1>4, <2>1, OutcomeStep DEF PrepareFails, Outcomes
  <2>3. QED
    BY <2>1, <2>2 DEF LIInv
<1>5. QED
  BY <1>2, <1>3, <1>4

----------------------------------------------------------------------------
(* The calling thread.                                                     *)

\* The types after a step that leaves the workers alone.
LEMMA BatchTypesNext ==
  ASSUME BInv, batch' \in BatchType, UNCHANGED <<workers, next_book>>, channel' \in Seq(Message),
         budget' \in [in_flight : 0 .. book_workers, next : 1 .. NumBooks + 1]
  PROVE  BatchTypes'
<1>1. /\ workers' \in [Scanners -> WorkerType] /\ next_book' \in Nat \ {0}
      /\ \A w \in Scanners : /\ workers'[w].at \notin Idle => workers'[w].book # 0
                             /\ workers'[w].at = "sending" => workers'[w].outcome # "none"
  BY TypeParts
<1>2. QED
  BY <1>1, TypesNext

\* Once the books have their numbers the workers take them.
LEMMA NumberStep == ASSUME LIInv, Number PROVE LIInv'
<1>1. IInv' /\ TextsKept /\ BInv
  BY ApartStep DEF Number, LIInv
<1>2. batch \in BatchType /\ batch.at = "numbering" /\ batch' = [batch EXCEPT !.at = "receiving"]
      /\ UNCHANGED <<next_book, budget, channel>>
      /\ workers' = [w \in Scanners |-> [NoWorker EXCEPT !.at = "taking"]]
  BY <1>1, TypeParts DEF Number
<1>3. /\ batch' \in BatchType /\ batch'.at = "receiving" /\ batch'.next = batch.next
      /\ batch'.waiting = batch.waiting /\ batch'.results = batch.results
      /\ batch'.abort = batch.abort /\ batch'.cancelled = batch.cancelled
  BY <1>2 DEF BatchType
<1>4. /\ next_book = 1 /\ budget = [in_flight |-> 0, next |-> 1] /\ batch.next = 1
      /\ batch.waiting = {} /\ ~batch.abort /\ channel = <<>>
  BY <1>1, <1>2 DEF BInv, Stages, Adding
<1>5. PICK r : r = [at |-> "taking", book |-> 0, outcome |-> "none"]
  OBVIOUS
<1>6. NumBooks \in Nat /\ r \in WorkerType
  BY <1>1, <1>5, TypeParts DEF WorkerType
<1>7. workers' \in [Scanners -> WorkerType] /\ \A w \in Scanners : workers'[w] = r
  BY <1>2, <1>5, <1>6 DEF NoWorker
<1>8. \A w \in Scanners : workers'[w].at = "taking"
  BY <1>5, <1>7
<1>9. BatchTypes'
  <2>1. \A w \in Scanners : /\ workers'[w].at \notin Idle => workers'[w].book # 0
                            /\ workers'[w].at = "sending" => workers'[w].outcome # "none"
    BY <1>8 DEF Idle
  <2>2. /\ next_book' \in Nat \ {0} /\ channel' \in Seq(Message)
        /\ budget' \in [in_flight : 0 .. book_workers, next : 1 .. NumBooks + 1]
    BY <1>1, <1>2, TypeParts
  <2>3. QED
    BY <1>3, <1>7, <2>1, <2>2, TypesNext
<1>10. Settled'
  BY <1>1, <1>2, <1>3 DEF BInv, Settled, Ended
<1>11. Stages'
  BY <1>3, <1>4, <1>8 DEF Stages, Adding
<1>12. Len(channel') = 0 /\ batch'.waiting = {} /\ budget'.next = 1 /\ budget'.in_flight = 0 /\ batch'.next = 1
  BY <1>2, <1>3, <1>4
<1>13. Places'
  BY <1>8, <1>12 DEF Places, Admitted
<1>14. Apart'
  BY <1>8, <1>12 DEF Apart, Admitted
<1>15. Covered'
  BY <1>2, <1>4, <1>6, <1>8, <1>12 DEF Covered
<1>16. Sound'
  BY <1>8, <1>12 DEF Sound
<1>17. QED
  BY <1>1, <1>9, <1>10, <1>11, <1>13, <1>14, <1>15, <1>16 DEF LIInv, BInv

\* The batch ends; nothing is asked of one that ended.
LEMMA EndStep ==
  ASSUME BInv, batch' \in BatchType, batch'.at \in {"returned", "failed"},
         UNCHANGED <<workers, next_book, budget>>, channel' = <<>>,
         \A w \in Scanners : workers[w].at \in Idle \ {"taking"}
  PROVE  BInv'
<1>1. channel' \in Seq(Message)
  OBVIOUS
<1>2. BatchTypes'
  BY <1>1, TypeParts, BatchTypesNext
<1>3. Stages'
  BY DEF Stages, Adding
<1>4. QED
  BY <1>2, <1>3 DEF BInv, Ended, Adding

\* The steps that end the batch.
LEMMA EndsStep == ASSUME LIInv, NumberFails \/ Return \/ Join PROVE LIInv'
<1>1. IInv' /\ TextsKept /\ BInv /\ batch \in BatchType
  <2>1. IInv /\ BInv
    BY DEF LIInv
  <2>2. CASE NumberFails
    BY <2>1, <2>2, HappensStep, TypeParts DEF NumberFails
  <2>3. CASE Return \/ Join
    BY <2>1, <2>3, ApartStep, TypeParts DEF Return, Join
  <2>4. QED
    BY <2>2, <2>3
<1>2. CASE NumberFails
  <2>1. batch' \in BatchType /\ batch'.at = "failed"
    BY <1>1, <1>2 DEF NumberFails, BatchType
  <2>2. channel' = <<>> /\ \A w \in Scanners : workers[w].at = "none"
    BY <1>1, <1>2 DEF NumberFails, BInv, Stages, Adding
  <2>3. BInv'
    BY <1>1, <1>2, <2>1, <2>2, EndStep DEF NumberFails, Idle
  <2>4. QED
    BY <1>1, <2>3 DEF LIInv
<1>3. CASE Return
  <2>1. PICK f : f = [i \in 1 .. NumBooks |-> IF batch.results[i] = "none" THEN "Cancelled" ELSE batch.results[i]]
    OBVIOUS
  <2>2. batch' = [batch EXCEPT !.at = "returned", !.results = f]
    BY <1>1, <1>3, <2>1 DEF Return, BatchType
  <2>3. f \in [1 .. NumBooks -> Outcomes \cup {"Indexed", "none"}]
    BY <1>1, <2>1 DEF BatchType, Outcomes
  <2>4. batch' \in BatchType /\ batch'.at = "returned"
    BY <1>1, <2>2, <2>3 DEF BatchType
  <2>5. BInv'
    BY <1>1, <1>3, <2>4, EndStep DEF Return, AllExited, Idle
  <2>6. QED
    BY <1>1, <2>5 DEF LIInv
<1>4. CASE Join
  <2>1. batch' \in BatchType /\ batch'.at = "failed"
    BY <1>1, <1>4 DEF Join, BatchType
  <2>2. channel' = <<>>
    BY <1>1, <1>4 DEF Join, BInv, Stages, Adding
  <2>3. BInv'
    BY <1>1, <1>4, <2>1, <2>2, EndStep DEF Join, AllExited, Idle
  <2>4. QED
    BY <1>1, <2>3 DEF LIInv
<1>5. QED
  BY <1>2, <1>3, <1>4

\* The writer fails: the receiver is gone, and the workers are told to leave.
LEMMA AddFailsStep == ASSUME LIInv, AddFails PROVE LIInv'
<1>1. IInv' /\ TextsKept /\ BInv
  BY HappensStep DEF AddFails, LIInv
<1>2. batch \in BatchType /\ batch.at = "adding"
      /\ batch' = [batch EXCEPT !.at = "joining", !.abort = TRUE, !.waiting = {}]
      /\ UNCHANGED <<workers, next_book, budget>> /\ channel' = <<>>
  BY <1>1, TypeParts DEF AddFails
<1>3. /\ batch' \in BatchType /\ batch'.at = "joining" /\ batch'.next = batch.next
      /\ batch'.results = batch.results
  BY <1>2 DEF BatchType
<1>4. batch'.abort
  BY <1>2, Zenon DEF BatchType
<1>5. channel' \in Seq(Message) /\ budget' \in [in_flight : 0 .. book_workers, next : 1 .. NumBooks + 1]
  BY <1>1, <1>2, TypeParts
<1>6. BatchTypes'
  BY <1>1, <1>2, <1>3, <1>5, BatchTypesNext
<1>7. Settled'
  BY <1>1, <1>2, <1>3 DEF BInv, Settled, Ended
<1>8. Stages'
  BY <1>2, <1>3, <1>4 DEF Stages, Adding
<1>9. QED
  BY <1>1, <1>3, <1>6, <1>7, <1>8 DEF LIInv, BInv, Adding

\* The application cancels the batch.
LEMMA CancelStep == ASSUME LIInv, cancel PROVE LIInv'
<1>1. IInv' /\ TextsKept /\ BInv /\ scans' = scans
  BY ApartStep DEF cancel, LIInv, vars
<1>2. batch \in BatchType /\ batch' = [batch EXCEPT !.cancelled = TRUE]
      /\ UNCHANGED <<workers, next_book, budget, channel>>
  BY <1>1, TypeParts DEF cancel
<1>3. /\ batch' \in BatchType /\ batch'.at = batch.at /\ batch'.next = batch.next
      /\ batch'.results = batch.results /\ batch'.waiting = batch.waiting
  BY <1>2 DEF BatchType
<1>4. batch'.cancelled /\ batch'.abort = batch.abort
  BY <1>2, Zenon DEF BatchType
<1>5. BatchTypes'
  BY <1>1, <1>2, <1>3, TypeParts, BatchTypesNext
<1>6. (~Ended' => Settled') /\ (Adding' <=> Adding)
  BY <1>1, <1>3 DEF BInv, Settled, Ended, Adding
<1>7. Stages'
  <2>1. Waiting' = Waiting
    BY <1>3 DEF Waiting
  <2>2. Stages
    BY <1>1 DEF BInv
  <2>3. QED
    BY <1>2, <1>3, <1>4, <2>1, <2>2 DEF Stages, Adding
<1>8. ASSUME Adding PROVE Places' /\ Apart' /\ Covered' /\ Sound'
  <2>1. Places /\ Apart /\ Covered /\ Sound
    BY <1>1, <1>8 DEF BInv
  <2>2. Places' /\ Apart'
    BY <1>2, <1>3, <2>1 DEF Places, InFlight, Apart
  <2>3. Covered'
    BY <1>4 DEF Covered
  <2>4. \A v \in Scanners : workers'[v].at = "sending" =>
          /\ workers'[v].outcome = "Prepared" => scans'[v].text # NoText
          /\ workers'[v].outcome = "Cancelled" => batch'.cancelled \/ batch'.abort
    BY <1>1, <1>2, <1>4, <2>1 DEF Sound
  <2>5. Sound'
    BY <1>1, <1>2, <1>3, <1>4, <2>1, <2>4, SoundSameMessages
  <2>6. QED
    BY <2>2, <2>3, <2>5
<1>9. QED
  BY <1>1, <1>5, <1>6, <1>7, <1>8 DEF LIInv, BInv

\* What LineSource's callers do leaves the batch alone.
LEMMA AroundStep == ASSUME LIInv, Around PROVE LIInv'
<1>1. Next /\ UNCHANGED batch_vars
  BY DEF Around, Next
<1>2. IInv' /\ TextsKept
  BY <1>1, NextIInv DEF LIInv
<1>3. scans' = scans
  BY DEF Around, App, Waited, with_store, WindowFails, ProbeFails, Happens, suspend, suspend_owned,
         resume, resume_owned, Replace, Exit, configure, Begins
<1>4. BInv'
  BY <1>1, <1>2, <1>3, BatchSame DEF LIInv
<1>5. QED
  BY <1>2, <1>4 DEF LIInv

\* Receive: the first message of the channel waits for its turn.
LEMMA ReceiveStep == ASSUME LIInv, Receive PROVE LIInv'
<1>1. IInv' /\ TextsKept /\ scans' = scans /\ BInv
  BY ApartStep DEF Receive, LIInv, vars
<1>2. PICK m : m = Head(channel)
  OBVIOUS
<1>3. /\ batch \in BatchType /\ batch.at = "receiving" /\ channel # <<>> /\ Adding
      /\ batch' = [batch EXCEPT !.waiting = batch.waiting \cup {m}] /\ channel' = Tail(channel)
      /\ UNCHANGED <<workers, next_book, budget>>
  BY <1>1, <1>2, TypeParts DEF Receive, Adding
<1>4. /\ channel \in Seq(Message) /\ channel' \in Seq(Message)
      /\ Len(channel) \in Nat /\ Len(channel) >= 1 /\ Len(channel') = Len(channel) - 1
      /\ m = channel[1] /\ m \in Message
      /\ \A k \in 1 .. Len(channel') : channel'[k] = channel[k + 1]
  <2>1. channel \in Seq(Message) /\ channel # <<>> /\ Len(channel) \in Nat
    BY <1>1, <1>3, TypeParts
  <2>2. /\ Head(channel) \in Message /\ Tail(channel) \in Seq(Message)
        /\ Len(Tail(channel)) = Len(channel) - 1
        /\ \A k \in 1 .. Len(Tail(channel)) : Tail(channel)[k] = channel[k + 1]
    BY <2>1, HeadTailProperties
  <2>3. Len(channel) # 0
    BY <2>1, EmptySeq
  <2>4. Head(channel) = channel[1]
    BY <2>1
  <2>5. QED
    BY <1>2, <1>3, <2>1, <2>2, <2>3, <2>4
<1>5. /\ 1 \in 1 .. Len(channel)
      /\ \A k \in 1 .. Len(channel') : k + 1 \in 1 .. Len(channel) /\ k + 1 # 1 /\ channel'[k] = channel[k + 1]
  BY <1>4
<1>6. PICK W : W = batch.waiting \cup {m}
  OBVIOUS
<1>7. /\ batch' \in BatchType /\ batch'.at = "receiving" /\ batch'.next = batch.next
      /\ batch'.results = batch.results /\ batch'.waiting = W
  BY <1>3, <1>4, <1>6 DEF BatchType
<1>8. batch'.cancelled = batch.cancelled /\ batch'.abort = batch.abort
  BY <1>3, Zenon DEF BatchType
<1>9. BatchTypes'
  BY <1>1, <1>3, <1>4, <1>7, TypeParts, BatchTypesNext
<1>10. Settled'
  BY <1>1, <1>3, <1>7 DEF BInv, Settled, Ended
<1>11. Stages'
  BY <1>1, <1>3, <1>7, <1>8 DEF BInv, Stages, Adding
<1>12. Places /\ Apart /\ Covered /\ Sound
  BY <1>1, <1>3 DEF BInv
<1>13. Places'
  <2>1. InFlight(m.book)
    BY <1>4, <1>5, <1>12 DEF Places
  <2>2. \A k \in 1 .. Len(channel') : InFlight(channel'[k].book)
    BY <1>5, <1>12 DEF Places
  <2>3. \A o \in W : InFlight(o.book)
    BY <1>6, <1>12, <2>1 DEF Places
  <2>4. QED
    BY <1>3, <1>7, <1>12, <2>2, <2>3 DEF Places, InFlight
<1>14. Apart'
  <2>1. \A j, k \in 1 .. Len(channel') : channel'[j].book = channel'[k].book => j = k
    <3>1. SUFFICES ASSUME NEW j \in 1 .. Len(channel'), NEW k \in 1 .. Len(channel'),
                          channel'[j].book = channel'[k].book
                   PROVE  j = k
      OBVIOUS
    <3>2. j + 1 = k + 1
      BY <1>5, <1>12, <3>1 DEF Apart
    <3>3. QED
      BY <1>4, <3>1, <3>2
  <2>2. \A o \in batch.waiting : o.book # m.book
    BY <1>4, <1>5, <1>12 DEF Apart
  <2>3. \A o, p \in W : o.book = p.book => o = p
    BY <1>6, <1>12, <2>2 DEF Apart
  <2>4. \A v \in Scanners : workers[v].at \in Admitted =>
          /\ \A k \in 1 .. Len(channel') : channel'[k].book # workers[v].book
          /\ \A o \in W : o.book # workers[v].book
    BY <1>4, <1>5, <1>6, <1>12 DEF Apart
  <2>5. \A k \in 1 .. Len(channel') : \A o \in W : channel'[k].book # o.book
    <3>1. SUFFICES ASSUME NEW k \in 1 .. Len(channel'), NEW o \in W PROVE channel'[k].book # o.book
      OBVIOUS
    <3>2. CASE o = m
      BY <1>4, <1>5, <1>12, <3>2 DEF Apart
    <3>3. CASE o \in batch.waiting
      BY <1>5, <1>12, <3>3 DEF Apart
    <3>4. QED
      BY <1>6, <3>2, <3>3
  <2>6. \A u, v \in Scanners :
          /\ workers[u].at \in Admitted /\ workers[v].at \in Admitted
          /\ workers[u].book = workers[v].book
          => u = v
    BY <1>12 DEF Apart
  <2>7. workers' = workers /\ batch'.waiting = W
    BY <1>3, <1>7
  <2>8. QED
    BY <2>1, <2>3, <2>4, <2>5, <2>6, <2>7 DEF Apart
<1>15. Covered'
  <2>1. ASSUME NEW b \in 1 .. NumBooks, Somewhere(b) PROVE Somewhere(b)'
    <3>1. CASE \E v \in Scanners : workers[v].at \notin Idle /\ workers[v].book = b
      BY <1>3, <3>1 DEF Somewhere
    <3>2. CASE \E k \in 1 .. Len(channel) : channel[k].book = b
      <4>1. PICK k \in 1 .. Len(channel) : channel[k].book = b
        BY <3>2
      <4>2. CASE k = 1
        BY <1>4, <1>6, <1>7, <4>1, <4>2 DEF Somewhere
      <4>3. CASE k # 1
        <5>1. k - 1 \in 1 .. Len(channel') /\ channel'[k - 1] = channel[(k - 1) + 1] /\ (k - 1) + 1 = k
          BY <1>4, <4>1, <4>3
        <5>2. channel'[k - 1].book = b
          BY <4>1, <5>1
        <5>3. QED
          BY <5>1, <5>2 DEF Somewhere
      <4>4. QED
        BY <4>2, <4>3
    <3>3. CASE \E o \in batch.waiting : o.book = b
      BY <1>6, <1>7, <3>3 DEF Somewhere
    <3>4. QED
      BY <2>1, <3>1, <3>2, <3>3 DEF Somewhere
  <2>2. QED
    BY <1>3, <1>7, <1>8, <1>12, <2>1 DEF Covered
<1>16. Sound'
  <2>1. \A k \in 1 .. Len(channel) : \A o \in Message : o = channel[k] => MessageOK(o)'
    BY <1>1, <1>8, <1>12, MessagesKept
  <2>2. \A o \in batch.waiting : MessageOK(o)'
    BY <1>1, <1>8, <1>12, MessagesKept
  <2>3. \A k \in 1 .. Len(channel') : MessageOK(channel[k])'
    <3>1. SUFFICES ASSUME NEW k \in 1 .. Len(channel') PROVE MessageOK(channel[k])'
      OBVIOUS
    <3>2. PICK o \in Message : o = channel[k + 1]
      BY <1>1, <1>5, InChannel
    <3>3. MessageOK(o)'
      BY <1>5, <2>1, <3>2
    <3>4. channel'[k] = o
      BY <1>5, <3>2
    <3>5. QED
      BY <3>3, <3>4 DEF MessageOK
  <2>4. \A o \in W : MessageOK(o)'
    BY <1>4, <1>5, <1>6, <2>1, <2>2
  <2>5. \A v \in Scanners : workers'[v].at = "sending" =>
          /\ workers'[v].outcome = "Prepared" => scans'[v].text # NoText
          /\ workers'[v].outcome = "Cancelled" => batch'.cancelled \/ batch'.abort
    BY <1>1, <1>3, <1>8, <1>12 DEF Sound
  <2>6. QED
    BY <1>7, <2>3, <2>4, <2>5 DEF Sound, MessageOK
<1>17. QED
  BY <1>1, <1>9, <1>10, <1>11, <1>13, <1>14, <1>15, <1>16 DEF LIInv, BInv

\* Settle: the next book has its result, and is in flight no more.
LEMMA SettleStep ==
  ASSUME BInv, TextsKept, scans' = scans, Adding, NEW o \in Waiting,
         NEW status \in Outcomes \cup {"Indexed"}, Settle(o, status)
  PROVE  BInv'
<1>1. /\ o \in batch.waiting /\ o.book = batch.next /\ o \in Message /\ o.book \in 1 .. NumBooks
      /\ NumBooks \in Nat /\ batch \in BatchType
      /\ budget \in [in_flight : 0 .. book_workers, next : 1 .. NumBooks + 1] /\ book_workers \in Nat
  BY TypeParts DEF Waiting, Message
<1>2. PICK n : n = batch.next
  OBVIOUS
<1>3. PICK A : A = IF status = "Indexed" THEN Append(batch.added, o.book) ELSE batch.added
  OBVIOUS
<1>4. PICK R : R = [batch.results EXCEPT ![n] = status]
  OBVIOUS
<1>5. PICK W : W = batch.waiting \ {o}
  OBVIOUS
<1>6. A \in Seq(1 .. NumBooks)
  BY <1>1, <1>3, AppendProperties DEF BatchType
<1>7. n \in 1 .. NumBooks /\ batch.results \in [1 .. NumBooks -> Outcomes \cup {"Indexed", "none"}]
  BY <1>1, <1>2 DEF BatchType
<1>8. R \in [1 .. NumBooks -> Outcomes \cup {"Indexed", "none"}]
      /\ \A b \in 1 .. NumBooks : R[b] = IF b = n THEN status ELSE batch.results[b]
  BY <1>4, <1>7
<1>9. batch' = [batch EXCEPT !.at = "receiving", !.next = n + 1, !.waiting = W, !.results = R, !.added = A]
  BY <1>1, <1>2, <1>3, <1>4, <1>5 DEF Settle, BatchType
<1>10. n + 1 \in 1 .. NumBooks + 1 /\ W \in SUBSET Message
  BY <1>1, <1>5, <1>7 DEF BatchType
<1>11. /\ batch' \in BatchType /\ batch'.at = "receiving" /\ batch'.next = n + 1
       /\ batch'.waiting = W /\ batch'.results = R
  BY <1>1, <1>6, <1>8, <1>9, <1>10 DEF BatchType
<1>12. batch'.cancelled = batch.cancelled /\ batch'.abort = batch.abort
  BY <1>1, <1>9, Zenon DEF BatchType
<1>13. Places /\ Apart /\ Covered /\ Sound /\ Settled
  BY DEF BInv, Adding, Ended
<1>14. budget.in_flight = budget.next - n /\ n < budget.next
  BY <1>1, <1>2, <1>13 DEF Places, InFlight
<1>15. PICK f : f = budget.in_flight
  OBVIOUS
<1>16. PICK x : x = budget.next
  OBVIOUS
<1>17. f \in 0 .. book_workers /\ x \in 1 .. NumBooks + 1 /\ f = x - n /\ n < x
  BY <1>1, <1>14, <1>15, <1>16
<1>18. /\ budget' = [budget EXCEPT !.in_flight = f - 1]
       /\ UNCHANGED <<workers, next_book, channel>>
  BY <1>1, <1>15 DEF Settle
<1>19. /\ budget' \in [in_flight : 0 .. book_workers, next : 1 .. NumBooks + 1]
       /\ budget'.in_flight = f - 1 /\ budget'.next = x
  <2>1. f - 1 \in 0 .. book_workers
    BY <1>1, <1>7, <1>17
  <2>2. QED
    BY <1>1, <1>16, <1>18, <2>1
<1>20. BatchTypes'
  BY <1>11, <1>18, <1>19, TypeParts, BatchTypesNext
<1>21. Settled'
  <2>1. \A b \in 1 .. NumBooks : R[b] = "none" <=> n + 1 <= b
    <3>1. SUFFICES ASSUME NEW b \in 1 .. NumBooks PROVE R[b] = "none" <=> n + 1 <= b
      OBVIOUS
    <3>2. CASE b = n
      <4>1. R[b] # "none"
        BY <1>8, <3>2 DEF Outcomes
      <4>2. QED
        BY <1>1, <1>7, <3>2, <4>1
    <3>3. CASE b # n
      <4>1. R[b] = "none" <=> n <= b
        BY <1>2, <1>8, <1>13, <3>3 DEF Settled
      <4>2. QED
        BY <1>1, <1>7, <3>3, <4>1
    <3>4. QED
      BY <3>2, <3>3
  <2>2. QED
    BY <1>11, <2>1 DEF Settled
<1>22. Stages'
  BY <1>11, <1>12, <1>18 DEF BInv, Stages, Adding
<1>23. ASSUME NEW b \in 1 .. NumBooks, InFlight(b), b # n PROVE InFlight(b)'
  BY <1>1, <1>2, <1>7, <1>11, <1>16, <1>17, <1>19, <1>23 DEF InFlight
<1>24. Places'
  <2>1. \A w \in Scanners : workers[w].at \in Admitted =>
          workers[w].book \in 1 .. NumBooks /\ InFlight(workers[w].book) /\ workers[w].book # n
    <3>1. SUFFICES ASSUME NEW w \in Scanners, workers[w].at \in Admitted
                   PROVE  workers[w].book \in 1 .. NumBooks /\ InFlight(workers[w].book)
                          /\ workers[w].book # n
      OBVIOUS
    <3>2. workers[w] \in WorkerType /\ workers[w].book # 0
      BY <3>1, TypeParts DEF Admitted, Idle
    <3>3. workers[w].book \in 1 .. NumBooks
      BY <1>1, <3>2 DEF WorkerType
    <3>4. QED
      BY <1>1, <1>2, <1>13, <3>1, <3>3 DEF Places, Apart
  <2>2. \A k \in 1 .. Len(channel) :
          channel[k].book \in 1 .. NumBooks /\ InFlight(channel[k].book) /\ channel[k].book # n
    BY <1>1, <1>2, <1>13, InChannel DEF Places, Apart
  <2>3. \A p \in W : p.book \in 1 .. NumBooks /\ InFlight(p.book) /\ p.book # n
    <3>1. \A p \in batch.waiting : p.book \in 1 .. NumBooks
      BY TypeParts DEF Message
    <3>2. QED
      BY <1>1, <1>2, <1>5, <1>13, <3>1 DEF Places, Apart
  <2>4. budget'.in_flight = budget'.next - batch'.next
    BY <1>7, <1>11, <1>17, <1>19
  <2>5. \A w \in Scanners : workers'[w].at \in Admitted => InFlight(workers[w].book)'
    BY <1>18, <1>23, <2>1 DEF InFlight
  <2>6. \A k \in 1 .. Len(channel') : InFlight(channel[k].book)'
    BY <1>18, <1>23, <2>2 DEF InFlight
  <2>7. \A p \in batch'.waiting : InFlight(p.book)'
    BY <1>11, <1>23, <2>3
  <2>8. QED
    BY <2>4, <2>5, <2>6, <2>7 DEF Places
<1>25. Apart'
  BY <1>5, <1>11, <1>13, <1>18 DEF Apart
<1>26. Covered'
  <2>1. SUFFICES ASSUME ~batch.cancelled PROVE Covered'
    BY <1>12 DEF Covered
  <2>2. ASSUME NEW b \in 1 .. NumBooks, n + 1 <= b, b < next_book PROVE Somewhere(b)'
    <3>1. n <= b /\ b # n
      BY <1>1, <1>7, <2>2
    <3>2. Somewhere(b)
      BY <1>2, <1>13, <2>1, <2>2, <3>1 DEF Covered
    <3>3. \A p \in batch.waiting : p.book = b => p \in W
      BY <1>1, <1>2, <1>5, <3>1
    <3>4. QED
      BY <1>11, <1>18, <3>2, <3>3 DEF Somewhere
  <2>3. \A w \in Scanners : workers'[w].at = "exited" => next_book' > NumBooks
    BY <1>13, <1>18, <2>1 DEF Covered
  <2>4. QED
    BY <1>11, <1>18, <2>2, <2>3 DEF Covered
<1>27. Sound'
  <2>1. \A k \in 1 .. Len(channel') : MessageOK(channel[k])'
    <3>1. SUFFICES ASSUME NEW k \in 1 .. Len(channel) PROVE MessageOK(channel[k])'
      BY <1>18
    <3>2. PICK p \in Message : p = channel[k]
      BY InChannel
    <3>3. MessageOK(p)'
      BY <1>12, <1>13, <3>2, MessagesKept
    <3>4. QED
      BY <1>18, <3>2, <3>3 DEF MessageOK
  <2>2. \A p \in W : MessageOK(p)'
    BY <1>5, <1>12, <1>13, MessagesKept
  <2>3. \A v \in Scanners : workers'[v].at = "sending" =>
          /\ workers'[v].outcome = "Prepared" => scans'[v].text # NoText
          /\ workers'[v].outcome = "Cancelled" => batch'.cancelled \/ batch'.abort
    BY <1>12, <1>13, <1>18 DEF Sound
  <2>4. QED
    BY <1>11, <2>1, <2>2, <2>3 DEF Sound, MessageOK
<1>28. QED
  BY <1>20, <1>21, <1>22, <1>24, <1>25, <1>26, <1>27 DEF BInv

\* The book that was prepared is begun to be added.
LEMMA BeginStep ==
  ASSUME BInv, TextsKept, scans' = scans, batch.at = "receiving",
         batch' = [batch EXCEPT !.at = "adding"], UNCHANGED <<workers, next_book, budget, channel>>
  PROVE  BInv'
<1>1. batch \in BatchType
  BY TypeParts
<1>2. /\ batch' \in BatchType /\ batch'.at = "adding" /\ batch'.next = batch.next
      /\ batch'.results = batch.results /\ batch'.waiting = batch.waiting
  BY <1>1 DEF BatchType
<1>3. batch'.cancelled = batch.cancelled /\ batch'.abort = batch.abort
  BY <1>1, Zenon DEF BatchType
<1>4. BatchTypes'
  BY <1>2, TypeParts, BatchTypesNext
<1>5. Places /\ Apart /\ Covered /\ Sound /\ Settled /\ Stages
  BY DEF BInv, Adding, Ended
<1>6. Settled' /\ Stages'
  BY <1>2, <1>3, <1>5 DEF Settled, Stages, Adding
<1>7. Places' /\ Apart' /\ Covered'
  BY <1>2, <1>3, <1>5 DEF Places, InFlight, Apart, Covered, Somewhere
<1>8. \A v \in Scanners : workers'[v].at = "sending" =>
        /\ workers'[v].outcome = "Prepared" => scans'[v].text # NoText
        /\ workers'[v].outcome = "Cancelled" => batch'.cancelled \/ batch'.abort
  BY <1>3, <1>5 DEF Sound
<1>9. Sound'
  BY <1>2, <1>3, <1>5, <1>8, SoundSameMessages
<1>10. QED
  BY <1>4, <1>6, <1>7, <1>9 DEF BInv

\* What Decide does: it begins to add the book, or the book has another result.
LEMMA Decided ==
  ASSUME LIInv, Decide
  PROVE  /\ IInv' /\ TextsKept /\ scans' = scans /\ batch.at = "receiving"
         /\ \E o \in Waiting :
              \/ \E status \in Outcomes \ {"Prepared"} :
                   Settle(o, status) /\ (status = "Cancelled" => batch.cancelled)
              \/ /\ o.outcome = "Prepared" /\ ~batch.cancelled /\ ~Changed(o)
                 /\ batch' = [batch EXCEPT !.at = "adding"]
                 /\ UNCHANGED <<workers, next_book, budget, channel>>
<1>1. IInv /\ BInv
  BY DEF LIInv
<1>2. PICK o \in Waiting :
        /\ batch.at = "receiving"
        /\ \/ o.outcome = "Prepared" /\ Prepared(o) /\ source' = Locked
           \/ o.outcome # "Prepared" /\ Settle(o, o.outcome) /\ UNCHANGED source
        /\ UNCHANGED <<ports, isolates, scans, files, calls_left, scans_left>>
  BY DEF Decide
<1>3. IInv' /\ TextsKept
  <2>1. CASE source' = Locked
    BY <1>1, <1>2, <2>1, LookStep
  <2>2. CASE UNCHANGED source
    BY <1>1, <1>2, <2>2, ApartStep DEF vars
  <2>3. QED
    BY <1>2, <2>1, <2>2
<1>4. o \in batch.waiting /\ o \in Message /\ Sound
  BY <1>1, <1>2, TypeParts DEF Waiting, BInv, Adding
<1>5. CASE o.outcome = "Prepared" /\ Prepared(o)
  <2>1. batch.cancelled \in BOOLEAN
    BY <1>1, TypeParts
  <2>2. CASE batch.cancelled
    BY <1>2, <1>3, <1>5, <2>2 DEF Prepared, Outcomes
  <2>3. CASE ~batch.cancelled /\ Changed(o)
    BY <1>2, <1>3, <1>5, <2>3 DEF Prepared, Outcomes
  <2>4. CASE ~batch.cancelled /\ ~Changed(o)
    BY <1>2, <1>3, <1>5, <2>4 DEF Prepared
  <2>5. QED
    BY <2>1, <2>2, <2>3, <2>4
<1>6. CASE o.outcome # "Prepared" /\ Settle(o, o.outcome)
  <2>1. o.outcome \in Outcomes \ {"Prepared"}
    BY <1>4, <1>6 DEF Message
  <2>2. o.outcome = "Cancelled" => batch.cancelled
    BY <1>4 DEF Sound, MessageOK
  <2>3. QED
    BY <1>2, <1>3, <1>6, <2>1, <2>2
<1>7. QED
  BY <1>2, <1>5, <1>6

\* Decide and Add: the next book is begun, or has its result.
LEMMA DecideStep == ASSUME LIInv, Decide \/ Add PROVE LIInv'
<1>1. IInv /\ BInv
  BY DEF LIInv
<1>2. CASE Decide
  <2>1. /\ IInv' /\ TextsKept /\ scans' = scans /\ batch.at = "receiving" /\ Adding
        /\ \E o \in Waiting :
             \/ \E status \in Outcomes \ {"Prepared"} : Settle(o, status)
             \/ /\ batch' = [batch EXCEPT !.at = "adding"]
                /\ UNCHANGED <<workers, next_book, budget, channel>>
    BY <1>2, Decided DEF Adding
  <2>2. BInv'
    BY <1>1, <2>1, SettleStep, BeginStep
  <2>3. QED
    BY <2>1, <2>2 DEF LIInv
<1>3. CASE Add
  <2>1. PICK o \in Waiting : batch.at = "adding" /\ Settle(o, "Indexed") /\ UNCHANGED vars
    BY <1>3 DEF Add
  <2>2. IInv' /\ TextsKept /\ scans' = scans
    BY <1>1, <2>1, ApartStep DEF vars
  <2>3. BInv'
    BY <1>1, <2>1, <2>2, SettleStep DEF Adding
  <2>4. QED
    BY <2>2, <2>3 DEF LIInv
<1>4. QED
  BY <1>2, <1>3

----------------------------------------------------------------------------
(* The theorems.                                                           *)

\* A batch begins with nothing taken.
LEMMA InitLIInv == ASSUME BatchInit PROVE LIInv
<1>1. IInv
  BY InitIInv DEF BatchInit
<1>2. NumBooks \in Nat /\ book_workers \in Nat
  BY SourceAssumption, BatchAssumption, FS_CardinalityType DEF book_workers
<1>3. /\ batch = [at |-> "numbering", next |-> 1, waiting |-> {}, added |-> <<>>,
                  results |-> [i \in 1 .. NumBooks |-> "none"], cancelled |-> FALSE, abort |-> FALSE]
      /\ workers = [w \in Scanners |-> [at |-> "none", book |-> 0, outcome |-> "none"]]
      /\ next_book = 1 /\ budget = [in_flight |-> 0, next |-> 1] /\ channel = <<>>
  BY DEF BatchInit, NoWorker
<1>4. batch \in BatchType
  BY <1>2, <1>3 DEF BatchType
<1>5. workers \in [Scanners -> WorkerType] /\ \A w \in Scanners : workers[w].at = "none"
  BY <1>2, <1>3 DEF WorkerType
<1>6. BatchTypes
  <2>1. BatchTypeOK
    BY <1>2, <1>3, <1>5 DEF BatchTypeOK, WorkerType, Outcomes
  <2>2. \A w \in Scanners : /\ workers[w].at \notin Idle => workers[w].book # 0
                            /\ workers[w].at = "sending" => workers[w].outcome # "none"
    BY <1>5 DEF Idle
  <2>3. QED
    BY <1>3, <1>4, <2>1, <2>2 DEF BatchTypes, BatchType
<1>7. Stages
  BY <1>3, <1>5 DEF Stages, Adding
<1>8. Settled
  BY <1>2, <1>3 DEF Settled
<1>9. QED
  BY <1>1, <1>3, <1>6, <1>7, <1>8 DEF LIInv, BInv, Adding

\* Every action keeps the invariant.
LEMMA NextLIInv == ASSUME LIInv, [BatchNext]_all_vars PROVE LIInv'
<1>1. CASE UNCHANGED all_vars
  <2>1. IInv' /\ TextsKept /\ scans' = scans
    BY <1>1, ApartStep DEF all_vars, vars, LIInv
  <2>2. BInv'
    BY <1>1, <2>1, BatchSame DEF all_vars, LIInv
  <2>3. QED
    BY <2>1, <2>2 DEF LIInv
<1>2. CASE Around \/ cancel
  BY <1>2, AroundStep, CancelStep
<1>3. CASE Caller \/ NumberFails \/ AddFails
  BY <1>3, NumberStep, ReceiveStep, DecideStep, EndsStep, AddFailsStep DEF Caller
<1>4. ASSUME NEW w \in Scanners, Worker(w) \/ PrepareFails(w) PROVE LIInv'
  BY <1>4, TakeStep, AdmitStep, LeaveStep, SessionStep, PrepareStep, SendStep DEF Worker
<1>5. QED
  BY <1>1, <1>2, <1>3, <1>4 DEF BatchNext

\* The inductive invariant holds, for any books, workers, isolates and paths.
THEOREM BatchInvariant == BatchSpec => []LIInv
  BY InitLIInv, NextLIInv, PTL DEF BatchSpec

\* The state of the batch keeps its types, and its reservations their limit
\* (BatchTypeOK).
THEOREM BatchTypeCorrect == BatchSpec => []BatchTypeOK
<1>1. LIInv => BatchTypeOK
  BY DEF LIInv, BInv, BatchTypes
<1>2. QED
  BY <1>1, BatchInvariant, PTL

\* What the line source promises holds while a batch runs, for whoever asks for
\* the source meanwhile: it is released to its holder, and text is current
\* (ReleasedWhileHeld, TextIsCurrent).
THEOREM SourceKept == BatchSpec => [](ReleasedWhileHeld /\ TextIsCurrent)
<1>1. LIInv => ReleasedWhileHeld /\ TextIsCurrent
  BY HoldReleases, TextCurrent DEF LIInv
<1>2. QED
  BY <1>1, BatchInvariant, PTL

\* A worker that sends has room in the channel (SendNeverBlocks): what is in
\* it, and what is sent, are books in flight, each once.
THEOREM NeverBlocked == BatchSpec => []SendNeverBlocks
<1>1. ASSUME LIInv PROVE SendNeverBlocks
  <2>1. SUFFICES ASSUME NEW w \in Scanners, workers[w].at = "sending"
                 PROVE  Len(channel) < book_workers
    BY DEF SendNeverBlocks
  <2>2. BInv
    BY <1>1 DEF LIInv
  <2>3. /\ Len(channel) \in Nat /\ book_workers \in Nat /\ budget.in_flight \in 0 .. book_workers
        /\ budget.next \in 1 .. NumBooks + 1 /\ batch.next \in 1 .. NumBooks + 1 /\ NumBooks \in Nat
    BY <2>2, TypeParts
  <2>4. CASE batch.at = "joining"
    <3>1. Len(channel) = 0
      BY <2>2, <2>4 DEF BInv, Stages, Adding
    <3>2. book_workers # 0
      BY SourceAssumption, FS_EmptySet DEF book_workers
    <3>3. QED
      BY <2>3, <3>1, <3>2
  <2>5. CASE batch.at # "joining"
    <3>1. Places /\ Apart
      <4>1. batch.at # "numbering" /\ batch.at \notin {"returned", "failed"}
        BY <2>1, <2>2 DEF BInv, Stages, Idle
      <4>2. Adding
        BY <2>2, <2>5, <4>1, TypeParts DEF Adding
      <4>3. QED
        BY <2>2, <4>2 DEF BInv
    <3>2. PICK l : l = Len(channel)
      OBVIOUS
    <3>3. PICK T : T = batch.next .. (budget.next - 1)
      OBVIOUS
    <3>4. PICK f : f = [k \in 1 .. l + 1 |-> IF k = l + 1 THEN workers[w].book ELSE channel[k].book]
      OBVIOUS
    <3>5. workers[w].at \in Admitted /\ InFlight(workers[w].book)
      BY <2>1, <3>1 DEF Places, Admitted
    <3>6. workers[w].book \in T
      <4>1. workers[w] \in WorkerType
        BY <2>2, TypeParts
      <4>2. workers[w].book \in 0 .. NumBooks
        BY <4>1 DEF WorkerType
      <4>3. QED
        BY <2>3, <3>3, <3>5, <4>2 DEF InFlight
    <3>7. ASSUME NEW k \in 1 .. l PROVE channel[k].book \in T /\ channel[k].book # workers[w].book
      <4>1. channel[k].book \in 1 .. NumBooks /\ InFlight(channel[k].book)
        BY <2>2, <3>1, <3>2, InChannel DEF Places
      <4>2. channel[k].book \in T
        BY <2>3, <3>3, <4>1 DEF InFlight
      <4>3. QED
        BY <3>1, <3>2, <3>5, <4>2 DEF Apart
    <3>8. \A k \in 1 .. l + 1 : k = l + 1 \/ k \in 1 .. l
      BY <2>3, <3>2
    <3>9. f \in [1 .. l + 1 -> T]
      BY <3>4, <3>6, <3>7, <3>8
    <3>10. ASSUME NEW j \in 1 .. l + 1, NEW k \in 1 .. l + 1, f[j] = f[k] PROVE j = k
      <4>1. CASE j = l + 1 /\ k # l + 1
        BY <3>4, <3>7, <3>8, <3>10, <4>1
      <4>2. CASE j # l + 1 /\ k = l + 1
        BY <3>4, <3>7, <3>8, <3>10, <4>2
      <4>3. CASE j # l + 1 /\ k # l + 1
        BY <3>1, <3>2, <3>4, <3>8, <3>10, <4>3 DEF Apart
      <4>4. QED
        BY <4>1, <4>2, <4>3
    <3>11. f \in Injection(1 .. l + 1, T)
      BY <3>9, <3>10 DEF Injection, IsInjective
    <3>12. IsFiniteSet(T) /\ Cardinality(T) = IF batch.next > budget.next - 1 THEN 0
                                              ELSE (budget.next - 1) - batch.next + 1
      <4>1. batch.next \in Int /\ budget.next - 1 \in Int
        BY <2>3
      <4>2. QED
        BY <3>3, <4>1, FS_Interval
    <3>13. Cardinality(1 .. l + 1) = l + 1
      BY <2>3, <3>2, FS_Interval
    <3>14. l + 1 <= Cardinality(T)
      BY <3>11, <3>12, <3>13, FS_Injection
    <3>15. budget.in_flight = budget.next - batch.next
      BY <3>1 DEF Places
    <3>16. QED
      BY <2>3, <3>2, <3>12, <3>14, <3>15
  <2>6. QED
    BY <2>4, <2>5
<1>2. QED
  BY <1>1, BatchInvariant, PTL

\* What the batch begins to add is what the file of the source says then
\* (TextAddedIsCurrent): text of an ended generation is refused.
THEOREM AddedIsCurrent == BatchSpec => TextAddedIsCurrent
<1>1. ASSUME LIInv, [BatchNext]_all_vars, batch.at # "adding", batch'.at = "adding", NEW o \in Waiting
      PROVE  o.text.path = source.path /\ o.text.version = files[source.path]
  <2>1. BInv /\ IInv /\ batch \in BatchType /\ batch' \in BatchType
    BY <1>1, NextLIInv, TypeParts DEF LIInv, BInv, BatchTypes, BatchType
  <2>2. Decide
    <3>1. batch' # batch
      BY <1>1
    <3>2. ~UNCHANGED all_vars /\ ~Around /\ \A w \in Scanners : ~Worker(w) /\ ~PrepareFails(w)
      BY <3>1 DEF all_vars, batch_vars, Around, Worker, Take, Admit, NotAdmitted, Open, OpenFails, ReadBegins,
                  ReadEnds, Dropped, Prepare, Send, SendFails, PrepareFails
    <3>3. ~cancel /\ ~Number /\ ~Receive /\ ~Return /\ ~Join /\ ~NumberFails /\ ~AddFails /\ ~Add
      BY <1>1, <2>1 DEF cancel, Number, Receive, Return, Join, NumberFails, AddFails, Add, BatchType
    <3>4. QED
      BY <1>1, <3>2, <3>3 DEF BatchNext, Caller
  <2>3. PICK p \in Waiting : p.outcome = "Prepared" /\ ~Changed(p) /\ batch.at = "receiving"
    <3>1. PICK p \in Waiting :
            \/ \E status \in Outcomes \ {"Prepared"} : Settle(p, status)
            \/ p.outcome = "Prepared" /\ ~Changed(p)
      BY <1>1, <2>2, Decided
    <3>2. ASSUME NEW status, Settle(p, status) PROVE FALSE
      BY <1>1, <2>1, <3>2 DEF Settle, BatchType
    <3>3. QED
      BY <1>1, <2>2, <3>1, <3>2, Decided
  <2>4. Apart /\ Sound
    BY <2>1, <2>3 DEF BInv, Adding
  <2>5. p = o
    BY <2>3, <2>4 DEF Apart, Waiting
  <2>6. p \in Message /\ MessageOK(p)
    BY <2>1, <2>4, TypeParts DEF Waiting, Sound
  <2>7. p.text \in Text /\ TextOK(p.text, source, files)
    BY <2>3, <2>6 DEF Message, MessageOK
  <2>8. PICK L : Found(L)
    BY <2>1, LockFound
  <2>9. L = Locked /\ L \in Global /\ Follows(source, L) /\ source \in Global /\ L.path = source.path
    BY <2>1, <2>8, LockedOK DEF Found, IInv, TypeOK
  <2>10. p.text # NoText
    BY <2>3, <2>6 DEF MessageOK
  <2>11. L.generation = p.text.generation /\ ~Suspended(L)
    BY <2>3, <2>9 DEF Changed
  <2>12. source.generation = p.text.generation /\ ~Suspended(source)
    <3>1. /\ source.generation \in Nat /\ L.generation \in Nat
          /\ L.generation >= source.generation /\ p.text.generation <= source.generation
      BY <2>7, <2>9, <2>10 DEF Global, Follows, TextOK, Text
    <3>2. source.generation = L.generation
      BY <2>11, <3>1
    <3>3. QED
      BY <2>9, <2>11, <3>2 DEF Follows
  <2>13. QED
    BY <2>5, <2>7, <2>10, <2>12 DEF TextOK
<1>2. LIInv /\ [BatchNext]_all_vars =>
        [batch.at # "adding" /\ batch'.at = "adding" =>
           \A o \in Waiting : o.text.path = source.path /\ o.text.version = files[source.path]]_all_vars
  BY <1>1
<1>3. QED
  BY <1>2, BatchInvariant, PTL DEF BatchSpec, TextAddedIsCurrent

----------------------------------------------------------------------------
(* The batch implements BookBatch.                                         *)

\* The calling thread gives the next book a result: a step of BookBatch.
LEMMA SettleMaps ==
  ASSUME BInv, Adding, NEW o \in Waiting, NEW status \in Outcomes \cup {"Indexed"}, Settle(o, status)
  PROVE  /\ Batch!Results(status)
         /\ batch'.added = IF status = "Indexed" THEN Append(batch.added, batch.next) ELSE batch.added
<1>1. batch \in BatchType /\ o.book = batch.next /\ o \in Message /\ o.book \in 1 .. NumBooks /\ NumBooks \in Nat
  BY TypeParts DEF Waiting, Message
<1>2. /\ batch'.at = "receiving" /\ batch'.next = batch.next + 1
      /\ batch'.results = [batch.results EXCEPT ![batch.next] = status]
      /\ batch'.added = IF status = "Indexed" THEN Append(batch.added, batch.next) ELSE batch.added
  BY <1>1 DEF Settle, BatchType
<1>3. batch'.cancelled = batch.cancelled
  BY <1>1, Zenon DEF Settle, BatchType
<1>4. batch.next <= NumBooks
  BY <1>1
<1>5. QED
  BY <1>2, <1>3, <1>4 DEF Batch!Results, Adding, Ended

\* A batch that returns has a result for every book, or is cancelled.
LEMMA ReturnMaps == ASSUME LIInv, Return PROVE Batch!Returns
<1>1. BInv /\ batch \in BatchType /\ NumBooks \in Nat /\ batch.next \in 1 .. NumBooks + 1 /\ next_book \in Nat
  BY TypeParts DEF LIInv
<1>2. batch.at = "receiving" /\ Waiting = {} /\ channel = <<>> /\ AllExited
  BY DEF Return
<1>3. Covered /\ Settled
  BY <1>1, <1>2 DEF BInv, Adding, Ended
<1>4. batch.next > NumBooks \/ batch.cancelled
  <2>1. SUFFICES ASSUME ~batch.cancelled, ~(batch.next > NumBooks) PROVE FALSE
    OBVIOUS
  <2>2. PICK w \in Scanners : workers[w].at = "exited"
    BY <1>2, BatchAssumption DEF AllExited
  <2>3. next_book > NumBooks
    BY <1>3, <2>1, <2>2 DEF Covered
  <2>4. batch.next \in 1 .. NumBooks /\ batch.next <= batch.next /\ batch.next < next_book
    BY <1>1, <2>1, <2>3
  <2>5. Somewhere(batch.next)
    BY <1>3, <2>1, <2>4 DEF Covered
  <2>6. QED
    BY <1>2, <2>5 DEF Somewhere, AllExited, Idle, Waiting
<1>5. PICK f : f = [i \in 1 .. NumBooks |-> IF batch.results[i] = "none" THEN "Cancelled" ELSE batch.results[i]]
  OBVIOUS
<1>6. batch' = [batch EXCEPT !.at = "returned", !.results = f]
  BY <1>1, <1>5 DEF Return, BatchType
<1>7. /\ batch'.at = "returned" /\ batch'.next = batch.next /\ batch'.added = batch.added
      /\ batch'.results = f
  BY <1>1, <1>6 DEF BatchType
<1>8. batch'.cancelled = batch.cancelled
  BY <1>1, <1>6, Zenon DEF BatchType
<1>9. f = [i \in 1 .. NumBooks |-> IF i < batch.next THEN batch.results[i] ELSE "Cancelled"]
  <2>1. \A i \in 1 .. NumBooks : batch.results[i] = "none" <=> ~(i < batch.next)
    BY <1>1, <1>3 DEF Settled
  <2>2. QED
    BY <1>5, <2>1
<1>10. QED
  BY <1>2, <1>4, <1>7, <1>8, <1>9 DEF Batch!Returns, Ended

\* What leaves the batch as it is to its caller is no step of BookBatch.
LEMMA SameMaps ==
  ASSUME batch'.next = batch.next, batch'.results = batch.results, batch'.added = batch.added,
         batch'.cancelled = batch.cancelled, batch'.at = "adding" <=> batch.at = "adding",
         \/ batch'.at = batch.at
         \/ batch.at \in {"numbering", "receiving", "adding"} /\ batch'.at \in {"numbering", "receiving", "adding"}
         \/ batch.at = "joining" /\ batch'.at = "failed"
  PROVE  UNCHANGED Batch!bvars
  BY DEF Batch!bvars, Ended

\* Each step of the batch is a step of BookBatch or none.
LEMMA NextMaps == ASSUME LIInv, [BatchNext]_all_vars PROVE [Batch!BNext]_(Batch!bvars)
<1>1. BInv /\ batch \in BatchType
  BY TypeParts DEF LIInv
<1>2. CASE batch' = batch
  BY <1>2, SameMaps
<1>3. CASE Number \/ Receive \/ Join
  <2>1. /\ batch'.next = batch.next /\ batch'.results = batch.results /\ batch'.added = batch.added
        /\ \/ batch.at = "numbering" /\ batch'.at = "receiving"
           \/ batch.at = "receiving" /\ batch'.at = "receiving"
           \/ batch.at = "joining" /\ batch'.at = "failed"
    BY <1>1, <1>3 DEF Number, Receive, Join, BatchType
  <2>2. batch'.cancelled = batch.cancelled
    BY <1>1, <1>3, Zenon DEF Number, Receive, Join, BatchType
  <2>3. QED
    BY <2>1, <2>2, SameMaps
<1>4. CASE NumberFails \/ AddFails
  <2>1. /\ batch'.next = batch.next /\ batch'.results = batch.results /\ batch'.added = batch.added
        /\ \/ batch.at = "numbering" /\ batch'.at = "failed"
           \/ batch.at = "adding" /\ batch'.at = "joining"
    BY <1>1, <1>4 DEF NumberFails, AddFails, BatchType
  <2>2. batch'.cancelled = batch.cancelled
    BY <1>1, <1>4, Zenon DEF NumberFails, AddFails, BatchType
  <2>3. Batch!Fails
    BY <2>1, <2>2 DEF Batch!Fails, Ended
  <2>4. QED
    BY <2>3 DEF Batch!BNext
<1>5. CASE cancel
  <2>1. /\ batch'.next = batch.next /\ batch'.results = batch.results /\ batch'.added = batch.added
        /\ batch'.at = batch.at
    BY <1>1, <1>5 DEF cancel, BatchType
  <2>2. batch'.cancelled = TRUE
    BY <1>1, <1>5, Zenon DEF cancel, BatchType
  <2>3. Batch!Cancels
    BY <2>1, <2>2 DEF Batch!Cancels, Ended
  <2>4. QED
    BY <2>3 DEF Batch!BNext
<1>6. CASE Return
  BY <1>6, ReturnMaps DEF Batch!BNext
<1>7. CASE Add
  <2>1. PICK o \in Waiting : batch.at = "adding" /\ Settle(o, "Indexed")
    BY <1>7 DEF Add
  <2>2. Batch!Results("Indexed") /\ batch'.added = Append(batch.added, batch.next)
    BY <1>1, <2>1, SettleMaps DEF Adding
  <2>3. Batch!Adds
    BY <2>1, <2>2 DEF Batch!Adds
  <2>4. QED
    BY <2>3 DEF Batch!BNext
<1>8. CASE Decide
  <2>1. PICK o \in Waiting :
          \/ \E status \in Outcomes \ {"Prepared"} :
               Settle(o, status) /\ (status = "Cancelled" => batch.cancelled)
          \/ ~batch.cancelled /\ batch' = [batch EXCEPT !.at = "adding"]
    BY <1>8, Decided
  <2>2. batch.at = "receiving" /\ Adding
    BY <1>8, Decided DEF Adding
  <2>3. ASSUME NEW status \in Outcomes \ {"Prepared"}, Settle(o, status),
               status = "Cancelled" => batch.cancelled
        PROVE  Batch!Skips
    <3>1. Batch!Results(status) /\ batch'.added = batch.added
      BY <1>1, <2>2, <2>3, SettleMaps DEF Outcomes
    <3>2. status \in {"Missing", "Unavailable", "Failed"} \/ (status = "Cancelled" /\ batch.cancelled)
      BY <2>3 DEF Outcomes
    <3>3. QED
      BY <2>2, <3>1, <3>2 DEF Batch!Skips
  <2>4. ASSUME ~batch.cancelled, batch' = [batch EXCEPT !.at = "adding"] PROVE Batch!Begins
    <3>1. /\ batch'.next = batch.next /\ batch'.results = batch.results /\ batch'.added = batch.added
          /\ batch'.at = "adding"
      BY <1>1, <2>4 DEF BatchType
    <3>2. batch'.cancelled = batch.cancelled
      BY <1>1, <2>4, Zenon DEF BatchType
    <3>3. batch.next <= NumBooks
      BY <1>1, <2>1, TypeParts DEF Waiting, Message
    <3>4. QED
      BY <2>2, <2>4, <3>1, <3>2, <3>3 DEF Batch!Begins, Ended
  <2>5. QED
    BY <2>1, <2>3, <2>4 DEF Batch!BNext
<1>9. batch' = batch \/ Number \/ Receive \/ Join \/ NumberFails \/ AddFails \/ cancel \/ Return
        \/ Add \/ Decide
  <2>1. ASSUME NEW w \in Scanners, Worker(w) \/ PrepareFails(w) PROVE batch' = batch
    BY <2>1 DEF batch_vars, Worker, Take, Admit, NotAdmitted, Open, OpenFails, ReadBegins,
                ReadEnds, Dropped, Prepare, Send, SendFails, PrepareFails
  <2>2. CASE Around \/ UNCHANGED all_vars
    BY <2>2 DEF Around, all_vars, batch_vars
  <2>3. QED
    BY <2>1, <2>2 DEF BatchNext, Caller
<1>10. QED
  BY <1>2, <1>3, <1>4, <1>5, <1>6, <1>7, <1>8, <1>9

\* The batch keeps what add_library_books promises (BatchImplements): books
\* are added in input order and whole, each has its result, and a cancelled
\* batch begins no other.
THEOREM Implements == BatchSpec => BatchImplements
<1>1. ASSUME BatchInit PROVE Batch!BInit
  BY <1>1 DEF BatchInit, Batch!BInit, Ended
<1>2. LIInv /\ [BatchNext]_all_vars => [Batch!BNext]_(Batch!bvars)
  BY NextMaps
<1>3. QED
  BY <1>1, <1>2, BatchInvariant, PTL DEF BatchSpec, BatchImplements, Batch!BSpec

----------------------------------------------------------------------------
(* One of the batch's threads can go on until it ends.                     *)

\* The session of a worker is as it was.
ScanKept(w) == scans_left' = scans_left /\ scans'[w].at = scans[w].at

\* What a worker shares with the others is as it was.
Kept == UNCHANGED <<next_book, budget, channel>>

\* What the steps of a worker are to the others: it takes a book, or finds none left ...
Takes(w, r) ==
  /\ workers[w].at = "taking" /\ next_book' = next_book + 1
  /\ UNCHANGED <<budget, channel>> /\ ScanKept(w)
  /\ \/ next_book <= NumBooks /\ r.at = "admitting" /\ r.book = next_book
     \/ next_book > NumBooks /\ r.at = "exited"

\* ... it is admitted ...
IsAdmitted(w, r) ==
  /\ workers[w].at = "admitting" /\ r.at = "opening" /\ r.book = workers[w].book
  /\ workers[w].book = budget.next /\ budget'.next = budget.next + 1
  /\ UNCHANGED <<next_book, channel>> /\ ScanKept(w)

\* ... it leaves ...
Leaves(w, r) ==
  /\ workers[w].at \in {"admitting", "sending"} /\ r.at = "exited"
  /\ Kept /\ ScanKept(w)

\* ... it opens a session ...
Opens(w, r) ==
  /\ workers[w].at = "opening" /\ r.at = "reading" /\ r.book = workers[w].book
  /\ scans_left' = scans_left - 1 /\ scans'[w].at = "open" /\ Kept

\* ... it has an outcome ...
HasOutcome(w, r) ==
  /\ workers[w].at \in {"opening", "preparing"} /\ r.at = "sending" /\ r.book = workers[w].book
  /\ Kept /\ ScanKept(w)

\* ... it begins to read ...
Reads(w, r) ==
  /\ workers[w].at = "reading" /\ scans[w].at = "open" /\ r = workers[w]
  /\ scans'[w].at = "reading" /\ scans_left' = scans_left /\ Kept

\* ... it has read ...
HasRead(w, r) ==
  /\ workers[w].at = "reading" /\ r.at = "dropping" /\ r.book = workers[w].book
  /\ scans'[w].at = "open" /\ scans_left' = scans_left /\ Kept

\* ... it closes its session ...
Closes(w, r) ==
  /\ workers[w].at = "dropping" /\ r.at = "preparing" /\ r.book = workers[w].book
  /\ scans'[w].at = "none" /\ scans_left' = scans_left /\ Kept

\* ... or its book is in the channel.
Sends(w, r) ==
  /\ workers[w].at = "sending" /\ r.at = "taking"
  /\ \E m \in Message : m.book = workers[w].book /\ channel' = Append(channel, m)
  /\ UNCHANGED <<next_book, budget>> /\ ScanKept(w)

WorkerStep(w, r) ==
  \/ Takes(w, r) \/ IsAdmitted(w, r) \/ Leaves(w, r) \/ Opens(w, r) \/ HasOutcome(w, r)
  \/ Reads(w, r) \/ HasRead(w, r) \/ Closes(w, r) \/ Sends(w, r)

\* A step of a worker is its own, and one of those.
LEMMA WorkerSteps ==
  ASSUME LIInv, NEW w \in Scanners, Worker(w) \/ PrepareFails(w)
  PROVE  /\ batch' = batch /\ \A v \in Scanners : v # w => scans'[v].at = scans[v].at
         /\ \E r \in WorkerType : workers' = [workers EXCEPT ![w] = r] /\ WorkerStep(w, r)
<1>1. IInv /\ BInv /\ TypeOK
  BY DEF LIInv, IInv
<1>2. PICK u \in WorkerType : u = workers[w]
  BY <1>1, TypeParts
<1>3. workers \in [Scanners -> WorkerType] /\ scans \in [Scanners -> ScanType]
  BY <1>1, TypeParts DEF TypeOK, ScanType
<1>4. /\ next_book \in Nat \ {0} /\ NumBooks \in Nat
      /\ budget \in [in_flight : 0 .. book_workers, next : 1 .. NumBooks + 1]
  BY <1>1, TypeParts
<1>5. CASE Take(w)
  <2>1. PICK r : r = IF next_book <= NumBooks THEN [NoWorker EXCEPT !.at = "admitting", !.book = next_book]
                                             ELSE [NoWorker EXCEPT !.at = "exited"]
    OBVIOUS
  <2>2. r \in WorkerType /\ \/ next_book <= NumBooks /\ r.at = "admitting" /\ r.book = next_book
                            \/ next_book > NumBooks /\ r.at = "exited"
    <3>1. CASE next_book <= NumBooks
      <4>1. PICK n \in 0 .. NumBooks : n = next_book
        BY <1>4, <3>1
      <4>2. r = [at |-> "admitting", book |-> n, outcome |-> "none"]
        BY <2>1, <3>1, <4>1 DEF NoWorker
      <4>3. QED
        BY <3>1, <4>1, <4>2 DEF WorkerType
    <3>2. CASE ~(next_book <= NumBooks)
      BY <1>4, <2>1, <3>2 DEF NoWorker, WorkerType
    <3>3. QED
      BY <3>1, <3>2
  <2>3. /\ workers[w].at = "taking" /\ workers' = [workers EXCEPT ![w] = r]
        /\ next_book' = next_book + 1 /\ batch' = batch /\ budget' = budget /\ channel' = channel
        /\ scans' = scans /\ scans_left' = scans_left
    BY <1>5, <2>1 DEF Take, vars
  <2>4. WorkerStep(w, r)
    BY <2>2, <2>3 DEF Takes, ScanKept, WorkerStep
  <2>5. QED
    BY <2>2, <2>3, <2>4
<1>6. CASE Admit(w)
  <2>1. PICK r : r = [u EXCEPT !.at = "opening"]
    OBVIOUS
  <2>2. r \in WorkerType /\ r.at = "opening" /\ r.book = workers[w].book
    BY <1>2, <2>1 DEF WorkerType
  <2>3. /\ workers[w].at = "admitting" /\ workers' = [workers EXCEPT ![w] = r]
        /\ workers[w].book = budget.next /\ budget'.next = budget.next + 1
        /\ next_book' = next_book /\ batch' = batch /\ channel' = channel
        /\ scans' = scans /\ scans_left' = scans_left
    BY <1>2, <1>3, <1>6, <2>1 DEF Admit, Goes, vars
  <2>4. WorkerStep(w, r)
    BY <2>2, <2>3 DEF IsAdmitted, ScanKept, WorkerStep
  <2>5. QED
    BY <2>2, <2>3, <2>4
<1>7. CASE NotAdmitted(w) \/ SendFails(w)
  <2>1. PICK r : r = [u EXCEPT !.at = "exited"]
    OBVIOUS
  <2>2. r \in WorkerType /\ r.at = "exited"
    BY <1>2, <2>1 DEF WorkerType
  <2>3. /\ workers[w].at \in {"admitting", "sending"} /\ workers' = [workers EXCEPT ![w] = r]
        /\ Kept /\ batch' = batch /\ scans' = scans /\ scans_left' = scans_left
    BY <1>2, <1>3, <1>7, <2>1 DEF NotAdmitted, SendFails, Goes, vars, Kept
  <2>4. WorkerStep(w, r)
    BY <2>2, <2>3 DEF Leaves, ScanKept, WorkerStep
  <2>5. QED
    BY <2>2, <2>3, <2>4
<1>8. CASE Open(w)
  <2>1. PICK r : r = [u EXCEPT !.at = "reading"]
    OBVIOUS
  <2>2. r \in WorkerType /\ r.at = "reading" /\ r.book = workers[w].book
    BY <1>2, <2>1 DEF WorkerType
  <2>3. /\ workers[w].at = "opening" /\ workers' = [workers EXCEPT ![w] = r]
        /\ Kept /\ batch' = batch /\ scans_left' = scans_left - 1
    BY <1>2, <1>3, <1>8, <2>1 DEF Open, Goes, begin_scan, Kept
  <2>4. scans'[w].at = "open" /\ \A v \in Scanners : v # w => scans'[v] = scans[v]
    BY <1>3, <1>8 DEF Open, begin_scan, NoScan
  <2>5. WorkerStep(w, r)
    BY <2>2, <2>3, <2>4 DEF Opens, WorkerStep
  <2>6. QED
    BY <2>2, <2>3, <2>4, <2>5
<1>9. CASE OpenFails(w) \/ Prepare(w) \/ PrepareFails(w)
  <2>1. PICK outcome \in Outcomes : Outcome(w, outcome)
    <3>1. CASE OpenFails(w)
      BY <3>1 DEF OpenFails, Outcomes
    <3>2. CASE PrepareFails(w)
      BY <3>2 DEF PrepareFails, Outcomes
    <3>3. CASE Prepare(w)
      <4>1. stop \in BOOLEAN
        BY <1>1, TypeParts DEF stop
      <4>2. CASE stop
        BY <3>3, <4>2 DEF Prepare, Outcomes
      <4>3. CASE ~stop /\ scans[w].text = NoText
        BY <3>3, <4>3 DEF Prepare, Outcomes
      <4>4. CASE ~stop /\ scans[w].text # NoText
        BY <3>3, <4>4 DEF Prepare, Outcomes
      <4>5. QED
        BY <4>1, <4>2, <4>3, <4>4
    <3>4. QED
      BY <1>9, <3>1, <3>2, <3>3
  <2>2. PICK r : r = [u EXCEPT !.at = "sending", !.outcome = outcome]
    OBVIOUS
  <2>3. r \in WorkerType /\ r.at = "sending" /\ r.book = workers[w].book
    BY <1>2, <2>1, <2>2 DEF WorkerType
  <2>4. workers' = [workers EXCEPT ![w] = r]
    BY <1>2, <1>3, <2>1, <2>2 DEF Outcome
  <2>5. /\ workers[w].at \in {"opening", "preparing"} /\ Kept /\ batch' = batch
        /\ scans' = scans /\ scans_left' = scans_left
    BY <1>9 DEF OpenFails, Prepare, PrepareFails, Happens, vars, Kept
  <2>6. WorkerStep(w, r)
    BY <2>3, <2>5 DEF HasOutcome, ScanKept, WorkerStep
  <2>7. QED
    BY <2>3, <2>4, <2>5, <2>6
<1>10. CASE ReadBegins(w)
  <2>1. /\ workers[w].at = "reading" /\ scans[w].at = "open" /\ Kept /\ batch' = batch /\ workers' = workers
        /\ scans_left' = scans_left
    BY <1>10 DEF ReadBegins, Read, batch_vars, Kept
  <2>2. scans'[w].at = "reading" /\ \A v \in Scanners : v # w => scans'[v] = scans[v]
    BY <1>3, <1>10 DEF ReadBegins, Read, ScanType
  <2>3. workers' = [workers EXCEPT ![w] = u]
    BY <1>2, <1>3, <2>1
  <2>4. WorkerStep(w, u)
    BY <1>2, <2>1, <2>2 DEF Reads, WorkerStep
  <2>5. QED
    BY <2>1, <2>2, <2>3, <2>4
<1>11. CASE ReadEnds(w)
  <2>1. PICK r : r = [u EXCEPT !.at = "dropping"]
    OBVIOUS
  <2>2. r \in WorkerType /\ r.at = "dropping" /\ r.book = workers[w].book
    BY <1>2, <2>1 DEF WorkerType
  <2>3. /\ workers[w].at = "reading" /\ workers' = [workers EXCEPT ![w] = r] /\ Kept /\ batch' = batch
        /\ ReadDone(w) \/ ReadFails(w) \/ ReadRefused(w)
    BY <1>2, <1>3, <1>11, <2>1 DEF ReadEnds, Goes, Kept
  <2>4. /\ scans'[w].at = "open" /\ scans_left' = scans_left
        /\ \A v \in Scanners : v # w => scans'[v] = scans[v]
    <3>1. CASE ReadDone(w)
      BY <1>3, <3>1 DEF ReadDone, ScanType
    <3>2. CASE ReadFails(w)
      BY <1>3, <3>2 DEF ReadFails, ScanType
    <3>3. CASE ReadRefused(w)
      BY <3>3 DEF ReadRefused
    <3>4. QED
      BY <2>3, <3>1, <3>2, <3>3
  <2>5. WorkerStep(w, r)
    BY <2>2, <2>3, <2>4 DEF HasRead, WorkerStep
  <2>6. QED
    BY <2>2, <2>3, <2>4, <2>5
<1>12. CASE Dropped(w)
  <2>1. PICK r : r = [u EXCEPT !.at = "preparing"]
    OBVIOUS
  <2>2. r \in WorkerType /\ r.at = "preparing" /\ r.book = workers[w].book
    BY <1>2, <2>1 DEF WorkerType
  <2>3. /\ workers[w].at = "dropping" /\ workers' = [workers EXCEPT ![w] = r] /\ Kept /\ batch' = batch
        /\ scans_left' = scans_left
    BY <1>2, <1>3, <1>12, <2>1 DEF Dropped, Goes, Drop, Kept
  <2>4. scans'[w].at = "none" /\ \A v \in Scanners : v # w => scans'[v] = scans[v]
    BY <1>3, <1>12 DEF Dropped, Drop, NoScan
  <2>5. WorkerStep(w, r)
    BY <2>2, <2>3, <2>4 DEF Closes, WorkerStep
  <2>6. QED
    BY <2>2, <2>3, <2>4, <2>5
<1>13. CASE Send(w)
  <2>1. PICK r : r = [u EXCEPT !.at = "taking"]
    OBVIOUS
  <2>2. r \in WorkerType /\ r.at = "taking"
    BY <1>2, <2>1 DEF WorkerType
  <2>3. PICK m : m = [book |-> workers[w].book, outcome |-> workers[w].outcome, text |-> scans[w].text]
    OBVIOUS
  <2>4. /\ workers[w].at = "sending" /\ workers' = [workers EXCEPT ![w] = r] /\ batch' = batch
        /\ channel' = Append(channel, m)
        /\ next_book' = next_book /\ budget' = budget /\ scans' = scans /\ scans_left' = scans_left
    BY <1>2, <1>3, <1>13, <2>1, <2>3 DEF Send, Goes, vars
  <2>5. m \in Message /\ m.book = workers[w].book
    <3>1. u.book # 0 /\ u.outcome # "none"
      BY <1>1, <1>2, <2>4, TypeParts DEF Idle
    <3>2. u.book \in 1 .. NumBooks /\ u.outcome \in Outcomes
      BY <1>4, <3>1 DEF WorkerType
    <3>3. scans[w].text \in Text \cup {NoText}
      BY <1>1, ScanIn DEF ScanType
    <3>4. QED
      BY <1>2, <2>3, <3>2, <3>3 DEF Message
  <2>6. WorkerStep(w, r)
    BY <2>2, <2>4, <2>5 DEF Sends, ScanKept, WorkerStep
  <2>7. QED
    BY <2>2, <2>4, <2>6
<1>14. QED
  BY <1>5, <1>6, <1>7, <1>8, <1>9, <1>10, <1>11, <1>12, <1>13 DEF Worker

\* What the steps of the calling thread are to the workers: they begin ...
IsNumbered ==
  /\ batch.at = "numbering" /\ batch'.at = "receiving"
  /\ batch'.next = batch.next /\ batch'.waiting = batch.waiting
  /\ \A w \in Scanners : workers'[w].at = "taking"
  /\ UNCHANGED <<budget, channel>>

\* ... a message is received ...
IsReceived ==
  /\ batch.at = "receiving" /\ batch'.at = "receiving" /\ batch'.next = batch.next
  /\ channel # <<>> /\ channel' = Tail(channel)
  /\ batch'.waiting = batch.waiting \cup {Head(channel)}
  /\ UNCHANGED <<workers, budget>>

\* ... the next book has its result ...
IsSettled(o) ==
  /\ Adding /\ batch'.at = "receiving"
  /\ batch'.next = batch.next + 1 /\ batch'.waiting = batch.waiting \ {o}
  /\ budget'.next = budget.next /\ UNCHANGED <<workers, channel>>

\* ... or is begun ...
IsBegun ==
  /\ batch.at = "receiving" /\ batch'.at = "adding" /\ Waiting # {}
  /\ batch'.next = batch.next /\ batch'.waiting = batch.waiting
  /\ UNCHANGED <<workers, budget, channel>>

\* ... or the batch is over, but for those it waits for.
IsOver ==
  /\ \/ batch.at = "numbering" /\ batch'.at = "failed"
     \/ batch.at = "adding" /\ batch'.at = "joining" /\ batch'.waiting = {}
     \/ batch.at = "receiving" /\ batch'.at = "returned"
     \/ batch.at = "joining" /\ batch'.at = "failed"
  /\ batch'.next = batch.next /\ batch'.waiting \subseteq batch.waiting
  /\ channel' \in {channel, <<>>} /\ UNCHANGED <<workers, budget>>

\* A step of the calling thread is one of those.
LEMMA CallerSteps ==
  ASSUME LIInv, Caller \/ NumberFails \/ AddFails
  PROVE  /\ scans' = scans /\ scans_left' = scans_left /\ next_book' = next_book
         /\ IsNumbered \/ IsReceived \/ IsBegun \/ IsOver \/ \E o \in Waiting : IsSettled(o)
<1>1. IInv /\ BInv
  BY DEF LIInv
<1>2. batch \in BatchType /\ budget \in [in_flight : 0 .. book_workers, next : 1 .. NumBooks + 1]
  BY <1>1, TypeParts
<1>3. ASSUME NEW o \in Waiting, NEW status, Settle(o, status), Adding PROVE next_book' = next_book /\ IsSettled(o)
  <2>1. o.book = batch.next
    BY DEF Waiting
  <2>2. batch'.at = "receiving" /\ batch'.next = batch.next + 1 /\ batch'.waiting = batch.waiting \ {o}
    BY <1>2, <1>3, <2>1 DEF Settle, BatchType
  <2>3. budget'.next = budget.next /\ UNCHANGED <<workers, next_book, channel>>
    BY <1>2, <1>3 DEF Settle
  <2>4. QED
    BY <1>3, <2>2, <2>3 DEF IsSettled
<1>4. CASE Number
  BY <1>2, <1>4 DEF Number, NoWorker, BatchType, IsNumbered, vars
<1>5. CASE Receive
  BY <1>2, <1>5 DEF Receive, BatchType, IsReceived, vars
<1>6. CASE Decide
  <2>1. scans' = scans /\ scans_left' = scans_left /\ batch.at = "receiving"
    BY <1>6 DEF Decide
  <2>2. PICK o \in Waiting :
          \/ \E status \in Outcomes \ {"Prepared"} : Settle(o, status)
          \/ /\ batch' = [batch EXCEPT !.at = "adding"]
             /\ UNCHANGED <<workers, next_book, budget, channel>>
    BY <1>6, Decided
  <2>3. CASE \E status \in Outcomes \ {"Prepared"} : Settle(o, status)
    BY <1>3, <2>1, <2>3 DEF Adding
  <2>4. CASE /\ batch' = [batch EXCEPT !.at = "adding"]
             /\ UNCHANGED <<workers, next_book, budget, channel>>
    BY <1>2, <2>1, <2>2, <2>4 DEF IsBegun, BatchType
  <2>5. QED
    BY <2>2, <2>3, <2>4
<1>7. CASE Add
  <2>1. PICK o \in Waiting : batch.at = "adding" /\ Settle(o, "Indexed") /\ UNCHANGED vars
    BY <1>7 DEF Add
  <2>2. QED
    BY <1>3, <2>1 DEF Adding, vars
<1>8. CASE Return
  <2>1. batch' = [batch EXCEPT !.at = "returned", !.results =
                    [i \in 1 .. NumBooks |-> IF batch.results[i] = "none" THEN "Cancelled" ELSE batch.results[i]]]
        /\ batch.at = "receiving" /\ UNCHANGED <<vars, workers, next_book, budget, channel>>
    BY <1>2, <1>8 DEF Return, BatchType
  <2>2. QED
    BY <1>2, <2>1 DEF BatchType, IsOver, vars
<1>9. CASE Join
  BY <1>2, <1>9 DEF Join, BatchType, IsOver, vars
<1>10. CASE NumberFails
  BY <1>2, <1>10 DEF NumberFails, Happens, BatchType, IsOver
<1>11. CASE AddFails
  BY <1>2, <1>11 DEF AddFails, Happens, BatchType, IsOver
<1>12. QED
  BY <1>4, <1>5, <1>6, <1>7, <1>8, <1>9, <1>10, <1>11 DEF Caller

\* A book is added only when it is there.
HasNext == batch.at = "adding" => Waiting # {}

\* Once the books are numbered every worker was begun.
Started == batch.at # "numbering" /\ ~Ended => \A w \in Scanners : workers[w].at # "none"

\* Books are taken once each, and admitted in the order they are taken.
InTurn ==
  /\ budget.next <= next_book
  /\ \A w \in Scanners : /\ workers[w].at \notin Idle => workers[w].book < next_book
                         /\ workers[w].at = "admitting" => budget.next <= workers[w].book
  /\ \A v, w \in Scanners :
       workers[v].at \notin Idle /\ workers[w].at \notin Idle /\ workers[v].book = workers[w].book => v = w

\* A worker has a session open while it reads and drops it.
SessionsHeld ==
  \A w \in Scanners : /\ workers[w].at = "dropping" => scans[w].at = "open"
                      /\ workers[w].at = "reading" => scans[w].at # "none"
                      /\ workers[w].at \notin {"reading", "dropping"} => scans[w].at = "none"

\* The workers that have still to open the session of their book.
Openers == {w \in Scanners : workers[w].at = "opening"}

\* A book that was admitted opens one session at most.
SessionsLeft == MaxScans + Cardinality(Openers) + 1 <= budget.next + scans_left

\* What the threads of a batch need to go on.
GInv == HasNext /\ Started /\ InTurn /\ SessionsHeld /\ SessionsLeft

\* Steps of a worker keep the turns.
LEMMA TurnKept ==
  ASSUME LIInv, InTurn, NEW w \in Scanners, NEW r \in WorkerType, workers' = [workers EXCEPT ![w] = r],
         WorkerStep(w, r), batch' = batch
  PROVE  InTurn'
<1>1. /\ workers \in [Scanners -> WorkerType] /\ next_book \in Nat \ {0}
      /\ budget.next \in 1 .. NumBooks + 1 /\ NumBooks \in Nat
      /\ \A v \in Scanners : workers[v].book \in 0 .. NumBooks /\ workers[v] \in WorkerType
  BY TypeParts DEF LIInv, WorkerType
<1>2. workers'[w] = r /\ \A v \in Scanners : v # w => workers'[v] = workers[v]
  BY <1>1
<1>3. CASE Takes(w, r)
  <2>1. /\ next_book' = next_book + 1 /\ budget' = budget
        /\ r.at \notin Idle => r.at = "admitting" /\ r.book = next_book
    BY <1>3 DEF Takes, Idle
  <2>2. budget'.next <= next_book'
    BY <1>1, <2>1 DEF InTurn
  <2>3. \A v \in Scanners : /\ workers'[v].at \notin Idle => workers'[v].book < next_book'
                            /\ workers'[v].at = "admitting" => budget'.next <= workers'[v].book
    BY <1>1, <1>2, <2>1 DEF InTurn, Idle
  <2>4. ASSUME NEW v \in Scanners, v # w, workers'[v].at \notin Idle, r.at \notin Idle PROVE workers'[v].book # r.book
    BY <1>1, <1>2, <2>1, <2>4 DEF InTurn
  <2>5. QED
    BY <1>2, <2>2, <2>3, <2>4 DEF InTurn
<1>4. CASE IsAdmitted(w, r)
  <2>1. /\ next_book' = next_book /\ budget'.next = budget.next + 1 /\ r.book = workers[w].book
        /\ workers[w].book = budget.next /\ workers[w].at = "admitting" /\ r.at = "opening"
    BY <1>4 DEF IsAdmitted
  <2>2. budget.next < next_book
    BY <2>1 DEF InTurn, Idle
  <2>3. ASSUME NEW v \in Scanners, v # w, workers[v].at = "admitting" PROVE budget.next < workers[v].book
    <3>1. workers[v].book # workers[w].book /\ budget.next <= workers[v].book
      BY <2>1, <2>3 DEF InTurn, Idle
    <3>2. QED
      BY <1>1, <2>1, <3>1
  <2>4. QED
    BY <1>1, <1>2, <2>1, <2>2, <2>3 DEF InTurn, Idle
<1>5. ASSUME next_book' = next_book, budget' = budget,
             \/ r.at = "exited" \/ r.at = "taking"
             \/ workers[w].at \notin Idle /\ r.at # "admitting" /\ r.book = workers[w].book
      PROVE  InTurn'
  <2>1. \A v \in Scanners : workers'[v].at \notin Idle => /\ workers[v].at \notin Idle
                                                          /\ workers'[v].book = workers[v].book
    BY <1>2, <1>5 DEF Idle
  <2>2. \A v \in Scanners : workers'[v].at = "admitting" => workers'[v] = workers[v]
    BY <1>2, <1>5
  <2>3. QED
    BY <1>5, <2>1, <2>2 DEF InTurn
<1>6. CASE Leaves(w, r) \/ Sends(w, r)
  BY <1>5, <1>6 DEF Leaves, Sends, Kept
<1>7. CASE Opens(w, r) \/ HasOutcome(w, r) \/ Reads(w, r) \/ HasRead(w, r) \/ Closes(w, r)
  BY <1>5, <1>7 DEF Opens, HasOutcome, Reads, HasRead, Closes, Kept, Idle
<1>8. QED
  BY <1>3, <1>4, <1>6, <1>7 DEF WorkerStep

\* ... and the sessions.
LEMMA HeldKept ==
  ASSUME LIInv, SessionsHeld, NEW w \in Scanners, NEW r \in WorkerType, workers' = [workers EXCEPT ![w] = r],
         WorkerStep(w, r), \A v \in Scanners : v # w => scans'[v].at = scans[v].at
  PROVE  SessionsHeld'
<1>1. workers \in [Scanners -> WorkerType]
  BY TypeParts DEF LIInv
<1>2. workers'[w] = r /\ \A v \in Scanners : v # w => workers'[v] = workers[v]
  BY <1>1
<1>3. \/ r.at \notin {"reading", "dropping"} /\ workers[w].at \notin {"reading", "dropping"} /\ scans'[w].at = scans[w].at
      \/ r.at = "reading" /\ scans'[w].at # "none"
      \/ r.at = "dropping" /\ scans'[w].at = "open"
      \/ r.at = "preparing" /\ scans'[w].at = "none"
  BY DEF WorkerStep, Takes, IsAdmitted, Leaves, Opens, HasOutcome, Reads, HasRead, Closes, Sends, ScanKept
<1>4. QED
  BY <1>2, <1>3 DEF SessionsHeld

\* ... and those still to be opened.
LEMMA LeftKept ==
  ASSUME LIInv, SessionsLeft, NEW w \in Scanners, NEW r \in WorkerType, workers' = [workers EXCEPT ![w] = r],
         WorkerStep(w, r)
  PROVE  SessionsLeft'
<1>1. workers \in [Scanners -> WorkerType] /\ budget.next \in Nat /\ MaxScans \in Nat /\ scans_left \in Nat
  BY TypeParts, SourceAssumption DEF LIInv, IInv, TypeOK
<1>2. workers'[w] = r /\ \A v \in Scanners : v # w => workers'[v] = workers[v]
  BY <1>1
<1>3. IsFiniteSet(Openers) /\ Cardinality(Openers) \in Nat
  BY SourceAssumption, FS_Subset, FS_CardinalityType DEF Openers
<1>4. IsAdmitted(w, r) => Openers' = Openers \cup {w} /\ w \notin Openers
  BY <1>2 DEF Openers, IsAdmitted
<1>5. workers[w].at = "opening" /\ r.at # "opening" => Openers' = Openers \ {w} /\ w \in Openers
  BY <1>2 DEF Openers
<1>6. workers[w].at # "opening" /\ r.at # "opening" => Openers' = Openers
  BY <1>2 DEF Openers
<1>7. CASE IsAdmitted(w, r)
  <2>1. Cardinality(Openers') = Cardinality(Openers) + 1
    BY <1>3, <1>4, <1>7, FS_AddElement
  <2>2. budget'.next = budget.next + 1 /\ scans_left' = scans_left
    BY <1>7 DEF IsAdmitted, ScanKept
  <2>3. QED
    BY <1>1, <1>3, <2>1, <2>2 DEF SessionsLeft
<1>8. CASE workers[w].at = "opening"
  <2>1. /\ r.at # "opening" /\ budget' = budget
        /\ scans_left' = scans_left \/ scans_left' = scans_left - 1
    BY <1>8 DEF WorkerStep, Takes, IsAdmitted, Leaves, Opens, HasOutcome, Reads, HasRead, Closes, Sends, ScanKept, Kept
  <2>2. Cardinality(Openers') = Cardinality(Openers) - 1
    BY <1>3, <1>5, <1>8, <2>1, FS_RemoveElement
  <2>3. QED
    BY <1>1, <1>3, <2>1, <2>2 DEF SessionsLeft
<1>9. CASE workers[w].at # "opening" /\ ~IsAdmitted(w, r)
  <2>1. r.at # "opening" /\ budget' = budget /\ scans_left' = scans_left
    BY <1>9 DEF WorkerStep, Takes, Leaves, Opens, HasOutcome, Reads, HasRead, Closes, Sends, ScanKept, Kept
  <2>2. QED
    BY <1>6, <1>9, <2>1 DEF SessionsLeft
<1>10. QED
  BY <1>7, <1>8, <1>9

\* What the application does, or a step that is none, leaves the threads where they are.
LEMMA OthersStep ==
  ASSUME LIInv, Around \/ cancel \/ UNCHANGED all_vars
  PROVE  /\ UNCHANGED <<workers, next_book, budget, channel, scans, scans_left>>
         /\ batch'.at = batch.at /\ batch'.next = batch.next /\ batch'.waiting = batch.waiting
<1>1. CASE Around
  BY <1>1 DEF Around, batch_vars, App, Waited, with_store, WindowFails, ProbeFails, Happens, suspend, suspend_owned,
              resume, resume_owned, Replace, Exit, configure, Begins
<1>2. CASE cancel
  <2>1. batch \in BatchType
    BY TypeParts DEF LIInv
  <2>2. QED
    BY <1>2, <2>1 DEF cancel, vars, BatchType
<1>3. CASE UNCHANGED all_vars
  BY <1>3 DEF all_vars, vars, batch_vars
<1>4. QED
  BY <1>1, <1>2, <1>3

\* Every action keeps what the threads need to go on.
LEMMA NextGInv == ASSUME LIInv, GInv, [BatchNext]_all_vars PROVE GInv'
<1>1. CASE Around \/ cancel \/ UNCHANGED all_vars
  <2>1. /\ UNCHANGED <<workers, next_book, budget, channel, scans, scans_left>>
        /\ batch'.at = batch.at /\ batch'.next = batch.next /\ batch'.waiting = batch.waiting
    BY <1>1, OthersStep
  <2>2. HasNext' /\ Started'
    BY <2>1 DEF GInv, HasNext, Waiting, Started, Ended
  <2>3. InTurn' /\ SessionsHeld' /\ SessionsLeft'
    BY <2>1 DEF GInv, InTurn, SessionsHeld, SessionsLeft, Openers
  <2>4. QED
    BY <2>2, <2>3 DEF GInv
<1>2. CASE Caller \/ NumberFails \/ AddFails
  <2>1. /\ scans' = scans /\ scans_left' = scans_left /\ next_book' = next_book
        /\ IsNumbered \/ IsReceived \/ IsBegun \/ IsOver \/ \E o \in Waiting : IsSettled(o)
    BY <1>2, CallerSteps
  <2>2. budget'.next = budget.next /\ (workers' = workers \/ IsNumbered)
    BY <2>1 DEF IsNumbered, IsReceived, IsBegun, IsOver, IsSettled
  <2>3. HasNext'
    BY <2>1 DEF HasNext, IsNumbered, IsReceived, IsBegun, IsOver, IsSettled, Waiting
  <2>4. Started'
    BY <2>1 DEF GInv, Started, IsNumbered, IsReceived, IsBegun, IsOver, IsSettled, Adding, Ended
  <2>5. CASE workers' = workers
    BY <2>1, <2>2, <2>3, <2>4, <2>5 DEF GInv, InTurn, SessionsHeld, SessionsLeft, Openers
  <2>6. CASE IsNumbered
    <3>1. \A w \in Scanners : workers[w].at = "none" /\ workers'[w].at = "taking"
      BY <2>6 DEF LIInv, BInv, Stages, IsNumbered
    <3>2. InTurn'
      BY <2>1, <2>2, <3>1 DEF GInv, InTurn, Idle
    <3>3. SessionsHeld'
      BY <2>1, <3>1 DEF GInv, SessionsHeld
    <3>4. Openers' = Openers
      BY <3>1 DEF Openers
    <3>5. SessionsLeft'
      BY <2>1, <2>2, <3>4 DEF GInv, SessionsLeft
    <3>6. QED
      BY <2>3, <2>4, <3>2, <3>3, <3>5 DEF GInv
  <2>7. QED
    BY <2>2, <2>5, <2>6
<1>3. ASSUME NEW w \in Scanners, Worker(w) \/ PrepareFails(w) PROVE GInv'
  <2>1. PICK r \in WorkerType : workers' = [workers EXCEPT ![w] = r] /\ WorkerStep(w, r)
    BY <1>3, WorkerSteps
  <2>2. batch' = batch /\ \A v \in Scanners : v # w => scans'[v].at = scans[v].at
    BY <1>3, WorkerSteps
  <2>3. InTurn' /\ SessionsHeld' /\ SessionsLeft'
    BY <2>1, <2>2, TurnKept, HeldKept, LeftKept DEF GInv
  <2>4. HasNext'
    BY <2>2 DEF GInv, HasNext, Waiting
  <2>5. workers \in [Scanners -> WorkerType]
    BY TypeParts DEF LIInv
  <2>6. r.at # "none"
    BY <2>1 DEF WorkerStep, Takes, IsAdmitted, Leaves, Opens, HasOutcome, Reads, HasRead, Closes, Sends
  <2>7. Started'
    BY <2>1, <2>2, <2>5, <2>6 DEF GInv, Started, Ended
  <2>8. QED
    BY <2>3, <2>4, <2>7 DEF GInv
<1>4. QED
  BY <1>1, <1>2, <1>3 DEF BatchNext

\* A batch begins with no worker and every session to open.
LEMMA InitGInv == ASSUME BatchInit PROVE GInv
<1>1. /\ batch.at = "numbering" /\ next_book = 1 /\ budget.next = 1 /\ scans_left = MaxScans
      /\ \A w \in Scanners : workers[w].at = "none" /\ scans[w].at = "none"
  BY DEF BatchInit, Init, NoWorker, NoScan
<1>2. Openers = {}
  BY <1>1 DEF Openers
<1>3. SessionsLeft
  BY <1>1, <1>2, FS_EmptySet, SourceAssumption DEF SessionsLeft
<1>4. QED
  BY <1>1, <1>3 DEF GInv, HasNext, Started, InTurn, SessionsHeld, Idle

\* What a worker that cannot go on waits for: to be admitted.
LEMMA WorkerWaits ==
  ASSUME LIInv, GInv, MaxScans >= NumBooks, NEW w \in Scanners, ~WorkerCan(w), Len(channel) = 0,
         workers[w].at \notin {"none", "exited"}
  PROVE  /\ workers[w].at = "admitting" /\ ~stop
         /\ ~(workers[w].book = budget.next /\ budget.in_flight < book_workers)
<1>1. /\ workers[w] \in WorkerType /\ budget.next \in 1 .. NumBooks + 1 /\ NumBooks \in Nat /\ book_workers \in Nat
      /\ MaxScans \in Nat /\ scans_left \in Nat
  BY TypeParts, SourceAssumption DEF LIInv, IInv, TypeOK
<1>2. workers[w].at # "opening"
  <2>1. SUFFICES ASSUME workers[w].at = "opening" PROVE FALSE
    OBVIOUS
  <2>2. IsFiniteSet(Openers) /\ Cardinality(Openers) \in Nat /\ Openers # {}
    BY <2>1, SourceAssumption, FS_Subset, FS_CardinalityType DEF Openers
  <2>3. Cardinality(Openers) # 0
    BY <2>2, FS_EmptySet
  <2>4. scans_left > 0
    BY <1>1, <2>2, <2>3 DEF GInv, SessionsLeft
  <2>5. scans[w].at = "none"
    BY <2>1 DEF GInv, SessionsHeld
  <2>6. QED
    BY <2>1, <2>4, <2>5 DEF WorkerCan
<1>3. workers[w].at # "sending"
  <2>1. book_workers # 0
    BY SourceAssumption, FS_EmptySet DEF book_workers
  <2>2. QED
    BY <1>1, <2>1 DEF WorkerCan
<1>4. workers[w].at \notin {"reading", "dropping", "taking", "preparing"}
  BY DEF WorkerCan, GInv, SessionsHeld
<1>5. workers[w].at = "admitting"
  BY <1>1, <1>2, <1>3, <1>4 DEF WorkerType
<1>6. QED
  BY <1>5 DEF WorkerCan

\* In any state a thread can go on: the workers wait only for the book that is
\* admitted next, which is with one of them and has room, or for the calling
\* thread, which waits only for them.
LEMMA GoesOn == ASSUME LIInv, GInv, MaxScans >= NumBooks PROVE NeverStuck
<1>1. SUFFICES ASSUME ~Ended, ~CallerCan, \A w \in Scanners : ~WorkerCan(w) PROVE FALSE
  BY DEF NeverStuck
<1>2. BInv
  BY DEF LIInv
<1>3. /\ budget.next \in 1 .. NumBooks + 1 /\ batch.next \in 1 .. NumBooks + 1 /\ NumBooks \in Nat
      /\ next_book \in Nat /\ book_workers \in Nat /\ channel \in Seq(Message)
      /\ batch.at \in {"numbering", "receiving", "adding", "joining", "returned", "failed"}
      /\ \A w \in Scanners : workers[w].book \in 0 .. NumBooks /\ workers[w] \in WorkerType
  BY <1>2, TypeParts DEF WorkerType
<1>4. batch.at \in {"receiving", "joining"} /\ ~AllExited
  <2>1. batch.at \in {"receiving", "joining"}
    BY <1>1, <1>3 DEF CallerCan, Ended, GInv, HasNext
  <2>2. QED
    BY <1>1, <2>1 DEF CallerCan
<1>5. channel = <<>> /\ Len(channel) = 0
  BY <1>1, <1>2, <1>4 DEF CallerCan, BInv, Stages, Adding
<1>6. \A w \in Scanners : workers[w].at # "none"
  BY <1>1, <1>4 DEF GInv, Started
<1>7. PICK w \in Scanners : workers[w].at # "exited"
  BY <1>4 DEF AllExited
<1>8. \A v \in Scanners : workers[v].at # "exited" =>
        /\ workers[v].at = "admitting" /\ ~stop
        /\ ~(workers[v].book = budget.next /\ budget.in_flight < book_workers)
  BY <1>1, <1>5, <1>6, WorkerWaits
<1>9. workers[w].at = "admitting" /\ ~stop
  BY <1>7, <1>8
<1>10. batch.at = "receiving" /\ Adding
  BY <1>2, <1>4, <1>9 DEF BInv, Stages, stop, Adding
<1>11. Places /\ Covered /\ ~batch.cancelled
  BY <1>2, <1>9, <1>10 DEF BInv, stop
<1>12. Waiting = {}
  BY <1>1, <1>10 DEF CallerCan
<1>13. \A v \in Scanners : /\ workers[v].at \notin Idle => workers[v].at = "admitting" /\ budget.next <= workers[v].book
  BY <1>8 DEF Idle, GInv, InTurn
<1>14. budget.next = batch.next
  <2>1. budget.in_flight = budget.next - batch.next /\ budget.in_flight \in Nat
    BY <1>2, <1>11, TypeParts DEF Places
  <2>2. SUFFICES ASSUME batch.next < budget.next PROVE FALSE
    BY <1>3, <2>1
  <2>3. batch.next \in 1 .. NumBooks /\ batch.next <= batch.next /\ batch.next < next_book
    BY <1>3, <2>2 DEF GInv, InTurn
  <2>4. Somewhere(batch.next)
    BY <1>11, <2>3 DEF Covered
  <2>5. PICK v \in Scanners : workers[v].at \notin Idle /\ workers[v].book = batch.next
    BY <1>5, <1>12, <2>4 DEF Somewhere, Waiting
  <2>6. QED
    BY <1>3, <1>13, <2>2, <2>5
<1>15. budget.in_flight = 0 /\ 0 < book_workers
  <2>1. book_workers # 0
    BY SourceAssumption, BatchAssumption, FS_EmptySet DEF book_workers
  <2>2. QED
    BY <1>3, <1>11, <1>14, <2>1 DEF Places
<1>16. budget.next \in 1 .. NumBooks /\ batch.next <= budget.next /\ budget.next < next_book
  <2>1. budget.next <= workers[w].book /\ workers[w].book < next_book /\ workers[w].book <= NumBooks
    BY <1>3, <1>9 DEF GInv, InTurn, Idle
  <2>2. QED
    BY <1>3, <1>14, <2>1
<1>17. Somewhere(budget.next)
  BY <1>11, <1>16 DEF Covered
<1>18. PICK v \in Scanners : workers[v].at \notin Idle /\ workers[v].book = budget.next
  BY <1>5, <1>12, <1>14, <1>17 DEF Somewhere, Waiting
<1>19. QED
  BY <1>8, <1>15, <1>18 DEF Idle

\* What the threads need to go on is an invariant, for any books and workers.
THEOREM GoingInvariant == BatchSpec => []GInv
<1>1. BatchInit => GInv
  BY InitGInv
<1>2. LIInv /\ GInv /\ [BatchNext]_all_vars => GInv'
  BY NextGInv
<1>3. QED
  BY <1>1, <1>2, BatchInvariant, PTL DEF BatchSpec

\* Until the batch ends a thread can go on (NeverStuck), as long as the model
\* lets each book open its session: later books cannot starve the next one
\* of its admission, nor the senders the thread that joins them.
THEOREM NeverStops == ASSUME MaxScans >= NumBooks PROVE BatchSpec => []NeverStuck
<1>1. LIInv /\ GInv => NeverStuck
  BY GoesOn
<1>2. QED
  BY <1>1, BatchInvariant, GoingInvariant, PTL

----------------------------------------------------------------------------
(* Each of their steps brings the batch nearer to its end.                 *)

\* A book is taken, admitted, opened, begun, read, closed, prepared, sent,
\* received, decided on and added: the stages a worker has yet to take it to
\* or beyond, counted from the last ...
YetFor(w, k) ==
  \/ workers[w].at = "admitting" /\ k <= 10
  \/ workers[w].at = "opening" /\ k <= 9
  \/ workers[w].at = "reading" /\ k <= (IF scans[w].at = "reading" THEN 7 ELSE 8)
  \/ workers[w].at = "dropping" /\ k <= 6
  \/ workers[w].at = "preparing" /\ k <= 5
  \/ workers[w].at = "sending" /\ k <= 4

\* ... and those before a book that anybody takes up or has.
Yet(b, k) ==
  \/ next_book <= b
  \/ \E w \in Scanners : workers[w].book = b /\ YetFor(w, k)
  \/ \E i \in 1 .. Len(channel) : channel[i].book = b /\ k <= 3
  \/ \E o \in batch.waiting : o.book = b /\ k <= (IF batch.at = "adding" /\ b = batch.next THEN 1 ELSE 2)

BooksYet == {p \in (1 .. NumBooks) \X (1 .. 11) : Yet(p[1], p[2])}

\* The workers have yet to leave ...
WorkersYet == {w \in Scanners : workers[w].at # "exited"}

\* ... and the calling thread to number the books, to add them and to join.
CallerYet ==
  CASE batch.at = "numbering" -> 3
    [] batch.at \in {"receiving", "adding"} -> 2
    [] batch.at = "joining" -> 1
    [] batch.at \in {"returned", "failed"} -> 0

StepsYet == Cardinality(BooksYet) + Cardinality(WorkersYet) + CallerYet

\* A step of the threads of the batch, not of the application.
ThreadStep ==
  \/ Caller \/ NumberFails \/ AddFails
  \/ \E w \in Scanners : Worker(w) \/ PrepareFails(w)

\* Whatever is yet to be done is finite.
LEMMA YetFinite ==
  ASSUME LIInv
  PROVE  /\ IsFiniteSet(BooksYet) /\ Cardinality(BooksYet) \in Nat
         /\ IsFiniteSet(WorkersYet) /\ Cardinality(WorkersYet) \in Nat
         /\ CallerYet \in 0 .. 3 /\ StepsYet \in Nat
<1>1. NumBooks \in Nat /\ batch.at \in {"numbering", "receiving", "adding", "joining", "returned", "failed"}
  BY TypeParts DEF LIInv
<1>2. IsFiniteSet(1 .. NumBooks) /\ IsFiniteSet(1 .. 11)
  <2>1. 1 \in Int /\ 11 \in Int /\ NumBooks \in Int
    BY <1>1
  <2>2. IsFiniteSet(1 .. NumBooks)
    BY <2>1, FS_Interval
  <2>3. IsFiniteSet(1 .. 11)
    BY <2>1, FS_Interval
  <2>4. QED
    BY <2>2, <2>3
<1>3. IsFiniteSet((1 .. NumBooks) \X (1 .. 11))
  BY <1>2, FS_Product
<1>4. IsFiniteSet(BooksYet) /\ Cardinality(BooksYet) \in Nat
  BY <1>3, FS_Subset, FS_CardinalityType DEF BooksYet
<1>5. IsFiniteSet(WorkersYet) /\ Cardinality(WorkersYet) \in Nat
  BY SourceAssumption, FS_Subset, FS_CardinalityType DEF WorkersYet
<1>6. CallerYet \in 0 .. 3
  BY <1>1 DEF CallerYet
<1>7. QED
  BY <1>4, <1>5, <1>6 DEF StepsYet

\* There is less to do when nothing is added to it and something is gone.
LEMMA FewerSteps ==
  ASSUME LIInv, LIInv', BooksYet' \subseteq BooksYet, WorkersYet' \subseteq WorkersYet, CallerYet' <= CallerYet,
         BooksYet' # BooksYet \/ WorkersYet' # WorkersYet \/ CallerYet' < CallerYet
  PROVE  StepsYet' < StepsYet
<1>1. /\ Cardinality(BooksYet') <= Cardinality(BooksYet)
      /\ BooksYet' # BooksYet => Cardinality(BooksYet') < Cardinality(BooksYet)
  BY YetFinite, FS_Subset, FS_CardinalityType
<1>2. /\ Cardinality(WorkersYet') <= Cardinality(WorkersYet)
      /\ WorkersYet' # WorkersYet => Cardinality(WorkersYet') < Cardinality(WorkersYet)
  BY YetFinite, FS_Subset, FS_CardinalityType
<1>3. /\ Cardinality(BooksYet) \in Nat /\ Cardinality(WorkersYet) \in Nat /\ CallerYet \in 0 .. 3
  BY YetFinite
<1>4. /\ Cardinality(BooksYet)' \in Nat /\ Cardinality(WorkersYet)' \in Nat /\ CallerYet' \in 0 .. 3
  <2>1. /\ IsFiniteSet(BooksYet') /\ IsFiniteSet(WorkersYet')
    BY YetFinite, FS_Subset
  <2>2. batch'.at \in {"numbering", "receiving", "adding", "joining", "returned", "failed"}
    BY DEF LIInv, BInv, BatchTypes, BatchTypeOK
  <2>3. CallerYet' \in 0 .. 3
    BY <2>2 DEF CallerYet
  <2>4. QED
    BY <2>1, <2>3, FS_CardinalityType
<1>5. QED
  BY <1>1, <1>2, <1>3, <1>4 DEF StepsYet

\* What comes to a book only if it was yet to come, and one that came.
LEMMA BooksFewer ==
  ASSUME NEW b \in 1 .. NumBooks, NEW k \in 1 .. 11, Yet(b, k), ~Yet(b, k)',
         \A c \in 1 .. NumBooks : \A j \in 1 .. 11 : Yet(c, j)' => Yet(c, j)
  PROVE  BooksYet' \subseteq BooksYet /\ BooksYet' # BooksYet
<1>1. <<b, k>> \in BooksYet /\ <<b, k>> \notin BooksYet'
  BY DEF BooksYet
<1>2. BooksYet' \subseteq BooksYet
  BY DEF BooksYet
<1>3. QED
  BY <1>1, <1>2

\* A worker that goes on with its book takes it a stage further.
LEMMA StageStep ==
  ASSUME LIInv, GInv, NEW w \in Scanners, NEW r \in WorkerType, workers' = [workers EXCEPT ![w] = r],
         batch' = batch, \A v \in Scanners : v # w => scans'[v].at = scans[v].at,
         UNCHANGED <<next_book, channel>>, r.book = workers[w].book, workers[w].at \notin Idle, r.at # "exited",
         NEW k \in 4 .. 10, YetFor(w, k), ~YetFor(w, k)', \A j \in 1 .. 11 : YetFor(w, j)' => YetFor(w, j)
  PROVE  /\ BooksYet' \subseteq BooksYet /\ BooksYet' # BooksYet
         /\ WorkersYet' = WorkersYet /\ CallerYet' = CallerYet
<1>1. /\ workers \in [Scanners -> WorkerType] /\ next_book \in Nat /\ NumBooks \in Nat
      /\ workers[w].book # 0 /\ workers[w] \in WorkerType
  BY TypeParts DEF LIInv
<1>2. workers'[w] = r /\ \A v \in Scanners : v # w => workers'[v] = workers[v]
  BY <1>1
<1>3. PICK b \in 1 .. NumBooks : b = workers[w].book
  BY <1>1 DEF WorkerType
<1>4. \A v \in Scanners : v # w => \A j \in 1 .. 11 : YetFor(v, j)' <=> YetFor(v, j)
  BY <1>2 DEF YetFor
<1>5. \A c \in 1 .. NumBooks : \A j \in 1 .. 11 : Yet(c, j)' => Yet(c, j)
  BY <1>2, <1>4 DEF Yet
<1>6. Yet(b, k)
  BY <1>3 DEF Yet
<1>7. ~Yet(b, k)'
  <2>1. ~(next_book' <= b)
    BY <1>1, <1>3 DEF GInv, InTurn
  <2>2. ASSUME NEW v \in Scanners, workers'[v].book = b, YetFor(v, k)' PROVE FALSE
    <3>1. v # w
      BY <2>2
    <3>2. workers[v].book = b /\ workers[v].at \notin Idle
      BY <1>2, <2>2, <3>1 DEF YetFor, Idle
    <3>3. QED
      BY <1>3, <3>1, <3>2 DEF GInv, InTurn
  <2>3. QED
    BY <2>1, <2>2 DEF Yet
<1>8. BooksYet' \subseteq BooksYet /\ BooksYet' # BooksYet
  BY <1>5, <1>6, <1>7, BooksFewer
<1>9. WorkersYet' = WorkersYet
  BY <1>2 DEF WorkersYet, Idle
<1>10. CallerYet' = CallerYet
  BY DEF CallerYet
<1>11. QED
  BY <1>8, <1>9, <1>10

\* Each step of a worker leaves less to do.
LEMMA WorkerNearer ==
  ASSUME LIInv, GInv, LIInv', NEW w \in Scanners, Worker(w) \/ PrepareFails(w)
  PROVE  StepsYet' < StepsYet
<1>1. PICK r \in WorkerType : workers' = [workers EXCEPT ![w] = r] /\ WorkerStep(w, r)
  BY WorkerSteps
<1>2. batch' = batch /\ \A v \in Scanners : v # w => scans'[v].at = scans[v].at
  BY WorkerSteps
<1>3. /\ workers \in [Scanners -> WorkerType] /\ next_book \in Nat \ {0} /\ NumBooks \in Nat
      /\ channel \in Seq(Message) /\ workers[w] \in WorkerType
      /\ workers[w].at \notin Idle => workers[w].book # 0
  BY TypeParts DEF LIInv
<1>4. workers'[w] = r /\ \A v \in Scanners : v # w => workers'[v] = workers[v]
  BY <1>1, <1>3
<1>5. CallerYet' = CallerYet /\ CallerYet \in 0 .. 3
  BY <1>2, YetFinite DEF CallerYet
<1>6. \A v \in Scanners : v # w => \A j \in 1 .. 11 : YetFor(v, j)' <=> YetFor(v, j)
  BY <1>2, <1>4 DEF YetFor
<1>7. CASE Takes(w, r)
  <2>1. \A j \in 1 .. 11 : ~YetFor(w, j)
    BY <1>7 DEF Takes, YetFor
  <2>2. workers[w].at = "taking" /\ next_book' = next_book + 1 /\ channel' = channel
    BY <1>7 DEF Takes
  <2>3. CASE next_book <= NumBooks /\ r.at = "admitting" /\ r.book = next_book
    <3>1. PICK b \in 1 .. NumBooks : b = next_book
      BY <1>3, <2>3
    <3>2. \A c \in 1 .. NumBooks : next_book' <= c => next_book <= c
      BY <1>3, <2>2
    <3>3. \A c \in 1 .. NumBooks : \A j \in 1 .. 11 : Yet(c, j)' => Yet(c, j)
      BY <1>2, <1>4, <1>6, <2>2, <2>3, <3>2 DEF Yet
    <3>4. Yet(b, 11)
      BY <3>1 DEF Yet
    <3>5. \A v \in Scanners : ~YetFor(v, 11)'
      BY DEF YetFor
    <3>6. ~(next_book' <= b)
      BY <2>2, <3>1
    <3>7. ~Yet(b, 11)'
      BY <3>5, <3>6 DEF Yet
    <3>8. BooksYet' \subseteq BooksYet /\ BooksYet' # BooksYet
      BY <3>3, <3>4, <3>7, BooksFewer
    <3>9. WorkersYet' = WorkersYet
      BY <1>4, <2>2, <2>3 DEF WorkersYet
    <3>10. QED
      BY <1>5, <3>8, <3>9, FewerSteps
  <2>4. CASE next_book > NumBooks /\ r.at = "exited"
    <3>1. \A c \in 1 .. NumBooks : ~(next_book' <= c)
      BY <1>3, <2>2, <2>4
    <3>2. \A j \in 1 .. 11 : ~YetFor(w, j)'
      BY <1>4, <2>4 DEF YetFor
    <3>3. \A c \in 1 .. NumBooks : \A j \in 1 .. 11 : Yet(c, j)' => Yet(c, j)
      BY <1>2, <1>4, <1>6, <2>2, <3>1, <3>2 DEF Yet
    <3>4. BooksYet' \subseteq BooksYet
      BY <3>3 DEF BooksYet
    <3>5. WorkersYet' = WorkersYet \ {w} /\ w \in WorkersYet
      BY <1>4, <2>2, <2>4 DEF WorkersYet
    <3>6. QED
      BY <1>5, <3>4, <3>5, FewerSteps
  <2>5. QED
    BY <1>7, <2>3, <2>4 DEF Takes
<1>8. CASE Leaves(w, r)
  <2>1. /\ workers[w].at # "exited" /\ r.at = "exited"
        /\ next_book' = next_book /\ channel' = channel
    BY <1>8 DEF Leaves, Kept
  <2>2. \A j \in 1 .. 11 : ~YetFor(w, j)'
    BY <1>4, <2>1 DEF YetFor
  <2>3. \A c \in 1 .. NumBooks : \A j \in 1 .. 11 : Yet(c, j)' => Yet(c, j)
    BY <1>2, <1>4, <1>6, <2>1, <2>2 DEF Yet
  <2>4. BooksYet' \subseteq BooksYet
    BY <2>3 DEF BooksYet
  <2>5. WorkersYet' = WorkersYet \ {w} /\ w \in WorkersYet
    BY <1>4, <2>1 DEF WorkersYet
  <2>6. QED
    BY <1>5, <2>4, <2>5, FewerSteps
<1>9. CASE IsAdmitted(w, r) \/ Opens(w, r) \/ HasOutcome(w, r) \/ Reads(w, r) \/ HasRead(w, r) \/ Closes(w, r)
  <2>1. /\ workers[w].at \notin Idle /\ r.book = workers[w].book /\ r.at # "exited"
        /\ next_book' = next_book /\ channel' = channel
    BY <1>9 DEF IsAdmitted, Opens, HasOutcome, Reads, HasRead, Closes, Kept, Idle
  <2>2. \A j \in 1 .. 11 : YetFor(w, j)' => YetFor(w, j)
    <3>1. CASE IsAdmitted(w, r) \/ Opens(w, r) \/ HasOutcome(w, r)
      BY <1>4, <3>1 DEF YetFor, IsAdmitted, Opens, HasOutcome
    <3>2. CASE Reads(w, r) \/ HasRead(w, r) \/ Closes(w, r)
      BY <1>4, <3>2 DEF YetFor, Reads, HasRead, Closes
    <3>3. QED
      BY <1>9, <3>1, <3>2
  <2>3. \E k \in 4 .. 10 : YetFor(w, k) /\ ~YetFor(w, k)'
    <3>1. CASE IsAdmitted(w, r)
      <4>1. YetFor(w, 10) /\ ~YetFor(w, 10)'
        BY <1>4, <3>1 DEF YetFor, IsAdmitted
      <4>2. QED
        BY <4>1
    <3>2. CASE Opens(w, r)
      <4>1. YetFor(w, 9) /\ ~YetFor(w, 9)'
        BY <1>4, <3>2 DEF YetFor, Opens
      <4>2. QED
        BY <4>1
    <3>3. CASE Reads(w, r)
      <4>1. YetFor(w, 8) /\ ~YetFor(w, 8)'
        BY <1>4, <3>3 DEF YetFor, Reads
      <4>2. QED
        BY <4>1
    <3>4. CASE HasRead(w, r)
      <4>1. YetFor(w, 7) /\ ~YetFor(w, 7)'
        BY <1>4, <3>4 DEF YetFor, HasRead
      <4>2. QED
        BY <4>1
    <3>5. CASE Closes(w, r)
      <4>1. YetFor(w, 6) /\ ~YetFor(w, 6)'
        BY <1>4, <3>5 DEF YetFor, Closes
      <4>2. QED
        BY <4>1
    <3>6. CASE HasOutcome(w, r)
      <4>1. YetFor(w, 5) /\ ~YetFor(w, 5)'
        BY <1>4, <3>6 DEF YetFor, HasOutcome
      <4>2. QED
        BY <4>1
    <3>7. QED
      BY <1>9, <3>1, <3>2, <3>3, <3>4, <3>5, <3>6
  <2>4. PICK k \in 4 .. 10 : YetFor(w, k) /\ ~YetFor(w, k)'
    BY <2>3
  <2>5. /\ BooksYet' \subseteq BooksYet /\ BooksYet' # BooksYet
        /\ WorkersYet' = WorkersYet /\ CallerYet' = CallerYet
    BY <1>1, <1>2, <2>1, <2>2, <2>4, StageStep
  <2>6. QED
    BY <1>5, <2>5, FewerSteps
<1>10. CASE Sends(w, r)
  <2>1. PICK m \in Message : m.book = workers[w].book /\ channel' = Append(channel, m)
    BY <1>10 DEF Sends
  <2>2. workers[w].at = "sending" /\ r.at = "taking" /\ next_book' = next_book
    BY <1>10 DEF Sends
  <2>3. /\ Len(channel) \in Nat /\ Len(channel') = Len(channel) + 1
        /\ channel'[Len(channel) + 1] = m
        /\ \A i \in 1 .. Len(channel) : channel'[i] = channel[i]
    BY <1>3, <2>1, AppendProperties, LenProperties
  <2>4. \A i \in 1 .. Len(channel') : channel'[i].book = workers[w].book \/ (i \in 1 .. Len(channel) /\ channel'[i] = channel[i])
    BY <2>1, <2>3
  <2>5. PICK b \in 1 .. NumBooks : b = workers[w].book
    BY <1>3, <2>2 DEF WorkerType, Idle
  <2>6. \A j \in 1 .. 11 : /\ ~YetFor(w, j)'
                           /\ j <= 4 => YetFor(w, j)
    BY <1>4, <2>2 DEF YetFor
  <2>7. \A c \in 1 .. NumBooks : \A j \in 1 .. 11 : Yet(c, j)' => Yet(c, j)
    <3>1. SUFFICES ASSUME NEW c \in 1 .. NumBooks, NEW j \in 1 .. 11, Yet(c, j)' PROVE Yet(c, j)
      OBVIOUS
    <3>2. CASE \E i \in 1 .. Len(channel') : channel'[i].book = c /\ j <= 3
      <4>1. PICK i \in 1 .. Len(channel') : channel'[i].book = c /\ j <= 3
        BY <3>2
      <4>2. CASE channel'[i].book = workers[w].book
        <5>1. j <= 4
          BY <4>1
        <5>2. QED
          BY <2>6, <4>1, <4>2, <5>1 DEF Yet
      <4>3. CASE i \in 1 .. Len(channel) /\ channel'[i] = channel[i]
        BY <4>1, <4>3 DEF Yet
      <4>4. QED
        BY <2>4, <4>2, <4>3
    <3>3. CASE ~(\E i \in 1 .. Len(channel') : channel'[i].book = c /\ j <= 3)
      BY <1>2, <1>4, <1>6, <2>2, <2>6, <3>1, <3>3 DEF Yet
    <3>4. QED
      BY <3>2, <3>3
  <2>8. Yet(b, 4)
    BY <2>5, <2>6 DEF Yet
  <2>9. ~Yet(b, 4)'
    <3>1. ~(next_book' <= b)
      BY <1>3, <2>2, <2>5 DEF GInv, InTurn, Idle
    <3>2. ASSUME NEW v \in Scanners, workers'[v].book = b, YetFor(v, 4)' PROVE FALSE
      <4>1. v # w
        BY <2>6, <3>2
      <4>2. workers[v].book = b /\ workers[v].at \notin Idle
        BY <1>4, <3>2, <4>1 DEF YetFor, Idle
      <4>3. workers[w].at \notin Idle
        BY <2>2 DEF Idle
      <4>4. QED
        BY <2>5, <4>1, <4>2, <4>3 DEF GInv, InTurn
    <3>3. QED
      BY <3>1, <3>2 DEF Yet
  <2>10. BooksYet' \subseteq BooksYet /\ BooksYet' # BooksYet
    BY <2>7, <2>8, <2>9, BooksFewer
  <2>11. WorkersYet' = WorkersYet
    BY <1>4, <2>2 DEF WorkersYet
  <2>12. QED
    BY <1>5, <2>10, <2>11, FewerSteps
<1>11. QED
  BY <1>1, <1>7, <1>8, <1>9, <1>10 DEF WorkerStep

\* Each step of the calling thread leaves less to do.
LEMMA CallerNearer ==
  ASSUME LIInv, GInv, LIInv', Caller \/ NumberFails \/ AddFails
  PROVE  StepsYet' < StepsYet
<1>1. scans' = scans /\ next_book' = next_book
  BY CallerSteps
<1>2. /\ next_book \in Nat \ {0} /\ NumBooks \in Nat /\ channel \in Seq(Message) /\ Len(channel) \in Nat
      /\ batch.waiting \subseteq Message /\ batch.next \in 1 .. NumBooks + 1 /\ budget.next \in 1 .. NumBooks + 1
      /\ \A w \in Scanners : workers[w].book \in 0 .. NumBooks
  BY TypeParts DEF LIInv, WorkerType
<1>3. CallerYet \in 0 .. 3
  BY YetFinite
<1>4. workers' = workers => /\ WorkersYet' = WorkersYet
                            /\ \A w \in Scanners : \A j \in 1 .. 11 : YetFor(w, j)' <=> YetFor(w, j)
  BY <1>1 DEF WorkersYet, YetFor
\* A book in flight in the channel or waiting is with no worker.
<1>5. ASSUME Adding, NEW b \in 1 .. NumBooks, InFlight(b), NEW w \in Scanners, NEW j \in 1 .. 11, YetFor(w, j),
             \/ \E i \in 1 .. Len(channel) : channel[i].book = b
             \/ \E o \in batch.waiting : o.book = b
      PROVE  workers[w].book # b
  <2>1. CASE workers[w].at = "admitting"
    <3>1. budget.next <= workers[w].book
      BY <2>1 DEF GInv, InTurn
    <3>2. QED
      BY <1>2, <1>5, <3>1 DEF InFlight
  <2>2. CASE workers[w].at \in Admitted
    BY <1>5, <2>2 DEF LIInv, BInv, Apart
  <2>3. QED
    BY <1>5, <2>1, <2>2 DEF YetFor, Admitted
<1>6. ASSUME NEW b \in 1 .. NumBooks, InFlight(b) PROVE ~(next_book <= b)
  BY <1>2, <1>6 DEF InFlight, GInv, InTurn
<1>7. CASE IsNumbered
  <2>1. /\ \A w \in Scanners : workers[w].at = "none" /\ workers'[w].at = "taking"
        /\ channel' = channel /\ batch'.waiting = {}
    BY <1>7 DEF LIInv, BInv, Stages, IsNumbered
  <2>2. \A w \in Scanners : \A j \in 1 .. 11 : ~YetFor(w, j)'
    BY <2>1 DEF YetFor
  <2>3. \A c \in 1 .. NumBooks : \A j \in 1 .. 11 : Yet(c, j)' => Yet(c, j)
    BY <1>1, <2>1, <2>2 DEF Yet
  <2>4. BooksYet' \subseteq BooksYet
    BY <2>3 DEF BooksYet
  <2>5. WorkersYet' = WorkersYet
    BY <2>1 DEF WorkersYet
  <2>6. CallerYet = 3 /\ CallerYet' = 2
    BY <1>7 DEF CallerYet, IsNumbered
  <2>7. QED
    BY <2>4, <2>5, <2>6, FewerSteps
<1>8. CASE IsOver
  <2>1. /\ workers' = workers /\ channel' \in {channel, <<>>}
        /\ batch'.next = batch.next /\ batch'.waiting \subseteq batch.waiting
        /\ batch'.at # "adding" /\ (batch.at = "adding" => batch'.waiting = {})
    BY <1>8 DEF IsOver
  <2>2. channel' = channel \/ Len(channel') = 0
    BY <2>1
  <2>3. \A c \in 1 .. NumBooks : \A j \in 1 .. 11 : Yet(c, j)' => Yet(c, j)
    <3>1. SUFFICES ASSUME NEW c \in 1 .. NumBooks, NEW j \in 1 .. 11, Yet(c, j)' PROVE Yet(c, j)
      OBVIOUS
    <3>2. CASE next_book' <= c \/ \E w \in Scanners : workers'[w].book = c /\ YetFor(w, j)'
      BY <1>1, <1>4, <2>1, <3>2 DEF Yet
    <3>3. CASE \E i \in 1 .. Len(channel') : channel'[i].book = c /\ j <= 3
      BY <2>2, <3>3 DEF Yet
    <3>4. CASE \E o \in batch'.waiting : o.book = c /\ j <= 2
      BY <2>1, <3>4 DEF Yet
    <3>5. QED
      BY <2>1, <3>1, <3>2, <3>3, <3>4 DEF Yet
  <2>4. BooksYet' \subseteq BooksYet
    BY <2>3 DEF BooksYet
  <2>5. CallerYet' < CallerYet
    BY <1>8 DEF CallerYet, IsOver
  <2>6. CallerYet' <= CallerYet
    BY <1>8 DEF CallerYet, IsOver
  <2>7. QED
    BY <1>4, <2>1, <2>4, <2>5, <2>6, FewerSteps
<1>9. CASE IsReceived
  <2>1. /\ batch.at = "receiving" /\ batch'.at = "receiving" /\ batch'.next = batch.next /\ Adding
        /\ channel # <<>> /\ channel' = Tail(channel) /\ workers' = workers
        /\ batch'.waiting = batch.waiting \cup {Head(channel)}
    BY <1>9 DEF IsReceived, Adding
  <2>2. /\ Len(channel') = Len(channel) - 1 /\ Len(channel) >= 1 /\ Head(channel) = channel[1]
        /\ \A i \in 1 .. Len(channel') : channel'[i] = channel[i + 1]
    <3>1. /\ Len(Tail(channel)) = Len(channel) - 1
          /\ \A k \in 1 .. Len(Tail(channel)) : Tail(channel)[k] = channel[k + 1]
      BY <1>2, <2>1, HeadTailProperties
    <3>2. Len(channel) # 0
      BY <1>2, <2>1, EmptySeq
    <3>3. QED
      BY <1>2, <2>1, <3>1, <3>2
  <2>3. /\ 1 \in 1 .. Len(channel)
        /\ \A i \in 1 .. Len(channel') : i + 1 \in 1 .. Len(channel) /\ i + 1 # 1
    BY <1>2, <2>2
  <2>4. PICK b \in 1 .. NumBooks : b = channel[1].book
    BY <2>3, InChannel DEF LIInv
  <2>5. Places /\ Apart
    BY <2>1 DEF LIInv, BInv
  <2>6. InFlight(b)
    BY <2>3, <2>4, <2>5 DEF Places
  <2>7. Yet(b, 3)
    BY <2>3, <2>4 DEF Yet
  <2>8. ~Yet(b, 3)'
    <3>1. ~(next_book' <= b)
      BY <1>1, <1>6, <2>6
    <3>2. \A w \in Scanners : ~(workers'[w].book = b /\ YetFor(w, 3)')
      BY <1>4, <1>5, <2>1, <2>3, <2>4, <2>6
    <3>3. \A i \in 1 .. Len(channel') : channel'[i].book # b
      BY <2>2, <2>3, <2>4, <2>5 DEF Apart
    <3>4. QED
      BY <2>1, <3>1, <3>2, <3>3 DEF Yet
  <2>9. \A c \in 1 .. NumBooks : \A j \in 1 .. 11 : Yet(c, j)' => Yet(c, j)
    <3>1. SUFFICES ASSUME NEW c \in 1 .. NumBooks, NEW j \in 1 .. 11, Yet(c, j)' PROVE Yet(c, j)
      OBVIOUS
    <3>2. CASE next_book' <= c \/ \E w \in Scanners : workers'[w].book = c /\ YetFor(w, j)'
      BY <1>1, <1>4, <2>1, <3>2 DEF Yet
    <3>3. CASE \E i \in 1 .. Len(channel') : channel'[i].book = c /\ j <= 3
      <4>1. PICK i \in 1 .. Len(channel') : channel'[i].book = c /\ j <= 3
        BY <3>3
      <4>2. i + 1 \in 1 .. Len(channel) /\ channel[i + 1].book = c
        BY <2>2, <2>3, <4>1
      <4>3. QED
        BY <4>1, <4>2 DEF Yet
    <3>4. CASE \E o \in batch'.waiting : o.book = c /\ j <= 2
      <4>1. PICK o \in batch'.waiting : o.book = c /\ j <= 2
        BY <3>4
      <4>2. CASE o \in batch.waiting
        BY <2>1, <4>1, <4>2 DEF Yet
      <4>3. CASE o = Head(channel)
        <5>1. channel[1].book = c /\ j <= 3
          BY <2>2, <4>1, <4>3
        <5>2. QED
          BY <2>3, <5>1 DEF Yet
      <4>4. QED
        BY <2>1, <4>1, <4>2, <4>3
    <3>5. QED
      BY <2>1, <3>1, <3>2, <3>3, <3>4 DEF Yet
  <2>10. BooksYet' \subseteq BooksYet /\ BooksYet' # BooksYet
    BY <2>7, <2>8, <2>9, BooksFewer
  <2>11. CallerYet' = CallerYet
    BY <2>1 DEF CallerYet
  <2>12. QED
    BY <1>3, <1>4, <2>1, <2>10, <2>11, FewerSteps
<1>10. CASE IsBegun
  <2>1. /\ batch.at = "receiving" /\ batch'.at = "adding" /\ batch'.next = batch.next /\ Adding
        /\ batch'.waiting = batch.waiting /\ workers' = workers /\ channel' = channel
    BY <1>10 DEF IsBegun, Adding
  <2>2. PICK o \in batch.waiting : o.book = batch.next
    BY <1>10 DEF IsBegun, Waiting
  <2>3. PICK b \in 1 .. NumBooks : b = batch.next
    BY <1>2, <2>2 DEF Message
  <2>4. Places /\ Apart /\ InFlight(b)
    BY <2>1, <2>2, <2>3 DEF LIInv, BInv, Places
  <2>5. Yet(b, 2)
    BY <2>1, <2>2, <2>3 DEF Yet
  <2>6. ~Yet(b, 2)'
    <3>1. ~(next_book' <= b)
      BY <1>1, <1>6, <2>4
    <3>2. \A w \in Scanners : ~(workers'[w].book = b /\ YetFor(w, 2)')
      BY <1>4, <1>5, <2>1, <2>2, <2>3, <2>4
    <3>3. \A i \in 1 .. Len(channel') : channel'[i].book # b
      BY <2>1, <2>2, <2>3, <2>4 DEF Apart
    <3>4. QED
      BY <2>1, <2>3, <3>1, <3>2, <3>3 DEF Yet
  <2>7. \A c \in 1 .. NumBooks : \A j \in 1 .. 11 : Yet(c, j)' => Yet(c, j)
    <3>1. SUFFICES ASSUME NEW c \in 1 .. NumBooks, NEW j \in 1 .. 11, Yet(c, j)' PROVE Yet(c, j)
      OBVIOUS
    <3>2. CASE next_book' <= c \/ \E w \in Scanners : workers'[w].book = c /\ YetFor(w, j)'
      BY <1>1, <1>4, <2>1, <3>2 DEF Yet
    <3>3. CASE \E i \in 1 .. Len(channel') : channel'[i].book = c /\ j <= 3
      BY <2>1, <3>3 DEF Yet
    <3>4. CASE \E p \in batch'.waiting : p.book = c /\ j <= 2
      BY <2>1, <3>4 DEF Yet
    <3>5. QED
      BY <2>1, <3>1, <3>2, <3>3, <3>4 DEF Yet
  <2>8. BooksYet' \subseteq BooksYet /\ BooksYet' # BooksYet
    BY <2>5, <2>6, <2>7, BooksFewer
  <2>9. CallerYet' = CallerYet
    BY <2>1 DEF CallerYet
  <2>10. QED
    BY <1>3, <1>4, <2>1, <2>8, <2>9, FewerSteps
<1>11. ASSUME NEW o \in Waiting, IsSettled(o) PROVE StepsYet' < StepsYet
  <2>1. /\ Adding /\ batch'.at = "receiving" /\ o \in batch.waiting /\ o.book = batch.next
        /\ batch'.waiting = batch.waiting \ {o} /\ workers' = workers /\ channel' = channel
    BY <1>11 DEF IsSettled, Waiting
  <2>2. PICK b \in 1 .. NumBooks : b = o.book
    BY <1>2, <2>1 DEF Message
  <2>3. Places /\ Apart /\ InFlight(b)
    BY <2>1, <2>2 DEF LIInv, BInv, Places
  <2>4. \A p \in batch'.waiting : p.book # b /\ p \in batch.waiting
    BY <2>1, <2>2, <2>3 DEF Apart
  <2>5. Yet(b, 1)
    BY <2>1, <2>2 DEF Yet
  <2>6. ~Yet(b, 1)'
    <3>1. ~(next_book' <= b)
      BY <1>1, <1>6, <2>3
    <3>2. \A w \in Scanners : ~(workers'[w].book = b /\ YetFor(w, 1)')
      BY <1>4, <1>5, <2>1, <2>2, <2>3
    <3>3. \A i \in 1 .. Len(channel') : channel'[i].book # b
      BY <2>1, <2>2, <2>3 DEF Apart
    <3>4. QED
      BY <2>4, <3>1, <3>2, <3>3 DEF Yet
  <2>7. \A c \in 1 .. NumBooks : \A j \in 1 .. 11 : Yet(c, j)' => Yet(c, j)
    <3>1. SUFFICES ASSUME NEW c \in 1 .. NumBooks, NEW j \in 1 .. 11, Yet(c, j)' PROVE Yet(c, j)
      OBVIOUS
    <3>2. CASE next_book' <= c \/ \E w \in Scanners : workers'[w].book = c /\ YetFor(w, j)'
      BY <1>1, <1>4, <2>1, <3>2 DEF Yet
    <3>3. CASE \E i \in 1 .. Len(channel') : channel'[i].book = c /\ j <= 3
      BY <2>1, <3>3 DEF Yet
    <3>4. CASE \E p \in batch'.waiting : p.book = c /\ j <= 2
      BY <2>1, <2>2, <2>4, <3>4 DEF Yet
    <3>5. QED
      BY <2>1, <3>1, <3>2, <3>3, <3>4 DEF Yet
  <2>8. BooksYet' \subseteq BooksYet /\ BooksYet' # BooksYet
    BY <2>5, <2>6, <2>7, BooksFewer
  <2>9. CallerYet' = CallerYet
    BY <2>1 DEF CallerYet, Adding
  <2>10. QED
    BY <1>3, <1>4, <2>1, <2>8, <2>9, FewerSteps
<1>12. QED
  BY <1>7, <1>8, <1>9, <1>10, <1>11, CallerSteps

\* What the application does changes nothing that is yet to be done.
LEMMA OthersNearer == ASSUME LIInv, Around \/ cancel \/ UNCHANGED all_vars PROVE StepsYet' = StepsYet
<1>1. /\ UNCHANGED <<workers, next_book, budget, channel, scans, scans_left>>
      /\ batch'.at = batch.at /\ batch'.next = batch.next /\ batch'.waiting = batch.waiting
  BY OthersStep
<1>2. \A w \in Scanners : \A k \in 1 .. 11 : YetFor(w, k)' <=> YetFor(w, k)
  BY <1>1 DEF YetFor
<1>3. \A b \in 1 .. NumBooks : \A k \in 1 .. 11 : Yet(b, k)' <=> Yet(b, k)
  BY <1>1, <1>2 DEF Yet
<1>4. BooksYet' = BooksYet
  BY <1>3 DEF BooksYet
<1>5. WorkersYet' = WorkersYet /\ CallerYet' = CallerYet
  BY <1>1 DEF WorkersYet, CallerYet
<1>6. QED
  BY <1>4, <1>5 DEF StepsYet

\* At first every stage of every book is yet to come.
LEMMA InitSteps ==
  ASSUME BatchInit
  PROVE  StepsYet = NumBooks * 11 + Cardinality(Scanners) + 3
<1>1. /\ next_book = 1 /\ batch.at = "numbering" /\ \A w \in Scanners : workers[w].at = "none"
      /\ NumBooks \in Nat
  BY BatchAssumption DEF BatchInit, NoWorker
<1>2. BooksYet = (1 .. NumBooks) \X (1 .. 11)
  BY <1>1 DEF BooksYet, Yet
<1>3. IsFiniteSet(1 .. NumBooks) /\ Cardinality(1 .. NumBooks) = NumBooks
  <2>1. 1 \in Int /\ NumBooks \in Int /\ NumBooks >= 0
    BY <1>1
  <2>2. QED
    BY <2>1, FS_Interval
<1>4. IsFiniteSet(1 .. 11) /\ Cardinality(1 .. 11) = 11
  <2>1. 1 \in Int /\ 11 \in Int
    OBVIOUS
  <2>2. /\ IsFiniteSet(1 .. 11)
        /\ Cardinality(1 .. 11) = IF 1 > 11 THEN 0 ELSE 11 - 1 + 1
    BY <2>1, FS_Interval
  <2>3. QED
    BY <2>2
<1>5. Cardinality(BooksYet) = NumBooks * 11
  <2>1. PICK S, T : S = 1 .. NumBooks /\ T = 1 .. 11
    OBVIOUS
  <2>2. Cardinality(S \X T) = Cardinality(S) * Cardinality(T)
    BY <1>3, <1>4, <2>1, FS_Product
  <2>3. Cardinality(S) = NumBooks /\ Cardinality(T) = 11 /\ BooksYet = S \X T
    BY <1>2, <1>3, <1>4, <2>1
  <2>4. QED
    BY <2>2, <2>3
<1>6. WorkersYet = Scanners /\ CallerYet = 3
  BY <1>1 DEF WorkersYet, CallerYet
<1>7. QED
  BY <1>1, <1>5, <1>6 DEF StepsYet

\* Every step of the batch's own threads leaves less to do, by one at least,
\* and whatever the application does leaves as much: no thread undoes what
\* another did, or does it again, so a batch is over after as many steps of
\* its threads as there are at first, 11 for a book, one for a worker and 3.
THEOREM StepsFewer ==
  BatchSpec => [][/\ StepsYet \in Nat
                  /\ ThreadStep => StepsYet' < StepsYet
                  /\ ~ThreadStep => StepsYet' = StepsYet]_all_vars
<1>1. ASSUME LIInv, GInv, [BatchNext]_all_vars
      PROVE  /\ StepsYet \in Nat
             /\ ThreadStep => StepsYet' < StepsYet
             /\ ~ThreadStep => StepsYet' = StepsYet
  <2>1. LIInv' /\ StepsYet \in Nat
    BY <1>1, NextLIInv, YetFinite
  <2>2. ThreadStep => StepsYet' < StepsYet
    BY <1>1, <2>1, WorkerNearer, CallerNearer DEF ThreadStep
  <2>3. ~ThreadStep => StepsYet' = StepsYet
    BY <1>1, OthersNearer DEF BatchNext, ThreadStep
  <2>4. QED
    BY <2>1, <2>2, <2>3
<1>2. LIInv /\ GInv /\ [BatchNext]_all_vars =>
        [/\ StepsYet \in Nat
         /\ ThreadStep => StepsYet' < StepsYet
         /\ ~ThreadStep => StepsYet' = StepsYet]_all_vars
  BY <1>1
<1>3. QED
  BY <1>2, BatchInvariant, GoingInvariant, PTL DEF BatchSpec
=============================================================================
