-------------------------- MODULE LibraryIndexing --------------------------
(* add_library_books (library_indexing.rs): workers read and prepare the    *)
(* books of a batch, each through a scan session of the line source, and    *)
(* the calling thread adds them to the writer in input order, while the     *)
(* application cancels the batch or suspends the source (LineSource).       *)
EXTENDS LineSource, Sequences

CONSTANTS
  NumBooks,   \* the books of the batch are 1 .. NumBooks
  Empty       \* those whose rows hold no text

\* The policy has one worker at least (indexing_buffers.rs).
ASSUME BatchAssumption ==
  NumBooks \in Nat /\ Empty \subseteq 1 .. NumBooks /\ Scanners # {}

VARIABLES
  batch,      \* the calling thread
  workers,    \* the threads that prepare: the Scanners
  next_book,  \* the next book to take
  budget,     \* the reservations in flight, and the book admitted next
  channel     \* from the workers to the calling thread

batch_vars == <<batch, workers, next_book, budget, channel>>
all_vars == <<vars, batch_vars>>

\* policy.book_workers: the budget's limit in reservations, and the channel's bound.
book_workers == Cardinality(Scanners)

NoWorker == [at |-> "none", book |-> 0, outcome |-> "none"]

BatchInit ==
  /\ Init
  /\ batch = [at |-> "numbering", next |-> 1, waiting |-> {}, added |-> <<>>,
              results |-> [i \in 1 .. NumBooks |-> "none"],
              cancelled |-> FALSE, abort |-> FALSE]
  /\ workers = [w \in Scanners |-> NoWorker]
  /\ next_book = 1
  /\ budget = [in_flight |-> 0, next |-> 1]
  /\ channel = <<>>

stop == batch.cancelled \/ batch.abort

----------------------------------------------------------------------------
(* The workers.                                                            *)

Goes(w, from, to) ==
  /\ workers[w].at = from
  /\ workers' = [workers EXCEPT ![w].at = to]

\* The outcome of the book goes to the calling thread next.
Outcome(w, outcome) == workers' = [workers EXCEPT ![w].at = "sending", ![w].outcome = outcome]

\* A worker takes the next book, or is done.
Take(w) ==
  /\ workers[w].at = "taking"
  /\ workers' = [workers EXCEPT ![w] =
       IF next_book <= NumBooks THEN [NoWorker EXCEPT !.at = "admitting", !.book = next_book]
                                ELSE [NoWorker EXCEPT !.at = "exited"]]
  /\ next_book' = next_book + 1
  /\ UNCHANGED <<vars, batch, budget, channel>>

\* Mutant of Admit: books are admitted in the order they ask.
AdmitAny(w) ==
  /\ Goes(w, "admitting", "opening") /\ ~stop
  /\ budget.in_flight < book_workers
  /\ budget' = [in_flight |-> budget.in_flight + 1, next |-> budget.next + 1]
  /\ UNCHANGED <<vars, batch, next_book, channel>>

\* Budget::admit reserves in input order ...
Admit(w) ==
  /\ Goes(w, "admitting", "opening") /\ ~stop
  /\ workers[w].book = budget.next /\ budget.in_flight < book_workers
  /\ budget' = [in_flight |-> budget.in_flight + 1, next |-> budget.next + 1]
  /\ UNCHANGED <<vars, batch, next_book, channel>>

\* ... or not at all once the batch stops.
NotAdmitted(w) ==
  /\ Goes(w, "admitting", "exited") /\ stop
  /\ UNCHANGED <<vars, batch, next_book, budget, channel>>

Open(w) ==
  /\ Goes(w, "opening", "reading") /\ begin_scan(w)
  /\ UNCHANGED <<batch, next_book, budget, channel>>

OpenFails(w) ==
  /\ workers[w].at = "opening" /\ (Suspended(Locked) \/ Locked.path = NoPath)
  /\ Outcome(w, "Unavailable")
  /\ source' = Locked
  /\ UNCHANGED <<ports, isolates, scans, files, calls_left, scans_left>>
  /\ UNCHANGED <<batch, next_book, budget, channel>>

ReadBegins(w) ==
  /\ workers[w].at = "reading" /\ Read(w)
  /\ UNCHANGED batch_vars

\* The session was invalidated before it read.
ReadRefused(w) ==
  /\ scans[w].at = "open" /\ (w \notin Locked.scan_validity \/ Suspended(Locked))
  /\ source' = Locked
  /\ UNCHANGED <<ports, isolates, scans, files, calls_left, scans_left>>

ReadEnds(w) ==
  /\ Goes(w, "reading", "dropping")
  /\ ReadDone(w) \/ ReadFails(w) \/ ReadRefused(w)
  /\ UNCHANGED <<batch, next_book, budget, channel>>

Dropped(w) ==
  /\ Goes(w, "dropping", "preparing") /\ Drop(w)
  /\ UNCHANGED <<batch, next_book, budget, channel>>

\* The rest of prepare_checked, from its last look at stop.
Prepare(w) ==
  /\ workers[w].at = "preparing"
  /\ Outcome(w, CASE stop -> "Cancelled"
                  [] ~stop /\ scans[w].text = NoText -> "Unavailable"
                  [] ~stop /\ scans[w].text # NoText ->
                       IF workers[w].book \in Empty THEN "Missing" ELSE "Prepared")
  /\ UNCHANGED <<vars, batch, next_book, budget, channel>>

\* The input is refused, or reading or preparing the book fails or panics.
PrepareFails(w) ==
  /\ workers[w].at \in {"opening", "preparing"}
  /\ Outcome(w, "Failed")
  /\ Happens /\ UNCHANGED <<source, batch, next_book, budget, channel>>

\* Mutant of Send: the reservation ends when the outcome is sent.
SendReleases(w) ==
  /\ Goes(w, "sending", "taking")
  /\ batch.at # "joining" /\ Len(channel) < book_workers
  /\ channel' = Append(channel, [book |-> workers[w].book, outcome |-> workers[w].outcome,
                                 text |-> scans[w].text])
  /\ budget' = [budget EXCEPT !.in_flight = @ - 1]
  /\ UNCHANGED <<vars, batch, next_book>>

Send(w) ==
  /\ Goes(w, "sending", "taking")
  /\ batch.at # "joining" /\ Len(channel) < book_workers
  /\ channel' = Append(channel, [book |-> workers[w].book, outcome |-> workers[w].outcome,
                                 text |-> scans[w].text])
  /\ UNCHANGED <<vars, batch, next_book, budget>>

\* The receiver is gone.
SendFails(w) ==
  /\ Goes(w, "sending", "exited") /\ batch.at = "joining"
  /\ UNCHANGED <<vars, batch, next_book, budget, channel>>

Worker(w) ==
  \/ Take(w) \/ Admit(w) \/ NotAdmitted(w) \/ Open(w) \/ OpenFails(w)
  \/ ReadBegins(w) \/ ReadEnds(w) \/ Dropped(w) \/ Prepare(w) \/ Send(w) \/ SendFails(w)

----------------------------------------------------------------------------
(* The calling thread.                                                     *)

Number ==
  /\ batch.at = "numbering"
  /\ batch' = [batch EXCEPT !.at = "receiving"]
  /\ workers' = [w \in Scanners |-> [NoWorker EXCEPT !.at = "taking"]]
  /\ UNCHANGED <<vars, next_book, budget, channel>>

NumberFails ==
  /\ batch.at = "numbering"
  /\ batch' = [batch EXCEPT !.at = "failed"]
  /\ Happens /\ UNCHANGED <<source, workers, next_book, budget, channel>>

\* What waits to be added next, if it came.
Waiting == {o \in batch.waiting : o.book = batch.next}

Receive ==
  /\ batch.at = "receiving" /\ Waiting = {} /\ channel # <<>>
  /\ batch' = [batch EXCEPT !.waiting = @ \cup {Head(channel)}]
  /\ channel' = Tail(channel)
  /\ UNCHANGED <<vars, workers, next_book, budget>>

\* The book has its result, and its reservation ends.
Settle(o, status) ==
  /\ batch' = [batch EXCEPT !.at = "receiving", !.next = o.book + 1, !.waiting = @ \ {o},
                            !.results[o.book] = status,
                            !.added = IF status = "Indexed" THEN Append(@, o.book) ELSE @]
  /\ budget' = [budget EXCEPT !.in_flight = @ - 1]
  /\ UNCHANGED <<workers, next_book, channel>>

\* Mutant of Changed: only a suspension counts.
ChangedNow(o) == Suspended(Locked)

\* The source is suspended, or not what the book was read from.
Changed(o) == Locked.generation # o.text.generation \/ Suspended(Locked)

\* Mutant of Prepared: a prepared book is added, cancelled or not.
PreparedAnyway(o) ==
  IF Changed(o)
  THEN Settle(o, "Unavailable")
  ELSE /\ batch' = [batch EXCEPT !.at = "adding"]
       /\ UNCHANGED <<workers, next_book, budget, channel>>

\* A prepared book is added unless the batch is cancelled or the source changed.
Prepared(o) ==
  CASE batch.cancelled -> Settle(o, "Cancelled")
    [] ~batch.cancelled /\ Changed(o) -> Settle(o, "Unavailable")
    [] ~batch.cancelled /\ ~Changed(o) ->
         /\ batch' = [batch EXCEPT !.at = "adding"]
         /\ UNCHANGED <<workers, next_book, budget, channel>>

\* enqueue_in_order decides on the next book ...
Decide ==
  \E o \in Waiting :
    /\ batch.at = "receiving"
    /\ \/ o.outcome = "Prepared" /\ Prepared(o) /\ source' = Locked
       \/ o.outcome # "Prepared" /\ Settle(o, o.outcome) /\ UNCHANGED source
    /\ UNCHANGED <<ports, isolates, scans, files, calls_left, scans_left>>

\* ... and adds it.
Add == \E o \in Waiting : batch.at = "adding" /\ Settle(o, "Indexed") /\ UNCHANGED vars

\* The writer fails: the senders are let go before the scope joins them.
AddFails ==
  /\ batch.at = "adding"
  /\ batch' = [batch EXCEPT !.at = "joining", !.abort = TRUE, !.waiting = {}]
  /\ channel' = <<>>
  /\ Happens /\ UNCHANGED <<source, workers, next_book, budget>>

AllExited == \A w \in Scanners : workers[w].at = "exited"

\* Every sender is gone; a book without a result was cancelled.
Return ==
  /\ batch.at = "receiving" /\ Waiting = {} /\ channel = <<>> /\ AllExited
  /\ batch' = [batch EXCEPT !.at = "returned", !.results =
       [i \in 1 .. NumBooks |-> IF @[i] = "none" THEN "Cancelled" ELSE @[i]]]
  /\ UNCHANGED <<vars, workers, next_book, budget, channel>>

Join ==
  /\ batch.at = "joining" /\ AllExited
  /\ batch' = [batch EXCEPT !.at = "failed"]
  /\ UNCHANGED <<vars, workers, next_book, budget, channel>>

Caller == Number \/ Receive \/ Decide \/ Add \/ Return \/ Join

Ended == batch.at \in {"returned", "failed"}

\* IndexingCancellationToken::cancel
cancel ==
  /\ ~batch.cancelled /\ ~Ended
  /\ batch' = [batch EXCEPT !.cancelled = TRUE]
  /\ UNCHANGED <<vars, workers, next_book, budget, channel>>

----------------------------------------------------------------------------
\* What LineSource's callers do while the batch runs.
Around ==
  /\ ~Ended
  /\ \/ \E c \in Isolates : App(c) \/ Waited(c)
     \/ with_store \/ WindowFails \/ ProbeFails
  /\ UNCHANGED batch_vars

BatchNext ==
  \/ Around \/ cancel
  \/ Caller \/ NumberFails \/ AddFails
  \/ \E w \in Scanners : Worker(w) \/ PrepareFails(w)

BatchSpec == BatchInit /\ [][BatchNext]_all_vars

----------------------------------------------------------------------------
(* Properties.                                                             *)

\* The state has its types; never more reservations than the budget (Budget).
BatchTypeOK ==
  /\ batch.at \in {"numbering", "receiving", "adding", "joining", "returned", "failed"}
  /\ batch.next \in 1 .. NumBooks + 1
  /\ workers \in [Scanners -> [at : {"none", "taking", "admitting", "opening", "reading", "dropping",
                                    "preparing", "sending", "exited"},
                               book : 0 .. NumBooks,
                               outcome : {"none", "Prepared", "Missing", "Unavailable", "Failed", "Cancelled"}]]
  /\ budget \in [in_flight : 0 .. book_workers, next : 1 .. NumBooks + 1]

\* A worker never waits for room in the channel (sync_channel's bound): every
\* message in it holds a reservation, and so does the sender.
SendNeverBlocks ==
  \A w \in Scanners : workers[w].at = "sending" => Len(channel) < book_workers

\* The text of a book that add_library_books begins to add is what the file
\* of the source says then, however often that was replaced since it was read.
TextAddedIsCurrent ==
  [][batch.at # "adding" /\ batch'.at = "adding" =>
       \A o \in Waiting : o.text.path = source.path /\ o.text.version = files[source.path]]_all_vars

\* What the calling thread waits for: a message, or that the senders are gone.
CallerCan ==
  \/ batch.at = "numbering"
  \/ batch.at = "receiving" /\ (Waiting # {} \/ channel # <<>> \/ AllExited)
  \/ batch.at = "adding" /\ Waiting # {}
  \/ batch.at = "joining" /\ AllExited

\* What a worker waits for: to be admitted, or for room in the channel.
WorkerCan(w) ==
  \/ workers[w].at \in {"taking", "preparing"}
  \/ /\ workers[w].at = "admitting"
     /\ stop \/ (workers[w].book = budget.next /\ budget.in_flight < book_workers)
  \/ /\ workers[w].at = "opening"
     /\ \/ Suspended(Locked) \/ Locked.path = NoPath
        \/ scans[w].at = "none" /\ scans_left > 0
  \/ workers[w].at = "reading" /\ scans[w].at # "none"
  \/ workers[w].at = "dropping" /\ scans[w].at = "open"
  \/ workers[w].at = "sending" /\ (batch.at = "joining" \/ Len(channel) < book_workers)

\* Until the batch ends, one of its threads can go on, whatever the
\* application does, so the batch ends: none of their steps is ever undone
\* (Budget::admit: "later books cannot starve the next one"; "Release bounded
\* senders before the scope joins them").
NeverStuck == Ended \/ CallerCan \/ \E w \in Scanners : WorkerCan(w)

Batch == INSTANCE BookBatch WITH
  progress <- CASE Ended -> batch.at
                [] batch.at = "joining" -> "failed"
                [] OTHER -> "running",
  next <- batch.next, results <- batch.results, added <- batch.added,
  adding <- batch.at = "adding", cancelled <- batch.cancelled

\* The batch keeps what add_library_books promises.
BatchImplements == Batch!BSpec
=============================================================================
