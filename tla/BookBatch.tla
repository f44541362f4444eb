----------------------------- MODULE BookBatch -----------------------------
(* What add_library_books promises: the books of a batch are added in input *)
(* order, each whole or not at all, with one result per book, and a         *)
(* cancelled batch begins no other book (api/search_engine.rs).             *)
EXTENDS Naturals, Sequences

CONSTANT NumBooks

VARIABLES
  progress,   \* running, returned or failed
  next,       \* the first book without a result
  results,    \* what became of each book
  added,      \* the books in the writer, in the order they were added
  adding,     \* the next book is being added
  cancelled

Statuses == {"Indexed", "Missing", "Unavailable", "Failed", "Cancelled"}

BInit ==
  /\ progress = "running" /\ next = 1
  /\ results = [i \in 1 .. NumBooks |-> "none"]
  /\ added = <<>> /\ adding = FALSE /\ cancelled = FALSE

Cancels == cancelled' = TRUE /\ UNCHANGED <<progress, next, results, added, adding>>

Results(status) ==
  /\ progress = "running" /\ next <= NumBooks
  /\ results' = [results EXCEPT ![next] = status]
  /\ next' = next + 1 /\ adding' = FALSE
  /\ UNCHANGED <<progress, cancelled>>

Begins ==
  /\ progress = "running" /\ next <= NumBooks /\ ~adding /\ ~cancelled
  /\ adding' = TRUE
  /\ UNCHANGED <<progress, next, results, added, cancelled>>

Adds == adding /\ Results("Indexed") /\ added' = Append(added, next)

Skips ==
  /\ ~adding
  /\ \/ \E status \in {"Missing", "Unavailable", "Failed"} : Results(status)
     \/ cancelled /\ Results("Cancelled")
  /\ UNCHANGED added

\* A batch that was not cancelled has a result for every book.
Returns ==
  /\ progress = "running" /\ ~adding /\ (next > NumBooks \/ cancelled)
  /\ progress' = "returned"
  /\ results' = [i \in 1 .. NumBooks |-> IF i < next THEN results[i] ELSE "Cancelled"]
  /\ UNCHANGED <<next, added, adding, cancelled>>

Fails ==
  /\ progress = "running" /\ progress' = "failed" /\ adding' = FALSE
  /\ UNCHANGED <<next, results, added, cancelled>>

BNext == Cancels \/ Begins \/ Adds \/ Skips \/ Returns \/ Fails

bvars == <<progress, next, results, added, adding, cancelled>>

BSpec == BInit /\ [][BNext]_bvars
=============================================================================
