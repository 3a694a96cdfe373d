------------------------------- MODULE Chunks -------------------------------
(***************************************************************************)
(* The chunked execution of a heavy report (stock balance, customer        *)
(* movement): the units of the store (items or customers) are listed once, *)
(* cut into chunks, and each chunk is queried for the current and for the  *)
(* comparison period while the store's books go on changing.  The results  *)
(* of the chunks are merged into what one query would have returned.       *)
(*                                                                         *)
(* The figures of a unit are its amount and its turnover; a stock report   *)
(* is ranked by both, a customer report by the amount only.  Codes are     *)
(* numbers; the database and the worker are taken to order them alike.     *)
(* One run, one worker at a time: ReportRuns is about the others.  The     *)
(* period supports a comparison.                                           *)
(***************************************************************************)
EXTENDS Integers, SequencesExt, FiniteSetsExt

CONSTANTS
    Unit,         \* unit keys
    Figures,      \* [amount : Int, turnover : Nat]: what a unit's books may say
    None,
    Rankings,     \* {"amount", "turnover"} for stock, {"amount"} for customers
    Projections,  \* subset of {"SUMMARY", "DETAIL"}
    ChunkSize,    \* 500 or 300 in the code
    TopN,         \* 10
    MaxAttempts,  \* maximumReportAttempts
    MaxChanges    \* bound on the changes of the books

ASSUME ChunkConstants ==
    /\ Unit \subseteq Nat /\ IsFiniteSet(Unit)
    /\ \A f \in Figures : f.amount \in Int /\ f.turnover \in Nat
    /\ None \notin Figures
    /\ Rankings # {} /\ Rankings \subseteq {"amount", "turnover"}
    /\ Projections \subseteq {"SUMMARY", "DETAIL"}
    /\ {ChunkSize, TopN, MaxAttempts} \subseteq Nat \ {0}
    /\ MaxChanges \in Nat

VARIABLES
    books,       \* the store's data for the current period; None: no such unit
    changes,     \* changes of the books so far
    projection,  \* result_kind of the run
    status,      \* of the run
    attempt,
    lease,       \* the worker still holds the run
    rows,        \* report_run_chunks
    progress,    \* progress_completed_chunks and progress_total_chunks
    step,        \* where the worker is
    manifest,    \* its memory: the chunks, each a sequence of units, ...
    current,     \* ... the results of the chunks behind it, ...
    compared,    \* ... the units its comparison rows are about, ...
    warning,     \* ... and whether a comparison failed
    seen,        \* history: the figures read for each unit in this attempt
    result       \* what was stored

tables == <<status, attempt, lease, rows, progress, result>>
memory == <<step, manifest, current, compared, warning, seen>>
vars   == <<books, changes, projection, tables, memory>>

Present == {u \in Unit : books[u] # None}

-----------------------------------------------------------------------------
(* Ranking, cutting and merging                                            *)

Rank(ranking, f) ==
    IF ranking = "turnover" THEN f.turnover
    ELSE IF f.amount < 0 THEN - f.amount ELSE f.amount

\* compareRank: the larger first, equal ones by code.
Before(ranking, p, q) ==
    \/ Rank(ranking, p.figures) > Rank(ranking, q.figures)
    \/ Rank(ranking, p.figures) = Rank(ranking, q.figures) /\ p.unit < q.unit

\* The rows that are among the first TopN of some ranking.
Selected(pairs) ==
    {p \in pairs : \E ranking \in Rankings :
        Cardinality({q \in pairs : Before(ranking, q, p)}) < TopN}

SumOf(pairs) == MapThenSumSet(LAMBDA p : p.figures.amount, pairs)

\* One query over a set of units, whatever the boundary.
Query(units) ==
    LET pairs == {[unit |-> u, figures |-> books[u]] : u \in units \cap Present}
    IN  [count |-> Cardinality(pairs), total |-> SumOf(pairs),
         rows  |-> IF projection = "SUMMARY" THEN Selected(pairs) ELSE pairs]

\* MergeChunkedSteps.
Merge(chunks) ==
    LET all == UNION {chunks[i].rows : i \in DOMAIN chunks}
    IN  [count |-> MapThenSumSet(LAMBDA i : chunks[i].count, DOMAIN chunks),
         total |-> MapThenSumSet(LAMBDA i : chunks[i].total, DOMAIN chunks),
         rows  |-> IF projection = "SUMMARY" THEN Selected(all) ELSE all]

\* Mutation of Cut: a chunk ends on the unit the next one starts with.
CutOverlapping(keys) ==
    [i \in 1 .. ((Len(keys) + ChunkSize - 1) \div ChunkSize) |->
        SubSeq(keys, (i - 1) * ChunkSize + 1,
               IF i * ChunkSize + 1 > Len(keys) THEN Len(keys) ELSE i * ChunkSize + 1)]

\* The chunks of the sorted unit keys.
Cut(keys) ==
    [i \in 1 .. ((Len(keys) + ChunkSize - 1) \div ChunkSize) |->
        SubSeq(keys, (i - 1) * ChunkSize + 1,
               IF i * ChunkSize > Len(keys) THEN Len(keys) ELSE i * ChunkSize)]

UnitsOf(chunks) == UNION {ToSet(chunks[i]) : i \in DOMAIN chunks}

-----------------------------------------------------------------------------
NoProgress == [completed |-> 0, total |-> 0]

TypeOK ==
    /\ books \in [Unit -> Figures \cup {None}] /\ changes \in Nat
    /\ projection \in Projections
    /\ status \in {"QUEUED", "RUNNING", "SUCCEEDED", "FAILED"}
    /\ attempt \in 0 .. MaxAttempts /\ lease \in BOOLEAN
    /\ \A i \in DOMAIN rows :
          /\ rows[i].units # <<>> /\ Len(rows[i].units) <= ChunkSize
          /\ rows[i].status \in {"QUEUED", "RUNNING", "SUCCEEDED", "FAILED"}
    /\ progress \in [completed : Nat, total : Nat]
    /\ step \in {"IDLE", "MANIFEST", "PREPARE", "START", "CURRENT", "COMPARISON", "STORE",
                 "CURRENT_FAILED", "COMPARISON_FAILED"}
    /\ Len(current) <= Len(manifest)
    /\ compared \subseteq Unit /\ warning \in BOOLEAN
    /\ DOMAIN seen \subseteq Unit

Init ==
    /\ books \in [Unit -> Figures \cup {None}] /\ changes = 0
    /\ projection \in Projections
    /\ status = "QUEUED" /\ attempt = 0 /\ lease = FALSE
    /\ rows = <<>> /\ progress = NoProgress
    /\ step = "IDLE" /\ manifest = <<>> /\ current = <<>>
    /\ compared = {} /\ warning = FALSE /\ seen = <<>> /\ result = None

-----------------------------------------------------------------------------
(* The worker                                                              *)

\* Claim and MarkRunning of a queued run.
Begin ==
    /\ status = "QUEUED" /\ attempt < MaxAttempts
    /\ status' = "RUNNING" /\ attempt' = attempt + 1 /\ lease' = TRUE
    /\ step' = "MANIFEST" /\ manifest' = <<>> /\ current' = <<>>
    /\ compared' = {} /\ warning' = FALSE /\ seen' = <<>>
    /\ UNCHANGED <<books, changes, projection, rows, progress, result>>

\* The unit keys, sorted and cut.
QueryManifest ==
    /\ step = "MANIFEST"
    /\ \E keys \in [1 .. Cardinality(Present) -> Present] :
          /\ \A i, j \in DOMAIN keys : i < j => keys[i] < keys[j]
          /\ manifest' = Cut(keys)
    /\ step' = "PREPARE"
    /\ UNCHANGED <<books, changes, projection, tables, current, compared, warning, seen>>

\* Mutation of ResetProgress: an earlier attempt's count is left in place.
KeepProgress == progress' = [progress EXCEPT !.total = Len(manifest)]

ResetProgress == progress' = [completed |-> 0, total |-> Len(manifest)]

\* PrepareChunks: the rows of an earlier attempt go, with its boundaries.
PrepareChunks ==
    /\ step = "PREPARE" /\ lease
    /\ ResetProgress
    /\ rows' = [i \in DOMAIN manifest |-> [units |-> manifest[i], status |-> "QUEUED"]]
    /\ step' = "START"
    /\ UNCHANGED <<books, changes, projection, status, attempt, lease, result,
                   manifest, current, compared, warning, seen>>

At == Len(current) + 1   \* the chunk the worker is at

StartChunk ==
    /\ step = "START" /\ lease /\ At <= Len(manifest)
    /\ rows[At].status = "QUEUED"
    /\ rows' = [rows EXCEPT ![At].status = "RUNNING"]
    /\ step' = "CURRENT"
    /\ UNCHANGED <<books, changes, projection, status, attempt, lease, progress, result,
                   manifest, current, compared, warning, seen>>

QueryCurrent ==
    /\ step = "CURRENT"
    /\ LET units == ToSet(manifest[At]) IN
          /\ current' = Append(current, Query(units))
          /\ seen' = [u \in DOMAIN seen \cup (units \cap Present) |->
                        IF u \in units \cap Present THEN books[u] ELSE seen[u]]
    /\ step' = "COMPARISON"
    /\ UNCHANGED <<books, changes, projection, tables, manifest, compared, warning>>

\* Mutation of Warn: the warning is about the chunk at hand.
WarnAnew(failed) == warning' = failed

Warn(failed) == warning' = (warning \/ failed)

\* The comparison is optional: a definite failure leaves its rows empty.
QueryComparison ==
    /\ step = "COMPARISON"
    /\ \/ Warn(FALSE) /\ compared' = compared \cup ToSet(manifest[Len(current)])
       \/ Warn(TRUE)  /\ UNCHANGED compared
    /\ step' = "STORE"
    /\ UNCHANGED <<books, changes, projection, tables, manifest, current, seen>>

\* CompleteChunk: the row and the run's counter in one transaction.
CompleteChunk ==
    /\ step = "STORE" /\ lease
    /\ rows[Len(current)].status = "RUNNING"
    /\ rows' = [rows EXCEPT ![Len(current)].status = "SUCCEEDED"]
    /\ progress' = [progress EXCEPT !.completed = @ + 1]
    /\ step' = "START"
    /\ UNCHANGED <<books, changes, projection, status, attempt, lease, result,
                   manifest, current, compared, warning, seen>>

\* A summary's comparison cannot be merged if a chunk of it is empty: such a
\* chunk has no totals.  Rows can, which leaves it to the warning.
Comparison ==
    IF warning \/ (projection = "SUMMARY" /\ compared # UnitsOf(manifest))
    THEN None ELSE compared

\* The merge after the last chunk, and Complete, which deletes the rows.
Complete ==
    /\ step = "START" /\ At > Len(manifest) /\ lease
    /\ result' = [merged |-> Merge(current), comparison |-> Comparison]
    /\ status' = "SUCCEEDED" /\ lease' = FALSE /\ rows' = <<>>
    /\ step' = "IDLE"
    /\ UNCHANGED <<books, changes, projection, attempt, progress,
                   manifest, current, compared, warning, seen>>

\* FailChunk, after a query that is not optional has failed: a transaction of
\* its own, before the run's.
FailChunk ==
    LET i == IF step = "CURRENT" THEN At ELSE Len(current)
    IN  /\ step \in {"CURRENT", "COMPARISON"} /\ lease
        /\ rows[i].status = "RUNNING"
        /\ rows' = [rows EXCEPT ![i].status = "FAILED"]
        /\ step' = IF step = "CURRENT" THEN "CURRENT_FAILED" ELSE "COMPARISON_FAILED"
        /\ UNCHANGED <<books, changes, projection, status, attempt, lease, progress, result,
                       manifest, current, compared, warning, seen>>

\* The last write of a run that failed while its lease is held, also when the
\* chunk's row could not be written.  A definite and retryable failure of the
\* manifest's or a chunk's own query, or of the last progress write, queues the
\* run again.
Failure ==
    /\ step # "IDLE" /\ lease
    /\ \/ status' = "FAILED"
       \/ /\ status' = "QUEUED" /\ attempt < MaxAttempts
          /\ \/ step \in {"MANIFEST", "CURRENT", "CURRENT_FAILED"}
             \/ step = "START" /\ At > Len(manifest)
    /\ lease' = FALSE /\ step' = "IDLE"
    /\ UNCHANGED <<books, changes, projection, attempt, rows, progress, result,
                   manifest, current, compared, warning, seen>>

\* The lease lapses: RecoverExpiredLeases fails the run, which has queried.
Lapse ==
    /\ lease /\ lease' = FALSE
    /\ status' = "FAILED"
    /\ UNCHANGED <<books, changes, projection, attempt, rows, progress, result, memory>>

\* A sale, a receipt, a new or a removed unit.
ChangeBooks ==
    /\ changes < MaxChanges /\ changes' = changes + 1
    /\ \E u \in Unit, f \in Figures \cup {None} :
          f # books[u] /\ books' = [books EXCEPT ![u] = f]
    /\ UNCHANGED <<projection, tables, memory>>

Next ==
    \/ Begin \/ QueryManifest \/ PrepareChunks \/ StartChunk
    \/ QueryCurrent \/ QueryComparison \/ CompleteChunk \/ Complete
    \/ FailChunk \/ Failure \/ Lapse \/ ChangeBooks

Spec == Init /\ [][Next]_vars

-----------------------------------------------------------------------------
(* Safety                                                                  *)

\* The stored figures are those of one query over the units of the manifest, as
\* each was read: no unit is counted twice or left out, and the top rows of the
\* chunks are enough to rank the whole, whatever the books did in between.
MergedIsOneReading ==
    result # None =>
        LET pairs == {[unit |-> u, figures |-> seen[u]] : u \in DOMAIN seen}
        IN  /\ result.merged.count = Cardinality(pairs)
            /\ result.merged.total = SumOf(pairs)
            /\ result.merged.rows  = IF projection = "SUMMARY" THEN Selected(pairs) ELSE pairs

\* A comparison is shown only if it covers every unit the current figures cover:
\* one failed chunk among many must not turn into growth.
ComparisonIsWhole ==
    result # None /\ result.comparison # None => DOMAIN seen \subseteq result.comparison

\* The progress a viewer sees counts the chunks that are on record, also after
\* a retry has cut other ones, and a result is stored after the last of them
\* (PrepareChunks replaces both at once, CompleteChunk moves both at once; until
\* a retry has its manifest, both are those of the attempt before).
ProgressIsTrue ==
    /\ rows # <<>> =>
          /\ progress.total = Len(rows)
          /\ progress.completed = Cardinality({i \in DOMAIN rows : rows[i].status = "SUCCEEDED"})
    /\ result # None => progress.completed = progress.total
=============================================================================
