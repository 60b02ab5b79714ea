--------------------------- MODULE LoadJobsWriter ---------------------------
(***************************************************************************)
(* The load job transport of write.go: LoadJobsWriter, called by several   *)
(* goroutines at once, and BigQuery running the jobs it submits.           *)
(*                                                                         *)
(* What happens under the writer's mutex is one step.  What happens with   *)
(* the mutex released -- rendering the rows, submitting the job, waiting   *)
(* for it, sleeping between attempts -- is one step per call that can      *)
(* block or fail, so that other callers run in between.                    *)
(*                                                                         *)
(* A row is handed over at most once: Sinker.prepare gives every row an ID *)
(* of its own.  The order of rows inside a batch decides nothing, so a     *)
(* batch is a set of rows, and an error kept in pending is the set of rows *)
(* it says "did not land".                                                 *)
(***************************************************************************)
EXTENDS Naturals, FiniteSets

CONSTANTS
    Callers,            \* goroutines using the writer
    Rows,               \* the rows they hand over
    Unencodable,        \* the rows encodeJSONRow returns an error for
    FlushRowsSettings,  \* the values of LoadJobs.FlushRows looked at
    migrateMaxRetries   \* retries after the first attempt, DefaultRetryPolicy

ASSUME CallersAssumption == IsFiniteSet(Callers)
ASSUME RowsAssumption == IsFiniteSet(Rows) /\ Unencodable \subseteq Rows
ASSUME FlushRowsAssumption == FlushRowsSettings \subseteq Nat
ASSUME RetriesAssumption == migrateMaxRetries \in Nat

VARIABLES
    flushRows,   \* LoadJobs.FlushRows, never changed; 0 submits a job per WriteRows
    \* LoadJobsWriter's fields, guarded by mu
    schema,      \* whether a schema is bound
    buf,         \* rows accepted and not yet part of a submission
    pending,     \* rows of threshold submissions that failed, unreported
    closed,
    wg,          \* the WaitGroup's counter
    \* one call per goroutine, with its local variables
    op,          \* the method being run
    pc,          \* where the call is
    batch,       \* the rows the call submits
    folded,      \* what it took from pending
    retries,     \* attemptLimiter.retries of its load
    \* BigQuery
    running,     \* load jobs created and not finished
    succeeded,   \* load jobs that finished and appended their rows
    \* what callers have been told
    given,       \* rows WriteRows took
    delivered,   \* rows counted by a result that promises delivery
    reported     \* how many errors have named the row as not landed

writer == <<flushRows, schema, buf, pending, closed, wg>>
locals == <<op, pc, batch, folded, retries>>
bigquery == <<running, succeeded>>
history == <<given, delivered, reported>>
vars == <<writer, locals, bigquery, history>>

Ops == {"none", "direct", "write", "flush", "close"}
PCs == {"idle", "encode", "submit", "wait", "backoff", "ok", "failed",
        "recorded", "drain", "collect"}
Jobs == [rows : SUBSET Rows, attempt : 0..migrateMaxRetries]

TypeOK ==
    /\ flushRows \in FlushRowsSettings
    /\ schema \in BOOLEAN
    /\ buf \in SUBSET Rows
    /\ pending \in SUBSET Rows
    /\ closed \in BOOLEAN
    /\ wg \in Nat
    /\ op \in [Callers -> Ops]
    /\ pc \in [Callers -> PCs]
    /\ batch \in [Callers -> SUBSET Rows]
    /\ folded \in [Callers -> SUBSET Rows]
    /\ retries \in [Callers -> 0..migrateMaxRetries]
    /\ running \in SUBSET Jobs
    /\ succeeded \in SUBSET Jobs
    /\ given \in SUBSET Rows
    /\ delivered \in SUBSET Rows
    /\ reported \in [Rows -> Nat]

Init ==
    /\ flushRows \in FlushRowsSettings
    /\ schema = FALSE
    /\ buf = {}
    /\ pending = {}
    /\ closed = FALSE
    /\ wg = 0
    /\ op = [c \in Callers |-> "none"]
    /\ pc = [c \in Callers |-> "idle"]
    /\ batch = [c \in Callers |-> {}]
    /\ folded = [c \in Callers |-> {}]
    /\ retries = [c \in Callers |-> 0]
    /\ running = {}
    /\ succeeded = {}
    /\ given = {}
    /\ delivered = {}
    /\ reported = [r \in Rows |-> 0]

-----------------------------------------------------------------------------
(* Steps of a call *)

\* Call o starts at step s with the rows b of its own and the failures f it
\* took from pending.
Enter(c, o, s, b, f) ==
    /\ pc[c] = "idle"
    /\ op' = [op EXCEPT ![c] = o]
    /\ pc' = [pc EXCEPT ![c] = s]
    /\ batch' = [batch EXCEPT ![c] = b]
    /\ folded' = [folded EXCEPT ![c] = f]
    /\ retries' = [retries EXCEPT ![c] = 0]

Goto(c, s) ==
    /\ pc' = [pc EXCEPT ![c] = s]
    /\ UNCHANGED <<op, batch, folded, retries>>

\* The call returns: its local variables are gone.
Leave(c) ==
    /\ op' = [op EXCEPT ![c] = "none"]
    /\ pc' = [pc EXCEPT ![c] = "idle"]
    /\ batch' = [batch EXCEPT ![c] = {}]
    /\ folded' = [folded EXCEPT ![c] = {}]
    /\ retries' = [retries EXCEPT ![c] = 0]

\* What the returned error and count tell the caller.
Report(rs) ==
    reported' = [r \in Rows |-> IF r \in rs THEN reported[r] + 1 ELSE reported[r]]
Tell(landed, lost) ==
    /\ delivered' = delivered \cup landed
    /\ Report(lost)
    /\ UNCHANGED given

-----------------------------------------------------------------------------
(* BindSchema, and the entry of WriteRows, FlushRows and Close.  A call     *)
(* refused on entry (closed, no schema, a second schema, no rows) changes   *)
(* nothing and is a stuttering step.                                        *)

BindSchema ==
    /\ ~schema
    /\ schema' = TRUE
    /\ UNCHANGED <<flushRows, buf, pending, closed, wg, locals, bigquery, history>>

\* The buffer is due for submission.
FullMutant(rows) == Cardinality(rows) > flushRows
Full(rows) == Cardinality(rows) >= flushRows

\* WriteRows may take rows.
AcceptingMutant == schema
Accepting == ~closed /\ schema

TakeRows(rs) ==
    /\ rs # {}
    /\ rs \cap given = {}
    /\ given' = given \cup rs
    /\ UNCHANGED <<delivered, reported>>

\* FlushRows unset: the call submits its own rows, outside the WaitGroup.
WriteDirect(c, rs) ==
    /\ flushRows = 0
    /\ Accepting
    /\ TakeRows(rs)
    /\ Enter(c, "direct", "encode", rs, {})
    /\ UNCHANGED <<writer, bigquery>>

\* The rows fit in the buffer: the call reports acceptance and is over.
WriteBuffered(c, rs) ==
    /\ flushRows > 0
    /\ Accepting
    /\ pc[c] = "idle"
    /\ TakeRows(rs)
    /\ ~Full(buf \cup rs)
    /\ buf' = buf \cup rs
    /\ UNCHANGED <<flushRows, schema, pending, closed, wg, locals, bigquery>>

\* The rows fill the buffer: this call takes all of it and submits it.
WriteFills(c, rs) ==
    /\ flushRows > 0
    /\ Accepting
    /\ TakeRows(rs)
    /\ Full(buf \cup rs)
    /\ Enter(c, "write", "encode", buf \cup rs, {})
    /\ buf' = {}
    /\ wg' = wg + 1
    /\ UNCHANGED <<flushRows, schema, pending, closed, bigquery>>

WriteRows(c, rs) == WriteDirect(c, rs) \/ WriteBuffered(c, rs) \/ WriteFills(c, rs)

\* Failures taken from pending are cleared from it.
TakePending == pending' = {}

\* FlushRows takes the buffer and what pending holds.  With an empty buffer
\* it submits nothing and returns what it folded.
FlushRows(c) ==
    /\ ~closed
    /\ IF buf # {}
       THEN /\ Enter(c, "flush", "encode", buf, pending)
            /\ wg' = wg + 1
       ELSE /\ Enter(c, "flush", "ok", {}, pending)
            /\ wg' = wg
    /\ buf' = {}
    /\ TakePending
    /\ UNCHANGED <<flushRows, schema, closed, bigquery, history>>

\* The first Close takes the buffer and goes on to wait for the WaitGroup.
CloseBegin(c) ==
    /\ ~closed
    /\ closed' = TRUE
    /\ Enter(c, "close", "drain", buf, {})
    /\ buf' = {}
    /\ UNCHANGED <<flushRows, schema, pending, wg, bigquery, history>>

\* w.wg.Wait returns.
DrainedMutant == TRUE
Drained == wg = 0
CloseDrained(c) ==
    /\ pc[c] = "drain"
    /\ Drained
    /\ Goto(c, "collect")
    /\ UNCHANGED <<writer, bigquery, history>>

\* The second critical section of Close: pending is taken once every
\* submission in flight has recorded its failure there.
CloseCollect(c) ==
    /\ pc[c] = "collect"
    /\ folded' = [folded EXCEPT ![c] = pending]
    /\ TakePending
    /\ pc' = [pc EXCEPT ![c] = IF batch[c] # {} THEN "encode" ELSE "ok"]
    /\ UNCHANGED <<flushRows, schema, buf, closed, wg, op, batch, retries, bigquery, history>>

-----------------------------------------------------------------------------
(* load: render the rows, then submit and wait under the retry policy *)

\* One row that cannot be rendered fails the batch before any job exists.
Renders(rows) == rows \cap Unencodable = {}
Encode(c) ==
    /\ pc[c] = "encode"
    /\ Goto(c, IF Renders(batch[c]) THEN "submit" ELSE "failed")
    /\ UNCHANGED <<writer, bigquery, history>>

\* attemptLimiter.Retry around isRetryable.
RetryMutant(n, retryable) == n <= migrateMaxRetries /\ retryable
Retry(n, retryable) == n < migrateMaxRetries /\ retryable

\* An attempt of c ended in an error.
AttemptFailed(c, retryable) ==
    /\ IF Retry(retries[c], retryable)
       THEN /\ pc' = [pc EXCEPT ![c] = "backoff"]
            /\ retries' = [retries EXCEPT ![c] = @ + 1]
       ELSE /\ pc' = [pc EXCEPT ![c] = "failed"]
            /\ UNCHANGED retries
    /\ UNCHANGED <<op, batch, folded>>

Job(c) == [rows |-> batch[c], attempt |-> retries[c]]

\* loader.Run answers with a job.
Submit(c) ==
    /\ pc[c] = "submit"
    /\ running' = running \cup {Job(c)}
    /\ Goto(c, "wait")
    /\ UNCHANGED <<writer, succeeded, history>>

\* loader.Run returns an error.  When the answer was lost on the way, BigQuery
\* has the job all the same.
SubmitFails(c, retryable, created) ==
    /\ pc[c] = "submit"
    /\ running' = IF created THEN running \cup {Job(c)} ELSE running
    /\ AttemptFailed(c, retryable)
    /\ UNCHANGED <<writer, succeeded, history>>

\* status.Err() of a finished job is nil.
JobOKMutant(c) == TRUE
JobOK(c) == Job(c) \in succeeded

\* job.Wait returns the finished job's status.  A failed job's status is a
\* *bigquery.Error, which isRetryable never accepts.
WaitReturns(c) ==
    /\ pc[c] = "wait"
    /\ Job(c) \notin running
    /\ IF JobOK(c) THEN Goto(c, "ok") ELSE AttemptFailed(c, FALSE)
    /\ UNCHANGED <<writer, bigquery, history>>

\* job.Wait itself fails -- the context ended, or polling did -- and says
\* nothing about the job, which goes on.
WaitFails(c, retryable) ==
    /\ pc[c] = "wait"
    /\ AttemptFailed(c, retryable)
    /\ UNCHANGED <<writer, bigquery, history>>

\* gax.Invoke sleeps before the next attempt, unless the context ends first.
Backoff(c, cancelled) ==
    /\ pc[c] = "backoff"
    /\ Goto(c, IF cancelled THEN "failed" ELSE "submit")
    /\ UNCHANGED <<writer, bigquery, history>>

Load(c) ==
    \/ Encode(c)
    \/ Submit(c)
    \/ \E retryable, created \in BOOLEAN : SubmitFails(c, retryable, created)
    \/ WaitReturns(c)
    \/ \E retryable \in BOOLEAN : WaitFails(c, retryable)
    \/ \E cancelled \in BOOLEAN : Backoff(c, cancelled)

\* BigQuery finishes a job: all of its rows are appended, or none is.
JobFinishes(j) ==
    /\ j \in running
    /\ running' = running \ {j}
    /\ succeeded' \in {succeeded, succeeded \cup {j}}
    /\ UNCHANGED <<writer, locals, history>>

-----------------------------------------------------------------------------
(* After load: what each method does with the outcome *)

\* WriteRows in direct mode returns the job's own outcome.
DirectReturns(c) ==
    /\ op[c] = "direct"
    /\ \/ pc[c] = "ok" /\ Tell(batch[c], {})
       \/ pc[c] = "failed" /\ Tell({}, batch[c])
    /\ Leave(c)
    /\ UNCHANGED <<writer, bigquery>>

\* The error is appended to the ones pending holds.
KeepMutant(rows) == rows
Keep(rows) == pending \cup rows

\* A failed threshold submission is kept for FlushRows or Close to report.
RecordPending(c) ==
    /\ op[c] = "write"
    /\ pc[c] = "failed"
    /\ pending' = Keep(batch[c])
    /\ Goto(c, "recorded")
    /\ UNCHANGED <<flushRows, schema, buf, closed, wg, bigquery, history>>

\* WriteRows returns, the deferred wg.Done after everything else.
WriteReturns(c) ==
    /\ op[c] = "write"
    /\ pc[c] \in {"ok", "recorded"}
    /\ wg' = wg - 1
    /\ Leave(c)
    /\ UNCHANGED <<flushRows, schema, buf, pending, closed, bigquery, history>>

\* wg.Done is deferred only when there was something to submit.
FlushDoneMutant(c) == IF batch[c] # {} /\ pc[c] = "ok" THEN wg - 1 ELSE wg
FlushDone(c) == IF batch[c] # {} THEN wg - 1 ELSE wg

\* FlushRows returns its own job's outcome joined with what it folded.
FlushReturns(c) ==
    /\ op[c] = "flush"
    /\ \/ pc[c] = "ok" /\ Tell(batch[c], folded[c])
       \/ pc[c] = "failed" /\ Tell({}, folded[c] \cup batch[c])
    /\ wg' = FlushDone(c)
    /\ Leave(c)
    /\ UNCHANGED <<flushRows, schema, buf, pending, closed, bigquery>>

\* Close joins what it collected with its own job's failure.
CloseReturns(c) ==
    /\ op[c] = "close"
    /\ \/ pc[c] = "ok" /\ Tell({}, folded[c])
       \/ pc[c] = "failed" /\ Tell({}, folded[c] \cup batch[c])
    /\ Leave(c)
    /\ UNCHANGED <<writer, bigquery>>

Return(c) ==
    \/ DirectReturns(c)
    \/ RecordPending(c)
    \/ WriteReturns(c)
    \/ FlushReturns(c)
    \/ CloseReturns(c)

\* The steps of a call that has started.
Continue(c) == CloseDrained(c) \/ CloseCollect(c) \/ Load(c) \/ Return(c)

Next ==
    \/ BindSchema
    \/ \E c \in Callers :
        \/ \E rs \in SUBSET Rows : WriteRows(c, rs)
        \/ FlushRows(c)
        \/ CloseBegin(c)
        \/ Continue(c)
    \/ \E j \in running : JobFinishes(j)

Spec == Init /\ [][Next]_vars

-----------------------------------------------------------------------------
(* Properties *)

Landed(r) == \E j \in succeeded : r \in j.rows

\* The rows whose fate a call in progress has still to report or record.
Carries(c) == folded[c] \cup (IF pc[c] = "recorded" THEN {} ELSE batch[c])

\* No accepted row is ever lost track of: it waits in the buffer or among the
\* pending failures, a call in progress carries it, it has landed, or an error
\* has named it (WriteRows, FlushRows and Close hand rows to one another).
AccountedFor ==
    \A r \in given :
        \/ r \in buf \cup pending
        \/ \E c \in Callers : r \in Carries(c)
        \/ Landed(r)
        \/ reported[r] > 0

\* Some Close has closed the writer and returned.
CloseReturned == closed /\ \A c \in Callers : op[c] # "close"

\* Close settles what the writer was given: once it has returned nothing is
\* left in the buffer, in pending or in a threshold submission.  What is still
\* open belongs to a call that will report it itself: a WriteRows in direct
\* mode, or a FlushRows that found the buffer empty; Close waits for neither.
SettledAtClose ==
    CloseReturned =>
        \A r \in given :
            \/ Landed(r)
            \/ reported[r] > 0
            \/ \E c \in Callers :
                /\ r \in Carries(c)
                /\ op[c] = "direct" \/ (op[c] = "flush" /\ batch[c] = {})

\* To whoever holds it, the load job transport is a RowsWriter: every step of
\* its calls is a step of the contract or none.  A row is counted only once its
\* job landed it, an error names it once and by one of WriteRows, FlushRows and
\* Close, never after it was counted, and no row is taken once closed.
Contract == INSTANCE RowsWriter WITH landed <- UNION {j.rows : j \in succeeded}
ImplementsRowsWriter == Contract!Spec

\* With FlushRows set the writer never holds as many rows as FlushRows between
\* calls: the call that fills the buffer empties it.
HeldBounded == flushRows > 0 => Cardinality(buf) < flushRows

\* A retried submission can duplicate rows, but only within its own batch and
\* no more often than the policy allows attempts; no row is ever part of two
\* different batches, and no job carries a row that could not be rendered.
DuplicatesBounded ==
    /\ \A j, k \in running \cup succeeded :
        j.rows \cap k.rows # {} => j.rows = k.rows
    /\ \A r \in Rows :
        Cardinality({j \in succeeded : r \in j.rows}) <= migrateMaxRetries + 1
    /\ \A j \in running \cup succeeded : j.rows \cap Unencodable = {}

\* The WaitGroup's counter never rises once Close may be waiting for it: every
\* wg.Add happens under the mutex before closed is set.
AddBeforeWait == [][closed => wg' <= wg]_vars

\* LoadJobs says of a job's rows that they "either all land or, having been
\* retried under RetryPolicy, none do": rows an error calls lost are not in
\* the table.
LostNeverLanded == \A r \in Rows : reported[r] > 0 => ~Landed(r)
=============================================================================
