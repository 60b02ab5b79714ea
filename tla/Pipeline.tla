------------------------------ MODULE Pipeline ------------------------------
(***************************************************************************)
(* Sinkers over one LoadJobsWriter: a Sink from the call to the table.     *)
(* Every step is a step of Sinker, of LoadJobsWriter, or one of each where *)
(* a Sinker's goroutine enters or leaves the writer.  Sinker alone is      *)
(* checked against any RowsWriter; here it is given the one bqsink ships,  *)
(* while other goroutines flush and close that writer under it.            *)
(***************************************************************************)
EXTENDS LoadJobsWriter

CONSTANTS
    Sinkers,       \* Sinkers built over the writer
    Unpreparable,  \* the rows FillRow or marshalRow returns an error for
    Batches        \* bound: the batches a Sink is given

ASSUME PipelineAssumption ==
    IsFiniteSet(Sinkers) /\ Unpreparable \subseteq Rows /\ Batches \subseteq SUBSET Rows

VARIABLES
    \* Sinker's
    api, once, startErr, migrations, boundTo, at, sinker, async, rows, bad, result, writes,
    \* the composition's
    handed,   \* the rows of each goroutine's Sink
    outcome,  \* the WriteResult it was given, as n and err
    via,      \* the Sinker each row was handed to
    answer    \* what the Sink it was handed to was returned

S == INSTANCE Sinker WITH pc <- at, MaxRows <- Cardinality(Rows)

ASSUME NobodyAssumption == S!Nobody \notin Sinkers

sinks == <<api, once, startErr, migrations, boundTo, at, sinker, async, rows, bad, result, writes>>
between == <<handed, outcome, via, answer>>
pipeline == <<vars, sinks, between>>

Pending == [n |-> 0, err |-> FALSE]

PipelineInit ==
    /\ Init
    /\ S!Init
    /\ handed = [c \in Callers |-> {}]
    /\ outcome = [c \in Callers |-> Pending]
    /\ via = [r \in Rows |-> S!Nobody]
    /\ answer = [r \in Rows |-> "none"]

\* The goroutine is in no call.
Free(c) == pc[c] = "idle" /\ at[c] = "idle"

\* The Sink returns: its rows have their answer and its locals are gone.
Answered(c, a) ==
    /\ answer' = [r \in Rows |-> IF r \in handed[c] THEN a ELSE answer[r]]
    /\ handed' = [handed EXCEPT ![c] = {}]
    /\ outcome' = [outcome EXCEPT ![c] = Pending]
    /\ UNCHANGED via

-----------------------------------------------------------------------------
(* Steps of a Sinker alone *)

SinkBegins(c, s, a, rs) ==
    /\ Free(c)
    /\ \A r \in rs : via[r] = S!Nobody
    /\ S!Send(c, s, a, Cardinality(rs), rs \cap Unpreparable # {})
    /\ handed' = [handed EXCEPT ![c] = rs]
    /\ via' = [r \in Rows |-> IF r \in rs THEN s ELSE via[r]]
    /\ UNCHANGED <<vars, api, outcome, answer>>

\* The Sink gets on with start and prepare; one that ends there is refused.
SinkRuns(c) ==
    /\ \/ S!OnceBegin(c) \/ S!OnceDone(c) \/ S!StartReturns(c) \/ S!Prepare(c)
       \/ \E ok \in BOOLEAN : S!Migrate(c, ok)
    /\ IF at'[c] = "idle" THEN Answered(c, "refused") ELSE UNCHANGED between
    /\ UNCHANGED <<vars, api>>

\* Wait on the WriteResult, which every method of the writer returns resolved.
SinkWaits(c) ==
    /\ S!Wait(c, outcome[c].n, outcome[c].err)
    /\ Answered(c, IF result'[c].err THEN "failed" ELSE "sunk")
    /\ UNCHANGED <<vars, api>>

-----------------------------------------------------------------------------
(* Steps of both *)

\* start binds the declaration's schema; the writer takes the first one.
SinkBinds(c) ==
    /\ S!BindSchema(c, TRUE)
    /\ BindSchema \/ (schema /\ UNCHANGED vars)
    /\ UNCHANGED <<api, between>>

\* A Sink's rows arrive at the writer; how it goes on is the writer's business.
SinkWrites(c) ==
    /\ at[c] = "write" /\ pc[c] = "idle"
    /\ WriteDirect(c, handed[c]) \/ WriteFills(c, handed[c])
    /\ UNCHANGED <<sinks, between>>

\* WriteRows returns its result to the Sink.  SinkAsync passes it on.
Returned(c, n, err) ==
    /\ S!WriteRows(c)
    /\ IF async[c] THEN Answered(c, "passed")
       ELSE /\ outcome' = [outcome EXCEPT ![c] = [n |-> n, err |-> err]]
            /\ UNCHANGED <<handed, via, answer>>
    /\ UNCHANGED api

SinkBuffered(c) ==
    /\ at[c] = "write"
    /\ WriteBuffered(c, handed[c])
    /\ Returned(c, Cardinality(handed[c]), FALSE)

\* The count is of the rows it was given, not of the batch it sent.
SinkSubmitted(c) ==
    /\ WriteReturns(c)
    /\ Returned(c, Cardinality(handed[c]), FALSE)

\* A direct WriteRows whose job failed counts none of its rows.
DirectErrMutant(c) == FALSE
DirectErr(c) == pc[c] = "failed"
SinkDirect(c) ==
    /\ DirectReturns(c)
    /\ Returned(c, IF DirectErr(c) THEN 0 ELSE Cardinality(handed[c]), DirectErr(c))

\* The writer is closed: WriteRows refuses the rows and returns no result.
SinkRefused(c) ==
    /\ at[c] = "write" /\ pc[c] = "idle"
    /\ ~Accepting
    /\ S!WriteRowsFails(c, FALSE)
    /\ Answered(c, "refused")
    /\ UNCHANGED <<vars, api>>

-----------------------------------------------------------------------------
(* Steps of the writer alone: whoever holds it flushes and closes it *)

WriterBegins(c) ==
    /\ Free(c)
    /\ FlushRows(c) \/ CloseBegin(c)
    /\ UNCHANGED <<sinks, between>>

WriterRuns(c) ==
    /\ \/ CloseDrained(c) \/ CloseCollect(c) \/ Load(c)
       \/ RecordPending(c) \/ FlushReturns(c) \/ CloseReturns(c)
    /\ UNCHANGED <<sinks, between>>

BigQueryFinishes ==
    /\ \E j \in running : JobFinishes(j)
    /\ UNCHANGED <<sinks, between>>

\* The steps of a call that has started, of either component.
Proceed(c) ==
    \/ SinkRuns(c) \/ SinkBinds(c) \/ SinkWrites(c) \/ SinkBuffered(c) \/ SinkSubmitted(c)
    \/ SinkDirect(c) \/ SinkRefused(c) \/ SinkWaits(c) \/ WriterRuns(c)

PipelineNext ==
    \/ \E c \in Callers :
        \/ \E s \in Sinkers, a \in BOOLEAN, rs \in Batches : SinkBegins(c, s, a, rs)
        \/ WriterBegins(c)
        \/ Proceed(c)
    \/ BigQueryFinishes

PipelineSpec == PipelineInit /\ [][PipelineNext]_pipeline

\* A goroutine inside a call keeps running, and BigQuery finishes every job.
PipelineFairness ==
    /\ \A c \in Callers : WF_pipeline(Proceed(c) /\ (pc[c] = "wait" => Job(c) \notin running))
    /\ WF_pipeline(BigQueryFinishes)

FairPipelineSpec == PipelineSpec /\ PipelineFairness

-----------------------------------------------------------------------------
(* Properties *)

\* What a Sink is returned is true of its rows in the table.  A Sink over a writer
\* that submits every batch succeeds only if its rows landed; one over a buffering
\* writer only if they are still in its care, landed, or were named by an error of
\* FlushRows or Close.  A refused Sink's rows were never taken and never land.
SinkTruthful ==
    \A r \in Rows :
        /\ answer[r] = "sunk" /\ flushRows = 0 => Landed(r)
        /\ answer[r] = "sunk" /\ flushRows > 0 =>
            \/ Landed(r) \/ reported[r] = 1
            \/ r \in buf \cup pending \/ \E c \in Callers : r \in Carries(c)
        /\ answer[r] = "failed" => reported[r] = 1 /\ r \notin delivered
        /\ answer[r] = "refused" => r \notin given /\ ~Landed(r)

\* Rows of a table that was not reconciled, or of another Sinker's schema, are in no
\* load job, however many Sinkers share the writer and whichever of them came first.
JobsUnderOwnSchema ==
    \A j \in running \cup succeeded : \A r \in j.rows :
        /\ via[r] = boundTo
        /\ ~startErr[via[r]]
        /\ api => migrations[via[r]] = 1

\* A Sink that overlaps Close has one end or the other, not both and not neither:
\* once every call has returned, its rows were refused, or landed or named.
ClosedMeansSettled ==
    closed ~> (\A r \in Rows : answer[r] = "sunk" => Landed(r) \/ reported[r] = 1)

\* Every Sink, FlushRows and Close returns, the ones that wait for another
\* goroutine's start or its submission included.
EveryCallEnds == \A c \in Callers : ~Free(c) ~> Free(c)
=============================================================================
