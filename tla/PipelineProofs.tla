--------------------------- MODULE PipelineProofs ---------------------------
(***************************************************************************)
(* A Sink from the call to the table, for any goroutines, Sinkers, rows,   *)
(* batches, FlushRows and retries.                                         *)
(*                                                                         *)
(* Each component's part of a step is a step of that component, so all     *)
(* that is proved of the load job transport and of Sinker alone holds of   *)
(* them together.  What is left is between the two: where a Sink is when   *)
(* the writer has its rows, and what it was told of them.                  *)
(***************************************************************************)
EXTENDS Pipeline, LoadJobsWriterProofs

SP == INSTANCE SinkerProofs WITH pc <- at, MaxRows <- Cardinality(Rows)

Answers == {"none", "refused", "passed", "sunk", "failed"}

BetweenOK ==
    /\ handed \in [Callers -> SUBSET Rows]
    /\ outcome \in [Callers -> [n : 0..Cardinality(Rows), err : BOOLEAN]]
    /\ via \in [Rows -> Sinkers \cup {S!Nobody}]
    /\ answer \in [Rows -> Answers]

\* The two places of a goroutine fit together: it is inside WriteRows only on behalf
\* of a Sink that has come to its write, and what it submits directly is that Sink's.
Nested ==
    \A c \in Callers :
        /\ op[c] \in {"direct", "write"} => at[c] = "write"
        /\ op[c] \in {"flush", "close"} => at[c] = "idle"
        /\ op[c] = "direct" => flushRows = 0 /\ batch[c] = handed[c]
        /\ op[c] = "write" => flushRows > 0

\* Rows in a Sink's hands are that Sink's alone, and nothing was answered for them.
InHand ==
    \A c \in Callers :
        /\ rows[c] = Cardinality(handed[c])
        /\ at[c] = "idle" => handed[c] = {}
        /\ \A r \in handed[c] : via[r] = sinker[c] /\ answer[r] = "none"
        /\ \A d \in Callers : c # d => handed[c] \cap handed[d] = {}

\* The writer has a Sink's rows from its write on, and not before.
TakenAtWrite ==
    \A c \in Callers :
        IF at[c] = "wait" \/ pc[c] # "idle" THEN handed[c] \subseteq given ELSE handed[c] \cap given = {}

\* What a WriteRows returned is true of the rows of the Sink that waits on it.
OutcomeTrue ==
    \A c \in Callers : at[c] = "wait" =>
        IF outcome[c].err
        THEN outcome[c].n = 0 /\ \A r \in handed[c] : reported[r] = 1
        ELSE outcome[c].n = Cardinality(handed[c]) /\ (flushRows = 0 => \A r \in handed[c] : Landed(r))

\* An error names a row once, and none that was counted.
NamedOnce == \A r \in Rows : reported[r] = 0 \/ (reported[r] = 1 /\ r \notin delivered)

\* What was answered for a row.
AnswerTrue ==
    \A r \in Rows :
        /\ via[r] = S!Nobody => answer[r] = "none"
        /\ answer[r] = "sunk" => r \in given /\ (flushRows = 0 => Landed(r))
        /\ answer[r] = "failed" => reported[r] = 1
        /\ answer[r] = "refused" => r \notin given

\* The writer has rows only of Sinkers whose start is over and succeeded.
TakenFromStarted ==
    \A r \in given : via[r] \in Sinkers /\ once[via[r]] = "done" /\ ~startErr[via[r]]

Between ==
    /\ BetweenOK /\ Nested /\ InHand /\ TakenAtWrite
    /\ OutcomeTrue /\ NamedOnce /\ AnswerTrue /\ TakenFromStarted

PInv == IInv /\ Ownership /\ SP!IInv /\ Between

-----------------------------------------------------------------------------
(* The components inside the pipeline *)

LEMMA RowsCounted ==
    /\ Cardinality(Rows) \in Nat
    /\ \A rs \in SUBSET Rows : Cardinality(rs) \in 0..Cardinality(Rows)
    /\ Cardinality({}) = 0
<1>1. Cardinality(Rows) \in Nat
  BY RowsAssumption, FS_CardinalityType
<1>2. ASSUME NEW rs \in SUBSET Rows PROVE Cardinality(rs) \in 0..Cardinality(Rows)
  BY <1>1, RowsAssumption, FS_Subset, FS_CardinalityType
<1> QED
  BY <1>1, <1>2, FS_EmptySet

LEMMA SinkerAssumed == SP!SinkerAssumption
<1>1. SP!IsFiniteSet(Callers) /\ SP!IsFiniteSet(Sinkers)
  BY CallersAssumption, PipelineAssumption, Zenon DEF IsFiniteSet, SP!IsFiniteSet
<1>2. SP!Nobody \notin Sinkers
  BY NobodyAssumption DEF SP!Nobody, S!Nobody
<1> QED
  BY <1>1, <1>2, RowsCounted DEF SP!SinkerAssumption

\* Pipeline's Sinker is the one SinkerProofs is about.
LEMMA SameSinker == [S!Next]_(S!vars) => [SP!Next]_(SP!vars)
<1>1. S!Next => SP!Next
  BY Zenon
     DEF S!Next, SP!Next, S!Start, SP!Start, S!Send, SP!Send, S!Enter, SP!Enter, S!Goto,
         SP!Goto, S!Return, SP!Return, S!Continue, SP!Continue, S!OnceBegin, SP!OnceBegin,
         S!First, SP!First, S!OnceDone, SP!OnceDone, S!Migrate, SP!Migrate, S!Finished,
         SP!Finished, S!BindSchema, SP!BindSchema, S!Bindable, SP!Bindable, S!StartReturns,
         SP!StartReturns, S!StartFailed, SP!StartFailed, S!Prepare, SP!Prepare, S!Prepared,
         SP!Prepared, S!WriteRows, SP!WriteRows, S!WriteRowsFails, SP!WriteRowsFails,
         S!Wait, SP!Wait, S!Short, SP!Short, S!NoResult, SP!NoResult, S!Nobody, SP!Nobody,
         S!vars, SP!vars, S!call, SP!call, S!starting, SP!starting
<1>2. UNCHANGED S!vars => UNCHANGED SP!vars
  BY DEF S!vars, S!starting, S!call, SP!vars, SP!starting, SP!call
<1> QED
  BY <1>1, <1>2

\* The writer's part of a step is a step of the writer.
LEMMA WriterStep ==
    ASSUME BetweenOK, [PipelineNext]_pipeline
    PROVE  [Next]_vars
<1>1. CASE UNCHANGED pipeline
  BY <1>1 DEF pipeline
<1>2. ASSUME NEW c \in Callers, NEW s \in Sinkers, NEW a \in BOOLEAN, NEW rs \in Batches, SinkBegins(c, s, a, rs)
      PROVE  UNCHANGED vars
  BY <1>2 DEF SinkBegins
<1>3. ASSUME NEW c \in Callers, WriterBegins(c) \/ WriterRuns(c)
      PROVE  Next
  BY <1>3 DEF WriterBegins, WriterRuns, Next, Continue, Return
<1>4. ASSUME NEW c \in Callers, SinkRuns(c) \/ SinkRefused(c) \/ SinkWaits(c)
      PROVE  UNCHANGED vars
  BY <1>4 DEF SinkRuns, SinkRefused, SinkWaits
<1>5. ASSUME NEW c \in Callers, SinkBinds(c)
      PROVE  Next \/ UNCHANGED vars
  BY <1>5 DEF SinkBinds, Next
<1>6. ASSUME NEW c \in Callers, SinkWrites(c) \/ SinkBuffered(c)
      PROVE  Next
  <2>1. handed[c] \in SUBSET Rows
    BY DEF BetweenOK
  <2>2. WriteRows(c, handed[c])
    BY <1>6 DEF SinkWrites, SinkBuffered, WriteRows
  <2> QED
    BY <2>1, <2>2 DEF Next
<1>7. ASSUME NEW c \in Callers, SinkSubmitted(c) \/ SinkDirect(c)
      PROVE  Next
  BY <1>7 DEF SinkSubmitted, SinkDirect, Next, Continue, Return
<1>8. CASE BigQueryFinishes
  BY <1>8 DEF BigQueryFinishes, Next
<1> QED
  BY <1>1, <1>2, <1>3, <1>4, <1>5, <1>6, <1>7, <1>8 DEF PipelineNext, Proceed

\* The Sinker's part of a step is a step of Sinker: among the rest, the counts the
\* writer returns are among those Sinker allows any RowsWriter.
LEMMA SinkerStep ==
    ASSUME BetweenOK, InHand, OutcomeTrue, [PipelineNext]_pipeline
    PROVE  [S!Next]_(S!vars)
<1>1. UNCHANGED sinks => UNCHANGED S!vars
  BY DEF sinks, S!vars, S!starting, S!call
<1>2. CASE UNCHANGED pipeline
  BY <1>1, <1>2 DEF pipeline
<1>3. ASSUME NEW c \in Callers, NEW s \in Sinkers, NEW a \in BOOLEAN, NEW rs \in Batches, SinkBegins(c, s, a, rs)
      PROVE  S!Next
  <2>1. Cardinality(rs) > 0 /\ S!Send(c, s, a, Cardinality(rs), rs \cap Unpreparable # {}) /\ api' = api
    BY <1>3 DEF SinkBegins, S!Send
  <2>2. Cardinality(rs) \in 1..Cardinality(Rows)
    BY <2>1, RowsCounted, PipelineAssumption
  <2>3. (rs \cap Unpreparable # {}) \in BOOLEAN
    OBVIOUS
  <2> QED
    BY <2>1, <2>2, <2>3, Zenon DEF S!Next
<1>4. ASSUME NEW c \in Callers, WriterBegins(c) \/ WriterRuns(c) \/ SinkWrites(c) \/ BigQueryFinishes
      PROVE  UNCHANGED S!vars
  BY <1>1, <1>4 DEF WriterBegins, WriterRuns, SinkWrites, BigQueryFinishes
<1>5. ASSUME NEW c \in Callers, SinkRuns(c) \/ SinkBinds(c) \/ SinkRefused(c)
      PROVE  S!Next
  BY <1>5, Zenon DEF SinkRuns, SinkBinds, SinkRefused, S!Next, S!Continue
<1>6. ASSUME NEW c \in Callers, SinkBuffered(c) \/ SinkSubmitted(c) \/ SinkDirect(c)
      PROVE  S!Next
  BY <1>6 DEF SinkBuffered, SinkSubmitted, SinkDirect, Returned, S!Next, S!Continue
<1>7. ASSUME NEW c \in Callers, SinkWaits(c)
      PROVE  S!Next
  <2>1. S!Wait(c, outcome[c].n, outcome[c].err) /\ at[c] = "wait" /\ api' = api
    BY <1>7 DEF SinkWaits, S!Wait
  <2>2. outcome[c].n \in 0..rows[c] + 1
    BY <2>1, RowsCounted DEF BetweenOK, InHand, OutcomeTrue
  <2>3. outcome[c].err \in BOOLEAN
    BY DEF BetweenOK
  <2> QED
    BY <2>1, <2>2, <2>3, Zenon DEF S!Next, S!Continue
<1>8. CASE BigQueryFinishes
  BY <1>1, <1>8 DEF BigQueryFinishes
<1> QED
  BY <1>2, <1>3, <1>4, <1>5, <1>6, <1>7, <1>8 DEF PipelineNext, Proceed

-----------------------------------------------------------------------------
(* What every step leaves alone *)

\* What has happened to a row or a start is not undone.
Steady ==
    /\ flushRows' = flushRows
    /\ given \subseteq given'
    /\ \A r \in Rows : Landed(r) => Landed(r)'
    /\ \A r \in Rows : reported[r] = 1 => reported'[r] = 1
    /\ \A s \in Sinkers : once[s] = "done" /\ ~startErr[s] => once'[s] = "done" /\ ~startErr'[s]

LEMMA NamedOnceStep ==
    ASSUME IInv, Ownership, NamedOnce, [Next]_vars
    PROVE  NamedOnce' /\ \A r \in Rows : reported[r] = 1 => reported'[r] = 1
<1>0. \A r \in Rows : r \notin given => reported[r] = 0 /\ r \notin delivered
  BY DEF Ownership, FromGiven
<1>1. [Contract!Next]_(Contract!vars)
  BY StepContract
<1>2. ASSUME NEW lost, reported' = Contract!Names(lost), \A r \in lost : r \in Rows => reported[r] = 0,
             \A r \in Rows : r \in delivered' => r \in delivered \/ (r \notin lost /\ reported[r] = 0),
             \A r \in lost : r \notin delivered'
      PROVE  NamedOnce' /\ \A r \in Rows : reported[r] = 1 => reported'[r] = 1
  <2>1. \A r \in Rows : reported'[r] = IF r \in lost THEN 1 ELSE reported[r]
    BY <1>2 DEF Contract!Names
  <2> QED
    BY <1>2, <2>1 DEF NamedOnce
<1>3. ASSUME NEW rs, Contract!Refuse(rs)
      PROVE  NamedOnce' /\ \A r \in Rows : reported[r] = 1 => reported'[r] = 1
  BY <1>0, <1>2, <1>3 DEF Contract!Refuse, IInv, TypeOK, Ownership, FromGiven
<1>4. ASSUME NEW counted, NEW lost, Contract!Tell(counted, lost)
      PROVE  NamedOnce' /\ \A r \in Rows : reported[r] = 1 => reported'[r] = 1
  BY <1>2, <1>4 DEF Contract!Tell, Contract!Unsettled
<1>5. CASE UNCHANGED <<delivered, reported>>
  BY <1>5 DEF NamedOnce
<1> QED
  BY <1>1, <1>3, <1>4, <1>5 DEF Contract!Next, Contract!Take, Contract!Land, Contract!Close, Contract!vars

LEMMA WriterSteady ==
    ASSUME [Next]_vars
    PROVE  flushRows' = flushRows /\ given \subseteq given' /\ succeeded \subseteq succeeded'
BY DEF Next, BindSchema, WriteRows, WriteDirect, WriteBuffered, WriteFills, TakeRows, FlushRows,
       CloseBegin, Continue, CloseDrained, CloseCollect, Load, Encode, Submit, SubmitFails, WaitReturns,
       WaitFails, Backoff, Return, DirectReturns, RecordPending, WriteReturns, FlushReturns, CloseReturns,
       Tell, JobFinishes, writer, bigquery, history, vars

LEMMA ComponentsStep ==
    ASSUME PInv, [PipelineNext]_pipeline
    PROVE  IInv' /\ Ownership' /\ SP!IInv' /\ NamedOnce' /\ Steady
<1> USE DEF PInv, Between
<1>1. [Next]_vars
  BY WriterStep
<1>2. [SP!Next]_(SP!vars)
  BY SinkerStep, SameSinker
<1>3. IInv' /\ Ownership'
  BY <1>1, NextIInv, NextOwnership
<1>4. SP!IInv' /\ SP!OutcomeFinal
  BY <1>2, SinkerAssumed, SP!NextStep, SP!OutcomeStep
<1>5. \A r \in Rows : Landed(r) => Landed(r)'
  BY <1>1, WriterSteady DEF Landed
<1> QED
  BY <1>1, <1>3, <1>4, <1>5, WriterSteady, NamedOnceStep DEF Steady, SP!OutcomeFinal

LEMMA SinkerFacts ==
    ASSUME SP!IInv
    PROVE  /\ at \in [Callers -> SP!PCs]
           /\ sinker \in [Callers -> Sinkers \cup {S!Nobody}]
           /\ rows \in [Callers -> 0..Cardinality(Rows)]
           /\ \A c \in Callers : at[c] # "idle" => sinker[c] \in Sinkers
           /\ \A c \in Callers : at[c] \in {"prepare", "write", "wait"} =>
                once[sinker[c]] = "done" /\ ~startErr[sinker[c]]
BY DEF SP!IInv, SP!TypeOK, SP!Nobody, S!Nobody, SP!Seated, SP!StartedOnce, SP!Admitted, SP!PastStart

-----------------------------------------------------------------------------
(* The kinds of step, by what they do to a Sink and its rows *)

\* The parts of Between a kind of step has to keep; NamedOnce is the writer's.
Linked == BetweenOK /\ Nested /\ InHand /\ TakenAtWrite /\ OutcomeTrue /\ AnswerTrue /\ TakenFromStarted

\* The rows the writer has are of started Sinkers, whoever's Sink brings more.
LEMMA StartedStep ==
    ASSUME PInv, Steady,
           \A r \in Rows : via[r] \in Sinkers => via'[r] = via[r],
           \/ given' = given
           \/ \E c \in Callers : at[c] = "write" /\ given' = given \cup handed[c]
    PROVE  TakenFromStarted'
<1> USE DEF PInv, Between, Steady
<1>1. given \subseteq Rows
  BY DEF IInv, TypeOK
<1>2. CASE given' = given
  BY <1>1, <1>2 DEF TakenFromStarted
<1>3. ASSUME NEW c \in Callers, at[c] = "write", given' = given \cup handed[c]
      PROVE  TakenFromStarted'
  <2>1. \A r \in handed[c] : r \in Rows /\ via[r] \in Sinkers /\ once[via[r]] = "done" /\ ~startErr[via[r]]
    BY <1>3, SinkerFacts DEF BetweenOK, InHand
  <2> QED
    BY <1>1, <1>3, <2>1 DEF TakenFromStarted
<1> QED
  BY <1>2, <1>3

\* The other goroutines stay where they are in the writer.
OthersStay(c) == \A d \in Callers \ {c} : op'[d] = op[d] /\ pc'[d] = pc[d] /\ batch'[d] = batch[d]

\* SinkBegins: rows nobody had sent are now in the hands of one Sink.
LEMMA BeginStep ==
    ASSUME PInv, Steady, NEW c \in Callers, NEW s \in Sinkers, NEW a \in BOOLEAN, NEW rs \in Batches,
           SinkBegins(c, s, a, rs)
    PROVE  Linked'
<1> USE DEF PInv, Between
<1>0. rs \in SUBSET Rows
  BY PipelineAssumption
<1>1. /\ at[c] = "idle" /\ pc[c] = "idle" /\ op[c] = "none"
      /\ at' = [at EXCEPT ![c] = "start"]
      /\ sinker' = [sinker EXCEPT ![c] = s]
      /\ rows' = [rows EXCEPT ![c] = Cardinality(rs)]
  BY DEF SinkBegins, Free, S!Send, S!Enter, IInv, CallShape
<1>2. /\ handed' = [handed EXCEPT ![c] = rs]
      /\ via' = [r \in Rows |-> IF r \in rs THEN s ELSE via[r]]
      /\ outcome' = outcome /\ answer' = answer
      /\ UNCHANGED <<flushRows, op, pc, batch, succeeded, given, reported>>
  BY DEF SinkBegins, vars, writer, locals, bigquery, history
<1>3. \A r \in rs : via[r] = S!Nobody /\ via[r] \notin Sinkers
  BY NobodyAssumption DEF SinkBegins
<1>4. BetweenOK'
  BY <1>0, <1>2 DEF BetweenOK
<1>5. Nested'
  BY <1>1, <1>2, SinkerFacts DEF Nested, BetweenOK
<1>6. InHand'
  <2>1. ASSUME NEW d \in Callers, d # c PROVE rs \cap handed[d] = {}
    BY <1>3, SinkerFacts DEF InHand
  <2>2. \A r \in rs : via'[r] = s /\ answer'[r] = "none"
    BY <1>0, <1>2, <1>3 DEF AnswerTrue
  <2>3. \A d \in Callers : d # c => handed'[d] = handed[d] /\ rows'[d] = rows[d] /\ at'[d] = at[d] /\ sinker'[d] = sinker[d]
    BY <1>1, <1>2, SinkerFacts DEF BetweenOK
  <2>4. handed'[c] = rs /\ rows'[c] = Cardinality(rs) /\ at'[c] = "start" /\ sinker'[c] = s
    BY <1>1, <1>2, SinkerFacts DEF BetweenOK
  <2>5. \A d \in Callers : d # c => \A r \in handed[d] : via'[r] = via[r]
    BY <2>1, <1>2 DEF BetweenOK
  <2> QED
    BY <2>1, <2>2, <2>3, <2>4, <2>5, <1>2 DEF InHand
<1>7. TakenAtWrite'
  <2>1. rs \cap given = {}
    BY <1>3 DEF TakenFromStarted
  <2> QED
    BY <1>1, <1>2, <2>1, SinkerFacts DEF TakenAtWrite, BetweenOK
<1>8. OutcomeTrue'
  BY <1>1, <1>2, SinkerFacts DEF OutcomeTrue, BetweenOK, Landed
<1>9. AnswerTrue'
  BY <1>2, <1>3 DEF AnswerTrue, BetweenOK, Landed
<1>10. TakenFromStarted'
  <2>1. \A r \in Rows : via[r] \in Sinkers => via'[r] = via[r]
    BY <1>2, <1>3
  <2> QED
    BY <1>2, <2>1, StartedStep
<1> QED
  BY <1>4, <1>5, <1>6, <1>7, <1>8, <1>9, <1>10 DEF Linked

\* A Sink gets on with start and prepare, which the writer sees nothing of.
LEMMA AdvanceStep ==
    ASSUME PInv, Steady, NEW c \in Callers, at[c] \notin {"idle", "write", "wait"},
           NEW p, p \notin {"idle", "wait"}, at' = [at EXCEPT ![c] = p],
           UNCHANGED <<sinker, rows, between, op, pc, batch, given>>
    PROVE  Linked'
<1> USE DEF PInv, Between, between
<1>0. at'[c] = p /\ \A d \in Callers : d # c => at'[d] = at[d]
  BY SinkerFacts
<1>1. op[c] = "none" /\ pc[c] = "idle"
  BY DEF Nested, IInv, TypeOK, Ops, CallShape
<1>2. BetweenOK'
  BY DEF BetweenOK
<1>3. Nested'
  BY <1>0, <1>1 DEF Nested, Steady
<1>4. InHand'
  BY <1>0 DEF InHand
<1>5. TakenAtWrite'
  BY <1>0, <1>1 DEF TakenAtWrite
<1>6. OutcomeTrue'
  BY <1>0 DEF OutcomeTrue, BetweenOK, Steady
<1>7. AnswerTrue'
  BY DEF AnswerTrue, Steady
<1>8. TakenFromStarted'
  BY StartedStep
<1> QED
  BY <1>2, <1>3, <1>4, <1>5, <1>6, <1>7, <1>8 DEF Linked

\* A Sink's rows arrive at the writer, which goes on to submit.
LEMMA ArriveStep ==
    ASSUME PInv, Steady, NEW c \in Callers, SinkWrites(c)
    PROVE  Linked'
<1> USE DEF PInv, Between
<1>1. at[c] = "write" /\ UNCHANGED <<sinks, between>> /\ given' = given \cup handed[c]
  BY DEF SinkWrites, WriteDirect, WriteFills, TakeRows
<1>2. OthersStay(c) /\ pc'[c] = "encode"
  BY DEF SinkWrites, WriteDirect, WriteFills, Enter, OthersStay, IInv, TypeOK
<1>3. \/ op'[c] = "direct" /\ batch'[c] = handed[c] /\ flushRows = 0
      \/ op'[c] = "write" /\ flushRows > 0
  BY DEF SinkWrites, WriteDirect, WriteFills, Enter, IInv, TypeOK
<1>4. \A d \in Callers : d # c => handed[d] \cap handed[c] = {}
  BY DEF InHand
<1>5. BetweenOK' /\ InHand'
  BY <1>1 DEF BetweenOK, InHand, sinks, between
<1>6. Nested'
  BY <1>1, <1>2, <1>3 DEF Nested, OthersStay, Steady, sinks, between
<1>7. TakenAtWrite'
  BY <1>1, <1>2, <1>4 DEF TakenAtWrite, OthersStay, sinks, between
<1>8. OutcomeTrue'
  BY <1>1 DEF OutcomeTrue, BetweenOK, Steady, sinks, between
<1>9. AnswerTrue'
  BY <1>1 DEF AnswerTrue, InHand, Steady, between
<1>10. TakenFromStarted'
  BY <1>1, StartedStep DEF between
<1> QED
  BY <1>5, <1>6, <1>7, <1>8, <1>9, <1>10 DEF Linked

\* The writer goes on with no Sink coming or leaving: FlushRows and Close, load, BigQuery.
LEMMA WriterAloneStep ==
    ASSUME PInv, IInv', Steady, UNCHANGED <<sinks, between, given>>,
           \A d \in Callers :
              \/ op'[d] = op[d] /\ batch'[d] = batch[d]
              \/ at[d] = "idle" /\ op'[d] \notin {"direct", "write"}
    PROVE  Linked'
<1> USE DEF PInv, Between, sinks, between
<1>1. BetweenOK' /\ InHand'
  BY DEF BetweenOK, InHand
<1>2. Nested'
  BY DEF Nested, Steady
<1>3. TakenAtWrite'
  <2>1. \A d \in Callers : (pc[d] = "idle" <=> op[d] = "none") /\ (pc'[d] = "idle" <=> op'[d] = "none")
    BY DEF IInv, CallShape
  <2> QED
    BY <2>1 DEF TakenAtWrite, InHand
<1>4. OutcomeTrue'
  BY DEF OutcomeTrue, BetweenOK, Steady
<1>5. AnswerTrue'
  BY DEF AnswerTrue, Steady
<1>6. TakenFromStarted'
  BY StartedStep
<1> QED
  BY <1>1, <1>2, <1>3, <1>4, <1>5, <1>6 DEF Linked

\* A Sink is over: its goroutine is out of both components and the answer a is true of
\* its rows, which the writer may have taken in this very step.
LEMMA EndStep ==
    ASSUME PInv, Steady, NEW c \in Callers, NEW a \in Answers, Answered(c, a),
           at' = [at EXCEPT ![c] = "idle"],
           sinker' = [sinker EXCEPT ![c] = S!Nobody],
           rows' = [rows EXCEPT ![c] = 0],
           OthersStay(c), op'[c] = "none",
           given' = given \/ (at[c] = "write" /\ given' = given \cup handed[c]),
           a = "sunk" => handed[c] \subseteq given' /\ (flushRows = 0 => \A r \in handed[c] : Landed(r)'),
           a = "failed" => \A r \in handed[c] : reported'[r] = 1,
           a = "refused" => handed[c] \cap given' = {}
    PROVE  Linked'
<1> USE DEF PInv, Between
<1>1. /\ at'[c] = "idle" /\ sinker'[c] = S!Nobody /\ rows'[c] = 0
      /\ \A d \in Callers : d # c => at'[d] = at[d] /\ sinker'[d] = sinker[d] /\ rows'[d] = rows[d]
  BY SinkerFacts
<1>2. /\ handed'[c] = {}
      /\ \A d \in Callers : d # c => handed'[d] = handed[d] /\ outcome'[d] = outcome[d]
      /\ via' = via
  BY DEF Answered, BetweenOK
<1>3. \A r \in Rows : answer'[r] = IF r \in handed[c] THEN a ELSE answer[r]
  BY DEF Answered
<1>4. \A d \in Callers : d # c => handed[d] \cap handed[c] = {}
  BY DEF InHand
<1>5. BetweenOK'
  <2>1. 0 \in 0..Cardinality(Rows)
    BY RowsCounted
  <2>2. Pending \in [n : 0..Cardinality(Rows), err : BOOLEAN]
    BY <2>1 DEF Pending
  <2> QED
    BY <2>2 DEF Answered, BetweenOK
<1>6. Nested'
  BY <1>1, <1>2 DEF Nested, OthersStay, Steady
<1>7. InHand'
  <2>1. \A d \in Callers : d # c => \A r \in handed[d] : r \in Rows /\ answer'[r] = answer[r]
    BY <1>3, <1>4 DEF BetweenOK
  <2>2. rows'[c] = Cardinality(handed'[c])
    BY <1>1, <1>2, RowsCounted
  <2>3. \A d, e \in Callers : d # e => handed'[d] \cap handed'[e] = {}
    BY <1>2 DEF InHand
  <2>4. ASSUME NEW d \in Callers, d # c
        PROVE  /\ rows'[d] = Cardinality(handed'[d])
               /\ at'[d] = "idle" => handed'[d] = {}
               /\ \A r \in handed'[d] : via'[r] = sinker'[d] /\ answer'[r] = "none"
    BY <1>1, <1>2, <2>1, <2>4 DEF InHand
  <2> QED
    BY <1>2, <2>2, <2>3, <2>4 DEF InHand
<1>8. TakenAtWrite'
  BY <1>1, <1>2, <1>4 DEF TakenAtWrite, OthersStay
<1>9. OutcomeTrue'
  BY <1>1, <1>2 DEF OutcomeTrue, BetweenOK, Steady
<1>10. AnswerTrue'
  <2>1. \A r \in handed[c] : via[r] # S!Nobody
    BY NobodyAssumption, SinkerFacts DEF InHand
  <2>2. \A r \in Rows \ handed[c] : r \in given' <=> r \in given
    OBVIOUS
  <2> QED
    BY <1>2, <1>3, <2>1, <2>2 DEF AnswerTrue, Steady
<1>11. TakenFromStarted'
  BY <1>2, StartedStep
<1> QED
  BY <1>5, <1>6, <1>7, <1>8, <1>9, <1>10, <1>11 DEF Linked

\* WriteRows returns to a Sink that will wait: the writer has the rows, and the result
\* is an error that named them or the count of them all.
LEMMA ResolvedStep ==
    ASSUME PInv, Steady, NEW c \in Callers, at[c] = "write", at' = [at EXCEPT ![c] = "wait"],
           UNCHANGED <<sinker, rows, handed, via, answer>>,
           OthersStay(c), op'[c] = "none", handed[c] \subseteq given',
           given' = given \/ given' = given \cup handed[c],
           NEW n, NEW err \in BOOLEAN, outcome' = [outcome EXCEPT ![c] = [n |-> n, err |-> err]],
           IF err
           THEN n = 0 /\ \A r \in handed[c] : reported'[r] = 1
           ELSE n = Cardinality(handed[c]) /\ (flushRows = 0 => \A r \in handed[c] : Landed(r)')
    PROVE  Linked'
<1> USE DEF PInv, Between
<1>1. at'[c] = "wait" /\ \A d \in Callers : d # c => at'[d] = at[d]
  BY SinkerFacts
<1>2. \A d \in Callers : d # c => handed[d] \cap handed[c] = {}
  BY DEF InHand
<1>3. outcome'[c].n = n /\ outcome'[c].err = err /\ \A d \in Callers : d # c => outcome'[d] = outcome[d]
  BY DEF BetweenOK
<1>4. BetweenOK'
  <2>1. n \in 0..Cardinality(Rows)
    BY RowsCounted DEF BetweenOK
  <2> QED
    BY <2>1 DEF BetweenOK
<1>5. Nested'
  BY <1>1 DEF Nested, OthersStay, Steady
<1>6. InHand'
  BY <1>1 DEF InHand
<1>7. TakenAtWrite'
  BY <1>1, <1>2 DEF TakenAtWrite, OthersStay
<1>8. OutcomeTrue'
  <2>1. ASSUME NEW d \in Callers, at'[d] = "wait", d # c
        PROVE  IF outcome'[d].err
               THEN outcome'[d].n = 0 /\ \A r \in handed'[d] : reported'[r] = 1
               ELSE /\ outcome'[d].n = Cardinality(handed'[d])
                    /\ flushRows' = 0 => \A r \in handed'[d] : Landed(r)'
    BY <1>1, <1>3, <2>1 DEF OutcomeTrue, BetweenOK, Steady
  <2> QED
    BY <1>3, <2>1 DEF OutcomeTrue, Steady
<1>9. AnswerTrue'
  <2>1. \A r \in Rows : answer[r] = "refused" => r \notin handed[c]
    BY DEF InHand
  <2> QED
    BY <2>1 DEF AnswerTrue, Steady
<1>10. TakenFromStarted'
  BY StartedStep
<1> QED
  BY <1>4, <1>5, <1>6, <1>7, <1>8, <1>9, <1>10 DEF Linked

-----------------------------------------------------------------------------
(* Every action is of one of these kinds *)

LEMMA SinkReturns ==
    ASSUME NEW c, NEW n, NEW err, S!Return(c, n, err)
    PROVE  /\ at' = [at EXCEPT ![c] = "idle"]
           /\ sinker' = [sinker EXCEPT ![c] = S!Nobody]
           /\ rows' = [rows EXCEPT ![c] = 0]
BY DEF S!Return

LEMMA Stays ==
    ASSUME UNCHANGED vars
    PROVE  UNCHANGED <<op, pc, batch, given>> /\ \A c \in Callers : OthersStay(c)
BY DEF vars, locals, history, OthersStay

\* A Sink that ends before the writer has its rows is refused.
LEMMA RefusedStep ==
    ASSUME PInv, Steady, NEW c \in Callers, at[c] # "wait", op[c] = "none", UNCHANGED vars,
           at' = [at EXCEPT ![c] = "idle"],
           sinker' = [sinker EXCEPT ![c] = S!Nobody],
           rows' = [rows EXCEPT ![c] = 0],
           Answered(c, "refused")
    PROVE  Linked'
<1>1. pc[c] = "idle"
  BY DEF PInv, IInv, CallShape
<1>2. handed[c] \cap given' = {} /\ given' = given /\ op'[c] = "none" /\ OthersStay(c)
  BY <1>1, Stays DEF PInv, Between, TakenAtWrite
<1>3. "refused" \in Answers
  BY DEF Answers
<1> QED
  BY <1>2, <1>3, EndStep

LEMMA RunsStep ==
    ASSUME PInv, Steady, NEW c \in Callers, SinkRuns(c)
    PROVE  Linked'
<1>1. /\ at[c] \in {"start", "migrate", "started", "prepare"}
      /\ UNCHANGED vars
  BY DEF SinkRuns, S!OnceBegin, S!OnceDone, S!StartReturns, S!Prepare, S!Migrate
<1>2. op[c] = "none"
  BY <1>1 DEF PInv, Between, Nested, IInv, TypeOK, Ops
<1>3. \/ \E p \in {"migrate", "bind", "started", "prepare", "write"} : S!Goto(c, p)
      \/ \E n, err : S!Return(c, n, err)
  <2>1. CASE S!StartReturns(c)
    <3>1. CASE S!StartFailed(sinker[c])
      BY <2>1, <3>1 DEF S!StartReturns
    <3>2. CASE ~S!StartFailed(sinker[c]) /\ rows[c] = 0
      BY <2>1, <3>2 DEF S!StartReturns
    <3>3. CASE ~S!StartFailed(sinker[c]) /\ rows[c] # 0
      BY <2>1, <3>3 DEF S!StartReturns
    <3> QED
      BY <3>1, <3>2, <3>3
  <2>2. CASE S!OnceBegin(c) \/ S!OnceDone(c)
    <3>1. S!Goto(c, "migrate") \/ S!Goto(c, "bind") \/ S!Goto(c, "started")
      BY <2>2 DEF S!OnceBegin, S!OnceDone
    <3> QED
      BY <3>1
  <2>3. CASE S!Prepare(c)
    BY <2>3 DEF S!Prepare
  <2>4. ASSUME NEW ok \in BOOLEAN, S!Migrate(c, ok)
        PROVE  \E p \in {"migrate", "bind", "started", "prepare", "write"} : S!Goto(c, p)
    BY <2>4 DEF S!Migrate
  <2> QED
    BY <2>1, <2>2, <2>3, <2>4 DEF SinkRuns
<1>4. ASSUME NEW p \in {"migrate", "bind", "started", "prepare", "write"}, S!Goto(c, p)
      PROVE  Linked'
  <2>1. at' = [at EXCEPT ![c] = p] /\ UNCHANGED <<sinker, rows>>
    BY <1>4 DEF S!Goto
  <2>2. at'[c] = p
    BY <2>1, SinkerFacts DEF PInv
  <2>3. UNCHANGED between
    BY <2>2 DEF SinkRuns
  <2> QED
    BY <1>1, <2>1, <2>3, Stays, AdvanceStep
<1>5. ASSUME NEW n, NEW err, S!Return(c, n, err)
      PROVE  Linked'
  <2>1. at'[c] = "idle"
    BY <1>5, SinkReturns, SinkerFacts DEF PInv
  <2>2. Answered(c, "refused")
    BY <2>1 DEF SinkRuns
  <2> QED
    BY <1>1, <1>2, <1>5, <2>2, SinkReturns, RefusedStep
<1> QED
  BY <1>3, <1>4, <1>5

LEMMA BindsStep ==
    ASSUME PInv, Steady, NEW c \in Callers, SinkBinds(c)
    PROVE  Linked'
<1>1. at[c] = "bind" /\ at' = [at EXCEPT ![c] = "started"] /\ UNCHANGED <<sinker, rows, between>>
  BY DEF SinkBinds, S!BindSchema, S!Goto
<1>2. UNCHANGED <<op, pc, batch, given>>
  BY DEF SinkBinds, BindSchema, vars, locals, history
<1> QED
  BY <1>1, <1>2, AdvanceStep

LEMMA RefusesStep ==
    ASSUME PInv, Steady, NEW c \in Callers, SinkRefused(c)
    PROVE  Linked'
<1>1. at[c] = "write" /\ pc[c] = "idle" /\ UNCHANGED vars /\ Answered(c, "refused")
  BY DEF SinkRefused
<1>2. op[c] = "none"
  BY <1>1 DEF PInv, IInv, CallShape
<1>3. S!Return(c, 0, TRUE)
  BY DEF SinkRefused, S!WriteRowsFails
<1> QED
  BY <1>1, <1>2, <1>3, SinkReturns, RefusedStep

LEMMA WaitsStep ==
    ASSUME PInv, Steady, NEW c \in Callers, SinkWaits(c)
    PROVE  Linked'
<1> USE DEF PInv, Between
<1>1. /\ at[c] = "wait" /\ UNCHANGED vars
      /\ S!Return(c, outcome[c].n, outcome[c].err \/ outcome[c].n # rows[c])
  BY DEF SinkWaits, S!Wait, S!Short
<1>2. op[c] = "none" /\ op'[c] = "none" /\ given' = given /\ OthersStay(c)
  BY <1>1, Stays DEF Nested, IInv, TypeOK, Ops
<1>3. result'[c].err = (outcome[c].err \/ outcome[c].n # rows[c])
  BY <1>1 DEF S!Return, SP!IInv, SP!TypeOK
<1>4. handed[c] \subseteq given'
  BY <1>1, <1>2 DEF TakenAtWrite
<1>5. CASE outcome[c].err
  <2>1. Answered(c, "failed")
    BY <1>3, <1>5 DEF SinkWaits
  <2>2. \A r \in handed[c] : reported'[r] = 1
    BY <1>1, <1>5 DEF OutcomeTrue, Steady, BetweenOK
  <2> QED
    BY <1>1, <1>2, <2>1, <2>2, SinkReturns, EndStep DEF Answers
<1>6. CASE ~outcome[c].err
  <2>1. outcome[c].n = rows[c]
    BY <1>1, <1>6 DEF OutcomeTrue, InHand
  <2>2. Answered(c, "sunk")
    BY <1>3, <1>6, <2>1 DEF SinkWaits
  <2>3. flushRows = 0 => \A r \in handed[c] : Landed(r)'
    BY <1>1, <1>6 DEF OutcomeTrue, Steady, BetweenOK
  <2> QED
    BY <1>1, <1>2, <1>4, <2>2, <2>3, SinkReturns, EndStep DEF Answers
<1> QED
  BY <1>5, <1>6

\* WriteRows returns (n, err) to its Sink, with the writer's part of the step given.
LEMMA ReturnedStep ==
    ASSUME PInv, Steady, NEW c \in Callers, NEW n, NEW err \in BOOLEAN, Returned(c, n, err),
           OthersStay(c), op'[c] = "none", handed[c] \subseteq given',
           given' = given \/ given' = given \cup handed[c],
           IF err
           THEN n = 0 /\ \A r \in handed[c] : reported'[r] = 1
           ELSE n = Cardinality(handed[c]) /\ (flushRows = 0 => \A r \in handed[c] : Landed(r)')
    PROVE  Linked'
<1>1. at[c] = "write"
  BY DEF Returned, S!WriteRows
<1>2. CASE async[c]
  <2>1. S!Return(c, 0, FALSE) /\ Answered(c, "passed")
    BY <1>2 DEF Returned, S!WriteRows
  <2>2. "passed" \in Answers
    BY DEF Answers
  <2> QED
    BY <1>1, <2>1, <2>2, SinkReturns, EndStep
<1>3. CASE ~async[c]
  <2>1. S!Goto(c, "wait")
    BY <1>3 DEF Returned, S!WriteRows
  <2>2. /\ outcome' = [outcome EXCEPT ![c] = [n |-> n, err |-> err]]
        /\ UNCHANGED <<handed, via, answer>>
    BY <1>3 DEF Returned
  <2> QED
    BY <1>1, <2>1, <2>2, ResolvedStep DEF S!Goto
<1> QED
  BY <1>2, <1>3

LEMMA LeavesAlone ==
    ASSUME PInv, NEW c \in Callers, Leave(c)
    PROVE  op'[c] = "none" /\ OthersStay(c)
BY DEF Leave, OthersStay, PInv, IInv, TypeOK

LEMMA BufferedStep ==
    ASSUME PInv, Steady, NEW c \in Callers, SinkBuffered(c)
    PROVE  Linked'
<1>1. /\ flushRows > 0 /\ pc[c] = "idle" /\ given' = given \cup handed[c] /\ UNCHANGED locals
      /\ Returned(c, Cardinality(handed[c]), FALSE)
  BY DEF SinkBuffered, WriteBuffered, TakeRows
<1>2. op'[c] = "none" /\ OthersStay(c)
  BY <1>1 DEF locals, OthersStay, PInv, IInv, CallShape
<1>3. flushRows # 0
  BY <1>1 DEF PInv, IInv, TypeOK
<1> QED
  BY <1>1, <1>2, <1>3, ReturnedStep

LEMMA SubmittedStep ==
    ASSUME PInv, Steady, NEW c \in Callers, SinkSubmitted(c)
    PROVE  Linked'
<1>1. /\ op[c] = "write" /\ pc[c] \in {"ok", "recorded"} /\ Leave(c) /\ given' = given
      /\ Returned(c, Cardinality(handed[c]), FALSE)
  BY DEF SinkSubmitted, WriteReturns, history
<1>2. flushRows # 0 /\ handed[c] \subseteq given'
  BY <1>1 DEF PInv, Between, Nested, TakenAtWrite
<1> QED
  BY <1>1, <1>2, LeavesAlone, ReturnedStep

LEMMA DirectStep ==
    ASSUME PInv, Steady, NEW c \in Callers, SinkDirect(c)
    PROVE  Linked'
<1>1. op[c] = "direct" /\ pc[c] \in {"ok", "failed"} /\ Leave(c)
  BY DEF SinkDirect, DirectReturns
<1>2. given' = given
  BY DEF SinkDirect, DirectReturns, Tell
<1>3. handed[c] \subseteq given' /\ batch[c] = handed[c] /\ handed[c] \subseteq Rows
  BY <1>1, <1>2 DEF PInv, Between, Nested, TakenAtWrite, BetweenOK
<1>4. CASE pc[c] = "failed"
  <2>1. Returned(c, 0, TRUE)
    <3>1. DirectErr(c) = TRUE
      BY <1>4 DEF DirectErr
    <3> QED
      BY <3>1 DEF SinkDirect
  <2>2. Report(batch[c])
    BY <1>4 DEF SinkDirect, DirectReturns, Tell
  <2>3. \A r \in batch[c] : reported[r] = 0
    BY <1>4 DEF PInv, Ownership, Open, Unsaid, Carries
  <2>4. \A r \in handed[c] : reported'[r] = 1
    BY <1>3, <2>2, <2>3 DEF Report
  <2> QED
    BY <1>1, <1>2, <1>3, <2>1, <2>4, LeavesAlone, ReturnedStep
<1>5. CASE pc[c] = "ok"
  <2>1. Returned(c, Cardinality(handed[c]), FALSE)
    <3>1. DirectErr(c) = FALSE
      BY <1>5 DEF DirectErr
    <3> QED
      BY <3>1 DEF SinkDirect
  <2>2. \A r \in handed[c] : Landed(r)'
    BY <1>3, <1>5 DEF PInv, IInv, CallShape, Steady
  <2> QED
    BY <1>1, <1>2, <1>3, <2>1, <2>2, LeavesAlone, ReturnedStep
<1> QED
  BY <1>1, <1>4, <1>5

LEMMA WriterActionsStep ==
    ASSUME PInv, IInv', Steady,
           \/ \E c \in Callers : WriterBegins(c) \/ WriterRuns(c)
           \/ BigQueryFinishes
    PROVE  Linked'
<1> USE DEF PInv, IInv, TypeOK
<1>1. ASSUME NEW c \in Callers, WriterBegins(c)
      PROVE  Linked'
  <2>1. UNCHANGED <<sinks, between, given>> /\ at[c] = "idle"
    BY <1>1 DEF WriterBegins, Free, FlushRows, CloseBegin, history
  <2>2. op'[c] \in {"flush", "close"} /\ OthersStay(c)
    BY <1>1 DEF WriterBegins, FlushRows, CloseBegin, Enter, OthersStay
  <2> QED
    BY <2>1, <2>2, WriterAloneStep DEF OthersStay
<1>2. ASSUME NEW c \in Callers, WriterRuns(c)
      PROVE  Linked'
  <2>1. UNCHANGED <<sinks, between, given>>
    BY <1>2 DEF WriterRuns, CloseDrained, CloseCollect, Load, Encode, Submit, SubmitFails, WaitReturns,
      WaitFails, Backoff, RecordPending, FlushReturns, CloseReturns, Tell, history
  <2>2. CASE FlushReturns(c) \/ CloseReturns(c)
    <3>1. at[c] = "idle"
      BY <2>2 DEF FlushReturns, CloseReturns, Between, Nested
    <3>2. Leave(c)
      BY <2>2 DEF FlushReturns, CloseReturns
    <3> QED
      BY <2>1, <3>1, <3>2, LeavesAlone, WriterAloneStep DEF OthersStay
  <2>3. CASE CloseDrained(c) \/ CloseCollect(c) \/ Load(c) \/ RecordPending(c)
    <3>1. UNCHANGED <<op, batch>>
      BY <2>3 DEF CloseDrained, CloseCollect, Load, Encode, Submit, SubmitFails, WaitReturns,
        WaitFails, Backoff, RecordPending, Goto, AttemptFailed
    <3> QED
      BY <2>1, <3>1, WriterAloneStep
  <2> QED
    BY <1>2, <2>2, <2>3 DEF WriterRuns
<1>3. CASE BigQueryFinishes
  <2>1. UNCHANGED <<sinks, between, given, op, batch>>
    BY <1>3 DEF BigQueryFinishes, JobFinishes, locals, history
  <2> QED
    BY <2>1, WriterAloneStep
<1> QED
  BY <1>1, <1>2, <1>3

LEMMA PipelineStep == PInv /\ [PipelineNext]_pipeline => PInv'
<1> SUFFICES ASSUME PInv, [PipelineNext]_pipeline PROVE PInv'
  OBVIOUS
<1>1. IInv' /\ Ownership' /\ SP!IInv' /\ NamedOnce' /\ Steady
  BY ComponentsStep
<1>2. Linked'
  <2>1. CASE UNCHANGED pipeline
    <3>1. UNCHANGED <<sinks, between, given, op, batch>>
      BY <2>1 DEF pipeline, vars, locals, history
    <3> QED
      BY <1>1, <3>1, WriterAloneStep
  <2>2. ASSUME NEW c \in Callers, NEW s \in Sinkers, NEW a \in BOOLEAN, NEW rs \in Batches,
               SinkBegins(c, s, a, rs)
        PROVE  Linked'
    BY <1>1, <2>2, BeginStep
  <2>3. ASSUME NEW c \in Callers, SinkRuns(c) \/ SinkBinds(c) \/ SinkRefused(c) \/ SinkWaits(c)
        PROVE  Linked'
    BY <1>1, <2>3, RunsStep, BindsStep, RefusesStep, WaitsStep
  <2>4. ASSUME NEW c \in Callers, SinkWrites(c) \/ SinkBuffered(c) \/ SinkSubmitted(c) \/ SinkDirect(c)
        PROVE  Linked'
    BY <1>1, <2>4, ArriveStep, BufferedStep, SubmittedStep, DirectStep
  <2>5. CASE (\E c \in Callers : WriterBegins(c) \/ WriterRuns(c)) \/ BigQueryFinishes
    BY <1>1, <2>5, WriterActionsStep
  <2> QED
    BY <2>1, <2>2, <2>3, <2>4, <2>5 DEF PipelineNext, Proceed
<1> QED
  BY <1>1, <1>2 DEF PInv, Between, Linked

LEMMA PipelineStart == PipelineInit => PInv
<1> SUFFICES ASSUME PipelineInit PROVE PInv
  OBVIOUS
<1> USE DEF PipelineInit
<1>1. IInv /\ Ownership
  BY InitIInv, InitOwnership
<1>2. SP!IInv
  <2>1. SP!Init
    BY DEF S!Init, SP!Init, S!Nobody, SP!Nobody, S!NoResult, SP!NoResult
  <2> QED
    BY <2>1, SinkerAssumed, SP!InitIInv
<1>3. BetweenOK
  <2>1. Pending \in [n : 0..Cardinality(Rows), err : BOOLEAN]
    BY RowsCounted DEF Pending
  <2> QED
    BY <2>1 DEF BetweenOK, Answers
<1>4. \A c \in Callers : handed[c] = {} /\ at[c] = "idle" /\ rows[c] = 0 /\ op[c] = "none"
  BY DEF Init, S!Init
<1>5. Nested /\ InHand /\ TakenAtWrite /\ OutcomeTrue
  BY <1>4, RowsCounted DEF Nested, InHand, TakenAtWrite, OutcomeTrue
<1>6. NamedOnce /\ AnswerTrue /\ TakenFromStarted
  BY DEF Init, NamedOnce, AnswerTrue, TakenFromStarted
<1> QED
  BY <1>1, <1>2, <1>3, <1>5, <1>6 DEF PInv, Between

-----------------------------------------------------------------------------
(* The results *)

\* PInv holds throughout.
THEOREM PipelineInductiveInvariant == PipelineSpec => []PInv
BY PipelineStart, PipelineStep, PTL DEF PipelineSpec

\* Under Sinkers and whoever flushes and closes it, the load job transport behaves as
\* LoadJobsWriter says, so what is proved of it alone holds of every row a Sink hands over.
THEOREM WriterInPipeline == PipelineSpec => Spec
<1>1. PipelineInit => Init
  BY DEF PipelineInit
<1>2. PInv /\ [PipelineNext]_pipeline => [Next]_vars
  BY WriterStep DEF PInv, Between
<1> QED
  BY <1>1, <1>2, PipelineInductiveInvariant, PTL DEF PipelineSpec, Spec

\* Over the load job transport Sinkers behave as Sinker says of any RowsWriter: what
\* the transport answers is among what Sinker was proved to cope with.
THEOREM SinkerInPipeline == PipelineSpec => S!Spec
<1>1. PipelineInit => S!Init
  BY DEF PipelineInit
<1>2. PInv /\ [PipelineNext]_pipeline => [S!Next]_(S!vars)
  BY SinkerStep DEF PInv, Between
<1> QED
  BY <1>1, <1>2, PipelineInductiveInvariant, PTL DEF PipelineSpec, S!Spec

\* Sink, WriteRows and load together: what a Sink is returned is true of its rows in
\* the table, whatever other goroutines sink, flush and close meanwhile.
THEOREM SinkIsTruthful == PipelineSpec => []SinkTruthful
<1>1. PInv => SinkTruthful
  <2> SUFFICES ASSUME PInv, NEW r \in Rows
               PROVE  /\ answer[r] = "sunk" /\ flushRows = 0 => Landed(r)
                      /\ answer[r] = "sunk" /\ flushRows > 0 =>
                           \/ Landed(r) \/ reported[r] = 1
                           \/ r \in buf \cup pending \/ \E c \in Callers : r \in Carries(c)
                      /\ answer[r] = "failed" => reported[r] = 1 /\ r \notin delivered
                      /\ answer[r] = "refused" => r \notin given /\ ~Landed(r)
    BY DEF SinkTruthful
  <2>1. answer[r] = "sunk" => r \in given /\ (flushRows = 0 => Landed(r))
    BY DEF PInv, Between, AnswerTrue
  <2>2. reported[r] = 0 \/ (reported[r] = 1 /\ r \notin delivered)
    BY DEF PInv, Between, NamedOnce
  <2>3. r \in given => \/ r \in buf \cup pending \/ \E c \in Callers : r \in Carries(c)
                       \/ Landed(r) \/ reported[r] > 0
    BY DEF PInv, IInv, AccountedFor
  <2>4. Landed(r) => r \in given
    BY DEF PInv, Ownership, FromGiven, Landed
  <2>5. (answer[r] = "failed" => reported[r] = 1) /\ (answer[r] = "refused" => r \notin given)
    BY DEF PInv, Between, AnswerTrue
  <2> QED
    BY <2>1, <2>2, <2>3, <2>4, <2>5
<1> QED
  BY <1>1, PipelineInductiveInvariant, PTL

\* send, start and BindSchema with load: every row of every load job is of the Sinker
\* the writer is bound to, whose start, migration included, succeeded.
THEOREM JobsCarryOwnSchema == PipelineSpec => []JobsUnderOwnSchema
<1>1. PInv => JobsUnderOwnSchema
  <2> SUFFICES ASSUME PInv, NEW j \in running \cup succeeded, NEW r \in j.rows
               PROVE  via[r] = boundTo /\ ~startErr[via[r]] /\ (api => migrations[via[r]] = 1)
    BY DEF JobsUnderOwnSchema
  <2>1. r \in given
    BY DEF PInv, Ownership, FromGiven
  <2>2. via[r] \in Sinkers /\ once[via[r]] = "done" /\ ~startErr[via[r]]
    BY <2>1 DEF PInv, Between, TakenFromStarted
  <2> QED
    BY <2>2 DEF PInv, SP!IInv, SP!Settled
<1> QED
  BY <1>1, PipelineInductiveInvariant, PTL
=============================================================================
