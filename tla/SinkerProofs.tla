----------------------------- MODULE SinkerProofs -----------------------------
(***************************************************************************)
(* Proofs about Sinker, for any goroutines, Sinkers and batch sizes.       *)
(*                                                                         *)
(* StartedOnce and OwnSchema are not inductive by themselves.  They follow *)
(* from what once, startErr, migrations and boundTo say about each other:  *)
(* a Sinker whose start is not over has neither failed nor bound, and one  *)
(* whose start is over and did not fail is the one the writer is bound to. *)
(***************************************************************************)
EXTENDS Sinker, TLAPS

InOnce(c) == pc[c] \in {"migrate", "bind"}
PastStart(c) == pc[c] \in {"prepare", "write", "wait"}

\* A call in progress is a call on some Sinker.
Seated == \A c \in Callers : pc[c] # "idle" => sinker[c] \in Sinkers

\* Who is inside Do holds the once, and has the work that remains ahead.
Holding ==
    \A c \in Callers :
        /\ InOnce(c) => once[sinker[c]] = "running"
        /\ pc[c] = "migrate" => api /\ migrations[sinker[c]] = 0
        /\ pc[c] = "bind" => (api => migrations[sinker[c]] = 1)

\* Before its start is over a Sinker has left no trace; afterwards startErr
\* tells whether it is the one the writer is bound to.
Settled ==
    \A s \in Sinkers :
        /\ once[s] = "new" => migrations[s] = 0
        /\ once[s] # "done" => ~startErr[s] /\ boundTo # s
        /\ once[s] = "done" /\ ~startErr[s] => boundTo = s /\ (api => migrations[s] = 1)

\* Nobody gets past start on a Sinker whose start failed.
Admitted == \A c \in Callers : PastStart(c) => ~startErr[sinker[c]]

IInv ==
    /\ TypeOK /\ Seated /\ Holding /\ Settled /\ Admitted
    /\ StartedOnce /\ OwnSchema

-----------------------------------------------------------------------------
(* One lemma per action *)

LEMMA InitIInv == Init => IInv
BY SinkerAssumption DEF Init, IInv, TypeOK, Seated, Holding, Settled, Admitted, StartedOnce, OwnSchema,
    InOnce, PastStart, NoResult, PCs

LEMMA EnterStep ==
    ASSUME IInv, UNCHANGED <<api, starting, writes>>,
           NEW c \in Callers, NEW s \in Sinkers, NEW a \in BOOLEAN, NEW b \in BOOLEAN,
           NEW k \in 0..MaxRows, Enter(c, s, a, k, b)
    PROVE  IInv'
<1> USE SinkerAssumption DEF IInv, Enter, starting
<1>1. TypeOK'
  BY DEF TypeOK, PCs, NoResult
<1>2. Seated' /\ Holding' /\ Settled' /\ Admitted'
  BY DEF TypeOK, Seated, Holding, Settled, Admitted, InOnce, PastStart
<1>3. StartedOnce' /\ OwnSchema'
  BY DEF TypeOK, StartedOnce, OwnSchema
<1> QED
  BY <1>1, <1>2, <1>3

LEMMA OnceBeginStep ==
    ASSUME IInv, UNCHANGED api, NEW c \in Callers, OnceBegin(c)
    PROVE  IInv'
<1> USE SinkerAssumption DEF IInv, OnceBegin, Goto, First
<1>1. TypeOK'
  BY DEF TypeOK, PCs
<1>2. Seated' /\ Holding' /\ Settled' /\ Admitted'
  BY DEF TypeOK, Seated, Holding, Settled, Admitted, InOnce, PastStart
<1>3. StartedOnce' /\ OwnSchema'
  BY DEF TypeOK, StartedOnce, OwnSchema, Seated, Holding, InOnce
<1> QED
  BY <1>1, <1>2, <1>3

LEMMA OnceDoneStep ==
    ASSUME IInv, UNCHANGED api, NEW c \in Callers, OnceDone(c)
    PROVE  IInv'
<1> USE SinkerAssumption DEF IInv, OnceDone, Goto, starting
<1>1. TypeOK'
  BY DEF TypeOK, PCs
<1>2. Seated' /\ Holding' /\ Settled' /\ Admitted'
  BY DEF TypeOK, Seated, Holding, Settled, Admitted, InOnce, PastStart
<1>3. StartedOnce' /\ OwnSchema'
  BY DEF TypeOK, StartedOnce, OwnSchema
<1> QED
  BY <1>1, <1>2, <1>3

LEMMA MigrateStep ==
    ASSUME IInv, UNCHANGED api, NEW c \in Callers, NEW ok \in BOOLEAN, Migrate(c, ok)
    PROVE  IInv'
<1> USE SinkerAssumption DEF IInv, Migrate, Goto, Finished
<1> DEFINE s == sinker[c]
<1>0. s \in Sinkers /\ migrations[s] = 0 /\ api /\ once[s] = "running"
  BY DEF Seated, Holding, InOnce
<1>1. TypeOK'
  <2>1. migrations' \in [Sinkers -> {0, 1}]
    BY <1>0 DEF TypeOK
  <2>2. CASE ok
    BY <1>0, <2>1, <2>2 DEF TypeOK, PCs
  <2>3. CASE ~ok
    BY <1>0, <2>1, <2>3 DEF TypeOK, PCs
  <2> QED
    BY <2>2, <2>3
<1>2. Seated' /\ Admitted'
  BY <1>0 DEF TypeOK, Seated, Admitted, StartedOnce, PastStart
<1>3. Holding'
  BY <1>0 DEF TypeOK, Seated, Holding, StartedOnce, InOnce
<1>4. Settled'
  BY <1>0 DEF TypeOK, Settled
<1>5. StartedOnce'
  BY <1>0 DEF TypeOK, StartedOnce, Seated
<1>6. OwnSchema'
  BY <1>0 DEF TypeOK, OwnSchema
<1> QED
  BY <1>1, <1>2, <1>3, <1>4, <1>5, <1>6

LEMMA BindSchemaStep ==
    ASSUME IInv, UNCHANGED api, NEW c \in Callers, NEW ok \in BOOLEAN, BindSchema(c, ok)
    PROVE  IInv'
<1> USE SinkerAssumption DEF IInv, BindSchema, Goto, Finished, Bindable
<1> DEFINE s == sinker[c]
<1>0. s \in Sinkers /\ (api => migrations[s] = 1) /\ once[s] = "running"
  BY DEF Seated, Holding, InOnce
<1>1. TypeOK'
  BY <1>0 DEF TypeOK, PCs
<1>2. Seated' /\ Admitted'
  BY <1>0 DEF TypeOK, Seated, Admitted, StartedOnce, PastStart
<1>3. Holding'
  BY <1>0 DEF TypeOK, Seated, Holding, StartedOnce, InOnce
<1>4. Settled'
  BY <1>0 DEF TypeOK, Settled
<1>5. StartedOnce'
  BY <1>0 DEF TypeOK, StartedOnce, Seated
<1>6. OwnSchema'
  BY <1>0 DEF TypeOK, OwnSchema
<1> QED
  BY <1>1, <1>2, <1>3, <1>4, <1>5, <1>6

\* The writer either gets nothing in this step or the batch of c, which is past
\* start on the Sinker the writer is bound to.
MayWrite(c) ==
    \/ writes' = writes
    \/ pc[c] = "write" /\ writes' = writes \cup {<<sinker[c], boundTo>>}

LEMMA WritesOwnSchema ==
    ASSUME IInv, UNCHANGED <<api, starting>>, NEW c \in Callers, MayWrite(c)
    PROVE  OwnSchema' /\ writes' \in SUBSET (Sinkers \X (Sinkers \cup {Nobody}))
<1> USE DEF IInv, starting
<1>1. CASE writes' = writes
  BY <1>1 DEF OwnSchema, TypeOK
<1>2. CASE pc[c] = "write" /\ writes' = writes \cup {<<sinker[c], boundTo>>}
  <2>1. /\ sinker[c] \in Sinkers /\ once[sinker[c]] = "done" /\ ~startErr[sinker[c]]
    BY <1>2 DEF Seated, StartedOnce, Admitted, PastStart
  <2>2. boundTo = sinker[c] /\ (api => migrations[sinker[c]] = 1)
    BY <2>1 DEF Settled
  <2> QED
    BY <1>2, <2>1, <2>2 DEF OwnSchema, TypeOK
<1> QED
  BY <1>1, <1>2 DEF MayWrite

\* A call that returns leaves the starts as they are.
LEMMA ReturnStep ==
    ASSUME IInv, UNCHANGED <<api, starting>>, NEW c \in Callers, MayWrite(c),
           NEW n \in 0..MaxRows + 1, NEW err \in BOOLEAN, Return(c, n, err)
    PROVE  IInv'
<1> USE SinkerAssumption DEF IInv, Return, starting
<1>1. OwnSchema' /\ writes' \in SUBSET (Sinkers \X (Sinkers \cup {Nobody}))
  BY WritesOwnSchema
<1>2. TypeOK'
  BY <1>1 DEF TypeOK, PCs
<1>3. Seated' /\ Holding' /\ Settled' /\ Admitted' /\ StartedOnce'
  BY DEF TypeOK, Seated, Holding, Settled, Admitted, StartedOnce, InOnce, PastStart
<1> QED
  BY <1>1, <1>2, <1>3

\* A call that goes on past start does so on a Sinker whose start succeeded.
LEMMA AdvanceStep ==
    ASSUME IInv, UNCHANGED <<api, starting, result>>, NEW c \in Callers, MayWrite(c),
           NEW p \in {"prepare", "write", "wait"}, Goto(c, p),
           pc[c] \in {"started", "prepare", "write"}, ~startErr[sinker[c]]
    PROVE  IInv'
<1> USE SinkerAssumption DEF IInv, Goto, starting
<1>1. OwnSchema' /\ writes' \in SUBSET (Sinkers \X (Sinkers \cup {Nobody}))
  BY WritesOwnSchema
<1>2. TypeOK'
  BY <1>1 DEF TypeOK, PCs
<1>3. Seated' /\ Holding' /\ Settled' /\ Admitted' /\ StartedOnce'
  BY DEF TypeOK, Seated, Holding, Settled, Admitted, StartedOnce, InOnce, PastStart
<1> QED
  BY <1>1, <1>2, <1>3

LEMMA ZeroCount == 0 \in 0..MaxRows + 1
BY SinkerAssumption

LEMMA StartReturnsStep ==
    ASSUME IInv, UNCHANGED api, NEW c \in Callers, StartReturns(c)
    PROVE  IInv'
<1>0. MayWrite(c) /\ pc[c] = "started" /\ UNCHANGED starting
  BY DEF StartReturns, MayWrite
<1>1. CASE StartFailed(sinker[c])
  <2>1. Return(c, 0, TRUE)
    BY <1>1 DEF StartReturns
  <2> QED
    BY <1>0, <2>1, ReturnStep, ZeroCount
<1>2. CASE ~StartFailed(sinker[c]) /\ rows[c] = 0
  <2>1. Return(c, 0, FALSE)
    BY <1>2 DEF StartReturns
  <2> QED
    BY <1>0, <1>2, <2>1, ReturnStep, ZeroCount
<1>3. CASE ~StartFailed(sinker[c]) /\ rows[c] # 0
  <2>1. Goto(c, "prepare") /\ UNCHANGED result
    BY <1>3 DEF StartReturns
  <2> QED
    BY <1>0, <1>3, <2>1, AdvanceStep DEF StartFailed
<1> QED
  BY <1>1, <1>2, <1>3

LEMMA SendStep ==
    ASSUME IInv, UNCHANGED api, NEW c \in Callers,
           \/ Prepare(c) \/ WriteRows(c)
           \/ \E ok \in BOOLEAN : WriteRowsFails(c, ok)
           \/ \E n \in 0..rows[c] + 1, err \in BOOLEAN : Wait(c, n, err)
    PROVE  IInv'
<1>0. PastStart(c) => ~startErr[sinker[c]]
  BY DEF IInv, Admitted
<1>1. CASE Prepare(c)
  <2>1. CASE Prepared(c)
    BY <1>0, <1>1, <2>1, AdvanceStep DEF Prepare, MayWrite, PastStart
  <2>2. CASE ~Prepared(c)
    BY <1>1, <2>2, ReturnStep, ZeroCount DEF Prepare, MayWrite
  <2> QED
    BY <2>1, <2>2
<1>2. CASE WriteRows(c)
  <2>1. CASE async[c]
    BY <1>2, <2>1, ReturnStep, ZeroCount DEF WriteRows, MayWrite
  <2>2. CASE ~async[c]
    BY <1>0, <1>2, <2>2, AdvanceStep DEF WriteRows, MayWrite, PastStart
  <2> QED
    BY <2>1, <2>2
<1>3. ASSUME NEW ok \in BOOLEAN, WriteRowsFails(c, ok) PROVE IInv'
  BY <1>3, ReturnStep, ZeroCount DEF WriteRowsFails, MayWrite
<1>4. ASSUME NEW n \in 0..rows[c] + 1, NEW err \in BOOLEAN, Wait(c, n, err) PROVE IInv'
  <2>1. n \in 0..MaxRows + 1
    BY SinkerAssumption DEF IInv, TypeOK
  <2>2. (err \/ Short(c, n)) \in BOOLEAN
    OBVIOUS
  <2>3. MayWrite(c) /\ UNCHANGED starting /\ Return(c, n, err \/ Short(c, n))
    BY <1>4 DEF Wait, MayWrite
  <2> QED
    BY <2>1, <2>2, <2>3, ReturnStep
<1> QED
  BY <1>1, <1>2, <1>3, <1>4

LEMMA NextStep == IInv /\ [Next]_vars => IInv'
<1> SUFFICES ASSUME IInv, [Next]_vars PROVE IInv'
  OBVIOUS
<1>1. CASE UNCHANGED vars
  BY <1>1 DEF IInv, vars, starting, call, TypeOK, Seated, Holding, Settled, Admitted, StartedOnce,
    OwnSchema, InOnce, PastStart
<1>2. CASE Next
  <2>0. UNCHANGED api
    BY <1>2 DEF Next
  <2>1. PICK c \in Callers :
          \/ \E s \in Sinkers :
              \/ Start(c, s)
              \/ \E a, b \in BOOLEAN, k \in 1..MaxRows : Send(c, s, a, k, b)
          \/ Continue(c)
    BY <1>2 DEF Next
  <2>2. ASSUME NEW s \in Sinkers, Start(c, s) PROVE IInv'
    <3>1. 0 \in 0..MaxRows
      BY SinkerAssumption
    <3> QED
      BY <2>0, <2>2, <3>1, EnterStep DEF Start
  <2>3. ASSUME NEW s \in Sinkers, NEW a \in BOOLEAN, NEW b \in BOOLEAN, NEW k \in 1..MaxRows,
               Send(c, s, a, k, b)
        PROVE  IInv'
    <3>1. k \in 0..MaxRows
      BY SinkerAssumption
    <3> QED
      BY <2>0, <2>3, <3>1, EnterStep DEF Send
  <2>4. ASSUME NEW ok \in BOOLEAN, Migrate(c, ok) \/ BindSchema(c, ok) PROVE IInv'
    BY <2>0, <2>4, MigrateStep, BindSchemaStep
  <2>5. CASE OnceBegin(c) \/ OnceDone(c) \/ StartReturns(c)
    BY <2>0, <2>5, OnceBeginStep, OnceDoneStep, StartReturnsStep
  <2>6. CASE Continue(c)
    BY <2>0, <2>4, <2>5, <2>6, SendStep DEF Continue
  <2> QED
    BY <2>1, <2>2, <2>3, <2>6
<1> QED
  BY <1>1, <1>2

-----------------------------------------------------------------------------
(* The results *)

\* IInv holds throughout.
THEOREM InductiveInvariant == Spec => []IInv
BY InitIInv, NextStep, PTL DEF Spec

\* Type correctness: among the rest, no Sinker's migration runs twice, and no
\* count a call is returned exceeds its batch by more than a miscounting writer's
\* one row.
THEOREM TypeCorrect == Spec => []TypeOK
<1>1. IInv => TypeOK
  BY DEF IInv
<1> QED
  BY <1>1, InductiveInvariant, PTL

\* startOnce in start: one goroutine does the work of start, and nobody passes
\* it while that is going on.
THEOREM OneStart == Spec => []StartedOnce
<1>1. IInv => StartedOnce
  BY DEF IInv
<1> QED
  BY <1>1, InductiveInvariant, PTL

\* send, start and BindSchema: rows reach the writer only through the Sinker it
\* is bound to, whose start, migration included, succeeded.
THEOREM WritesUnderOwnSchema == Spec => []OwnSchema
<1>1. IInv => OwnSchema
  BY DEF IInv
<1> QED
  BY <1>1, InductiveInvariant, PTL

LEMMA OutcomeStep == IInv /\ [Next]_vars => OutcomeFinal
<1> SUFFICES ASSUME IInv, [Next]_vars PROVE OutcomeFinal
  OBVIOUS
<1>1. CASE UNCHANGED vars
  BY <1>1 DEF OutcomeFinal, vars, starting
<1>2. CASE Next
  <2>1. PICK c \in Callers :
          \/ UNCHANGED starting
          \/ OnceBegin(c)
          \/ \E ok \in BOOLEAN : Migrate(c, ok) \/ BindSchema(c, ok)
    BY <1>2 DEF Next, Continue, Start, Send, OnceDone, StartReturns, Prepare, WriteRows,
      WriteRowsFails, Wait
  <2>2. CASE UNCHANGED starting
    BY <2>2 DEF OutcomeFinal, starting
  <2>3. CASE OnceBegin(c)
    BY <2>3 DEF OnceBegin, First, OutcomeFinal, IInv, TypeOK
  <2>4. ASSUME NEW ok \in BOOLEAN, Migrate(c, ok) \/ BindSchema(c, ok) PROVE OutcomeFinal
    <3>1. once[sinker[c]] = "running"
      BY <2>4 DEF IInv, Holding, InOnce, Migrate, BindSchema
    <3> QED
      BY <2>4, <3>1, SinkerAssumption
      DEF Migrate, BindSchema, Finished, Bindable, OutcomeFinal, IInv, TypeOK
  <2> QED
    BY <2>1, <2>2, <2>3, <2>4
<1> QED
  BY <1>1, <1>2

\* start and BindSchema: the outcome of a Sinker's start and the writer's schema are
\* final, because only the goroutine inside Do touches startErr and boundTo and nobody
\* enters it again.
THEOREM StartOutcomeFinal == Spec => StartFinal
<1>1. IInv /\ [Next]_vars => [OutcomeFinal]_vars
  BY OutcomeStep
<1> QED
  BY <1>1, InductiveInvariant, PTL DEF Spec, StartFinal
===============================================================================
