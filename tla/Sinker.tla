-------------------------------- MODULE Sinker --------------------------------
(***************************************************************************)
(* Sinker of bqsink.go: Start, Sink and SinkAsync called by several        *)
(* goroutines, on one or more Sinkers built over the same RowsWriter.      *)
(*                                                                         *)
(* The migration is the step Migration models in full; here it succeeds or *)
(* fails.  The writer is any RowsWriter, third-party ones included: it     *)
(* takes one schema, and a WriteRows it accepts settles with some count    *)
(* and with or without an error.                                           *)
(***************************************************************************)
EXTENDS Naturals, FiniteSets

CONSTANTS
    Callers,   \* goroutines
    Sinkers,   \* Sinkers sharing the writer
    MaxRows    \* bound: the rows of one batch

Nobody == "nobody"

ASSUME SinkerAssumption ==
    /\ IsFiniteSet(Callers) /\ IsFiniteSet(Sinkers)
    /\ MaxRows \in Nat
    /\ Nobody \notin Sinkers

VARIABLES
    api,        \* whether the writer reports a client to migrate through; never changes
    once,       \* startOnce of each Sinker
    startErr,   \* whether its start failed
    migrations, \* how often its migration has run
    boundTo,    \* the Sinker whose schema the writer was bound with
    pc,         \* where each goroutine's call is
    sinker,     \* the Sinker it called
    async,      \* whether it called SinkAsync
    rows,       \* how many rows it handed over
    bad,        \* whether one of them cannot be prepared
    result,     \* n and err its last call was returned
    writes      \* WriteRows calls the writer has taken, with their Sinker

call == <<pc, sinker, async, rows, bad>>
starting == <<once, startErr, migrations, boundTo>>
vars == <<api, starting, call, result, writes>>

NoResult == [n |-> 0, err |-> FALSE, of |-> 0, sync |-> FALSE]
PCs == {"idle", "start", "migrate", "bind", "started", "prepare", "write", "wait"}

TypeOK ==
    /\ api \in BOOLEAN
    /\ once \in [Sinkers -> {"new", "running", "done"}]
    /\ startErr \in [Sinkers -> BOOLEAN]
    /\ migrations \in [Sinkers -> {0, 1}]
    /\ boundTo \in Sinkers \cup {Nobody}
    /\ pc \in [Callers -> PCs]
    /\ sinker \in [Callers -> Sinkers \cup {Nobody}]
    /\ async \in [Callers -> BOOLEAN]
    /\ rows \in [Callers -> 0..MaxRows]
    /\ bad \in [Callers -> BOOLEAN]
    /\ result \in [Callers -> [n : 0..MaxRows + 1, err : BOOLEAN, of : 0..MaxRows, sync : BOOLEAN]]
    /\ writes \in SUBSET (Sinkers \X (Sinkers \cup {Nobody}))

Init ==
    /\ api \in BOOLEAN
    /\ once = [s \in Sinkers |-> "new"]
    /\ startErr = [s \in Sinkers |-> FALSE]
    /\ migrations = [s \in Sinkers |-> 0]
    /\ boundTo = Nobody
    /\ pc = [c \in Callers |-> "idle"]
    /\ sinker = [c \in Callers |-> Nobody]
    /\ async = [c \in Callers |-> FALSE]
    /\ rows = [c \in Callers |-> 0]
    /\ bad = [c \in Callers |-> FALSE]
    /\ result = [c \in Callers |-> NoResult]
    /\ writes = {}

\* A goroutine calls Sinker s; whatever it was returned before is forgotten.
Enter(c, s, a, k, b) ==
    /\ pc[c] = "idle"
    /\ pc' = [pc EXCEPT ![c] = "start"]
    /\ sinker' = [sinker EXCEPT ![c] = s]
    /\ async' = [async EXCEPT ![c] = a]
    /\ rows' = [rows EXCEPT ![c] = k]
    /\ bad' = [bad EXCEPT ![c] = b]
    /\ result' = [result EXCEPT ![c] = NoResult]

Goto(c, p) ==
    /\ pc' = [pc EXCEPT ![c] = p]
    /\ UNCHANGED <<sinker, async, rows, bad>>

\* The call returns (n, err) and its locals are gone.  Of a SinkAsync it is the
\* error alone that says something; its WriteResult is the writer's own.
Return(c, n, err) ==
    /\ pc' = [pc EXCEPT ![c] = "idle"]
    /\ sinker' = [sinker EXCEPT ![c] = Nobody]
    /\ async' = [async EXCEPT ![c] = FALSE]
    /\ rows' = [rows EXCEPT ![c] = 0]
    /\ bad' = [bad EXCEPT ![c] = FALSE]
    /\ result' = [result EXCEPT ![c] = [n |-> n, err |-> err, of |-> rows[c], sync |-> ~async[c]]]

-----------------------------------------------------------------------------
(* Entering: Start goes to start at once; Sink and SinkAsync read the batch *)
(* first.  An empty batch, or one that is not of the Sinker's row type, is  *)
(* over before the table is looked at and changes nothing.                  *)

Start(c, s) ==
    /\ Enter(c, s, FALSE, 0, FALSE)
    /\ UNCHANGED <<starting, writes>>

Send(c, s, a, k, b) ==
    /\ k > 0
    /\ Enter(c, s, a, k, b)
    /\ UNCHANGED <<starting, writes>>

-----------------------------------------------------------------------------
(* start, inside startOnce.Do *)

\* The first caller runs the work; a caller that comes while it runs waits.
FirstMutant(s) == once[s] # "done"
FirstRetryMutant(s) == once[s] = "new" \/ (once[s] = "done" /\ startErr[s])
First(s) == once[s] = "new"
OnceBegin(c) ==
    /\ pc[c] = "start" /\ First(sinker[c])
    /\ once' = [once EXCEPT ![sinker[c]] = "running"]
    /\ Goto(c, IF api THEN "migrate" ELSE "bind")
    /\ UNCHANGED <<startErr, migrations, boundTo, result, writes>>

\* Do returns at once to whoever comes later.
OnceDone(c) ==
    /\ pc[c] = "start" /\ once[sinker[c]] = "done"
    /\ Goto(c, "started")
    /\ UNCHANGED <<starting, result, writes>>

\* Do is over once its function has returned, whichever way it returned.
FinishedMutant(s, err) == IF err THEN once ELSE [once EXCEPT ![s] = "done"]
Finished(s, err) == [once EXCEPT ![s] = "done"]

Migrate(c, ok) ==
    /\ pc[c] = "migrate"
    /\ migrations' = [migrations EXCEPT ![sinker[c]] = @ + 1]
    /\ IF ok
       THEN Goto(c, "bind") /\ UNCHANGED <<once, startErr>>
       ELSE /\ startErr' = [startErr EXCEPT ![sinker[c]] = TRUE]
            /\ once' = Finished(sinker[c], TRUE)
            /\ Goto(c, "started")
    /\ UNCHANGED <<boundTo, result, writes>>

\* BindSchema: a writer that already has a schema returns an error, and one
\* that has none can fail for reasons of its own.
Bindable == boundTo = Nobody
BindSchema(c, ok) ==
    /\ pc[c] = "bind"
    /\ once' = Finished(sinker[c], ~(ok /\ Bindable))
    /\ startErr' = [startErr EXCEPT ![sinker[c]] = ~(ok /\ Bindable)]
    /\ boundTo' = IF ok /\ Bindable THEN sinker[c] ELSE boundTo
    /\ Goto(c, "started")
    /\ UNCHANGED <<migrations, result, writes>>

\* Every caller is returned the outcome startErr keeps.
StartFailedMutant(s) == FALSE
StartFailed(s) == startErr[s]
StartReturns(c) ==
    /\ pc[c] = "started"
    /\ CASE StartFailed(sinker[c]) -> Return(c, 0, TRUE)
         [] ~StartFailed(sinker[c]) /\ rows[c] = 0 -> Return(c, 0, FALSE)
         [] OTHER -> Goto(c, "prepare") /\ UNCHANGED result
    /\ UNCHANGED <<starting, writes>>

-----------------------------------------------------------------------------
(* The rest of send, and Sink's wait *)

\* One row that cannot be filled in or converted keeps the whole batch back.
Prepared(c) == ~bad[c]
Prepare(c) ==
    /\ pc[c] = "prepare"
    /\ IF Prepared(c)
       THEN Goto(c, "write") /\ UNCHANGED result
       ELSE Return(c, 0, TRUE)
    /\ UNCHANGED <<starting, writes>>

\* The writer takes the rows.  SinkAsync is over; Sink waits for the result.
WriteRows(c) ==
    /\ pc[c] = "write"
    /\ writes' = writes \cup {<<sinker[c], boundTo>>}
    /\ IF async[c]
       THEN Return(c, 0, FALSE)
       ELSE Goto(c, "wait") /\ UNCHANGED result
    /\ UNCHANGED starting

\* The writer refuses them; or it takes them and returns neither a result nor an
\* error, which is reported as one.
WriteRowsFails(c, taken) ==
    /\ pc[c] = "write"
    /\ writes' = IF taken THEN writes \cup {<<sinker[c], boundTo>>} ELSE writes
    /\ Return(c, 0, TRUE)
    /\ UNCHANGED starting

\* Sink's own check of a writer that miscounts and says nothing of it.
Short(c, n) == n # rows[c]
Wait(c, n, err) ==
    /\ pc[c] = "wait"
    /\ Return(c, n, err \/ Short(c, n))
    /\ UNCHANGED <<starting, writes>>

Continue(c) ==
    \/ OnceBegin(c) \/ OnceDone(c) \/ StartReturns(c)
    \/ Prepare(c) \/ WriteRows(c)
    \/ \E ok \in BOOLEAN : Migrate(c, ok) \/ BindSchema(c, ok) \/ WriteRowsFails(c, ok)
    \/ \E n \in 0..rows[c] + 1, err \in BOOLEAN : Wait(c, n, err)

Next ==
    /\ \E c \in Callers :
        \/ \E s \in Sinkers :
            \/ Start(c, s)
            \/ \E a, b \in BOOLEAN, k \in 1..MaxRows : Send(c, s, a, k, b)
        \/ Continue(c)
    /\ UNCHANGED api

Spec == Init /\ [][Next]_vars

\* A goroutine inside a call keeps running: migrate, BindSchema, WriteRows and
\* Wait return.
FairSpec == Spec /\ \A c \in Callers : WF_vars(Continue(c) /\ UNCHANGED api)

-----------------------------------------------------------------------------
(* Properties *)

\* Rows reach the writer only through a Sinker whose table was reconciled and
\* whose own schema the writer is bound with: a second Sinker over the same
\* writer, or one whose start failed under another goroutine, never writes.
OwnSchema ==
    /\ \A w \in writes : w[1] = w[2]
    /\ \A w \in writes :
        /\ once[w[1]] = "done" /\ ~startErr[w[1]]
        /\ api => migrations[w[1]] = 1

\* However many goroutines arrive first, one of them does the work of start, and
\* nobody passes start while that is going on.
StartedOnce ==
    /\ \A c \in Callers :
        pc[c] \in {"started", "prepare", "write", "wait"} => once[sinker[c]] = "done"
    /\ \A c, d \in Callers :
        pc[c] \in {"migrate", "bind"} /\ pc[d] \in {"migrate", "bind"} /\ sinker[c] = sinker[d]
            => c = d

\* What a step may not undo: a start that is over, what it came to, and the schema
\* the writer was bound with.
OutcomeFinal ==
    /\ \A s \in Sinkers : once[s] = "done" => once'[s] = "done" /\ startErr'[s] = startErr[s]
    /\ boundTo \in Sinkers => boundTo' = boundTo

\* The outcome of a start is final.  Whatever other goroutines and other Sinkers
\* over the writer do, a caller that comes later, or that was waiting inside Do, is
\* told what the first one was told: a failed start is not tried again under callers
\* that were refused, and a Sinker that is writing is never unbound.
StartFinal == [][OutcomeFinal]_vars

\* Every call returns, the ones waiting for another goroutine's start included.
EveryCallReturns == \A c \in Callers : pc[c] # "idle" ~> pc[c] = "idle"
=============================================================================
