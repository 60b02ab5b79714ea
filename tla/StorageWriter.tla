---------------------------- MODULE StorageWriter ----------------------------
(***************************************************************************)
(* The Storage Write API transport of storagewrite.go: StorageWriter, the  *)
(* managedwriter client and stream it opens, and the appends in flight.    *)
(*                                                                         *)
(* BindSchema holds the writer's mutex while it opens the connection, so   *)
(* the mutex is modelled; WriteRows and Close hold it only to copy the     *)
(* fields they go on to use with the mutex released.  Of managedwriter the *)
(* model has what the code relies on: a client and a stream that are open  *)
(* or not, an append on a closed stream failing with io.EOF, a cancelled   *)
(* append call leaving its request on the wire, and a request whose answer *)
(* was lost being sent again or given up, having landed or not.            *)
(***************************************************************************)
EXTENDS Naturals, FiniteSets

CONSTANTS
    Callers,      \* goroutines using the writer
    Rows,         \* the rows they hand over, each once
    Unencodable,  \* the rows marshalStorageWriteRow returns an error for
    disableWriteRetries

ASSUME StorageAssumption ==
    /\ IsFiniteSet(Callers)
    /\ Unencodable \subseteq Rows
    /\ disableWriteRetries \in BOOLEAN

VARIABLES
    \* StorageWriter's fields
    mu,         \* whether the mutex is held across BindSchema's calls
    bound,      \* stream, mwClient, schema and descriptor are set
    closed,
    \* managedwriter
    clients,    \* clients opened and not closed
    streamOpen, \* the managed stream takes appends
    sent,       \* appends on the wire
    accepted,   \* appends whose result resolved with success
    rejected,   \* appends whose result resolved with an error
    landed,     \* appends whose rows are in the table
    \* one call per goroutine
    pc, batch,
    err,        \* what its last call returned
    \* what callers have been told
    given,      \* rows handed to WriteRows
    refused,    \* rows of a WriteRows that returned an error
    delivered,  \* rows a Wait counted
    denied      \* rows a Wait reported as rejected by BigQuery

writer == <<mu, bound, closed>>
managedwriter == <<clients, streamOpen>>
appends == <<sent, accepted, rejected, landed>>
told == <<given, refused, delivered, denied>>
vars == <<writer, managedwriter, appends, pc, batch, err, told>>

PCs == {"idle", "newClient", "newStream", "dropClient", "marshal", "append",
        "wait", "closeStream", "closeClient"}
Errs == {"none", "ErrWriterClosed", "unbound", "bound", "open", "marshal", "eof",
         "append", "cancelled", "rejected", "close"}

TypeOK ==
    /\ mu \in BOOLEAN /\ bound \in BOOLEAN /\ closed \in BOOLEAN
    /\ clients \in Nat /\ streamOpen \in BOOLEAN
    /\ sent \in SUBSET SUBSET Rows
    /\ accepted \in SUBSET SUBSET Rows
    /\ rejected \in SUBSET SUBSET Rows
    /\ landed \in SUBSET SUBSET Rows
    /\ pc \in [Callers -> PCs]
    /\ batch \in [Callers -> SUBSET Rows]
    /\ err \in [Callers -> Errs]
    /\ given \in SUBSET Rows /\ refused \in SUBSET Rows
    /\ delivered \in SUBSET Rows /\ denied \in SUBSET Rows

Init ==
    /\ mu = FALSE /\ bound = FALSE /\ closed = FALSE
    /\ clients = 0 /\ streamOpen = FALSE
    /\ sent = {} /\ accepted = {} /\ rejected = {} /\ landed = {}
    /\ pc = [c \in Callers |-> "idle"]
    /\ batch = [c \in Callers |-> {}]
    /\ err = [c \in Callers |-> "none"]
    /\ given = {} /\ refused = {} /\ delivered = {} /\ denied = {}

Goto(c, s) == pc' = [pc EXCEPT ![c] = s] /\ UNCHANGED <<batch, err>>
Return(c, e) ==
    /\ pc' = [pc EXCEPT ![c] = "idle"]
    /\ batch' = [batch EXCEPT ![c] = {}]
    /\ err' = [err EXCEPT ![c] = e]

-----------------------------------------------------------------------------
(* BindSchema, under the mutex from its first check to its last assignment *)

\* What turns BindSchema down once it has the mutex.
BindRefusalMutant == IF bound THEN "bound" ELSE "none"
BindRefusal ==
    CASE closed -> "ErrWriterClosed"
      [] ~closed /\ bound -> "bound"
      [] OTHER -> "none"

BindSchema(c) ==
    /\ pc[c] = "idle" /\ ~mu
    /\ IF BindRefusal = "none"
       THEN mu' = TRUE /\ Goto(c, "newClient")
       ELSE mu' = mu /\ Return(c, BindRefusal)
    /\ UNCHANGED <<bound, closed, managedwriter, appends, told>>

\* The descriptor cannot be derived, or NewClient fails.
NewClientFails(c) ==
    /\ pc[c] = "newClient"
    /\ mu' = FALSE
    /\ Return(c, "open")
    /\ UNCHANGED <<bound, closed, managedwriter, appends, told>>

NewClient(c) ==
    /\ pc[c] = "newClient"
    /\ clients' = clients + 1
    /\ Goto(c, "newStream")
    /\ UNCHANGED <<writer, streamOpen, appends, told>>

NewManagedStreamFails(c) ==
    /\ pc[c] = "newStream"
    /\ Goto(c, "dropClient")
    /\ UNCHANGED <<writer, managedwriter, appends, told>>

\* BindSchema closes the client it opened for a stream it did not get.
Released == clients' = clients - 1
DropClient(c) ==
    /\ pc[c] = "dropClient"
    /\ Released
    /\ mu' = FALSE
    /\ Return(c, "open")
    /\ UNCHANGED <<bound, closed, streamOpen, appends, told>>

NewManagedStream(c) ==
    /\ pc[c] = "newStream"
    /\ streamOpen' = TRUE
    /\ bound' = TRUE
    /\ mu' = FALSE
    /\ Return(c, "none")
    /\ UNCHANGED <<closed, clients, appends, told>>

-----------------------------------------------------------------------------
(* WriteRows: the fields are copied under the mutex and used without it *)

\* What WriteRows makes of the fields it copied.
WriteRefusal ==
    CASE closed -> "ErrWriterClosed"
      [] ~closed /\ ~bound -> "unbound"
      [] OTHER -> "none"

WriteRows(c, rs) ==
    /\ pc[c] = "idle" /\ ~mu
    /\ rs # {} /\ rs \cap given = {}
    /\ given' = given \cup rs
    /\ IF WriteRefusal = "none"
       THEN /\ pc' = [pc EXCEPT ![c] = "marshal"]
            /\ batch' = [batch EXCEPT ![c] = rs]
            /\ UNCHANGED <<err, refused>>
       ELSE Return(c, WriteRefusal) /\ refused' = refused \cup rs
    /\ UNCHANGED <<writer, managedwriter, appends, delivered, denied>>

\* WriteRows returns an error of its own instead of a result.
Refuse(c, e) ==
    /\ refused' = refused \cup batch[c]
    /\ Return(c, e)
    /\ UNCHANGED <<given, delivered, denied>>

\* One row that cannot be marshalled refuses the whole call.
Marshal(c) ==
    /\ pc[c] = "marshal"
    /\ IF batch[c] \cap Unencodable = {}
       THEN Goto(c, "append") /\ UNCHANGED told
       ELSE Refuse(c, "marshal")
    /\ UNCHANGED <<writer, managedwriter, appends>>

\* stream.AppendRows puts the request on the wire and WriteRows hands back a
\* storageResult, on which the caller goes on to Wait.
AppendRows(c) ==
    /\ pc[c] = "append" /\ streamOpen
    /\ sent' = sent \cup {batch[c]}
    /\ Goto(c, "wait")
    /\ UNCHANGED <<writer, managedwriter, accepted, rejected, landed, told>>

\* The stream was closed since WriteRows looked.
AppendOnClosed(c) ==
    /\ pc[c] = "append" /\ ~streamOpen
    /\ Refuse(c, "eof")
    /\ UNCHANGED <<writer, managedwriter, appends>>

\* AppendRows fails before anything is sent, or the call's context ends with
\* the request already on its way.
AppendFails(c) ==
    /\ pc[c] = "append" /\ streamOpen
    /\ \/ sent' = sent /\ Refuse(c, "append")
       \/ sent' = sent \cup {batch[c]} /\ Refuse(c, "cancelled")
    /\ UNCHANGED <<writer, managedwriter, accepted, rejected, landed>>

\* BigQuery appends all of a request's rows or none, and its answer resolves the
\* append's result.
Answer(b) ==
    /\ b \in sent
    /\ sent' = sent \ {b}
    /\ \/ accepted' = accepted \cup {b} /\ landed' = landed \cup {b} /\ UNCHANGED rejected
       \/ rejected' = rejected \cup {b} /\ UNCHANGED <<accepted, landed>>
    /\ UNCHANGED <<writer, managedwriter, pc, batch, err, told>>

\* The connection breaks after the rows were appended and before the answer came:
\* managedwriter sends the request again, or resolves its result with an error.
AnswerLost(b) ==
    /\ b \in sent
    /\ landed' = landed \cup {b}
    /\ \/ ~disableWriteRetries /\ UNCHANGED <<sent, rejected>>
       \/ sent' = sent \ {b} /\ rejected' = rejected \cup {b}
    /\ UNCHANGED <<writer, managedwriter, accepted, pc, batch, err, told>>

\* storageResult.Wait: FullResponse has the answer.
AckedMutant(c) == batch[c] \in accepted \cup rejected
Acked(c) == batch[c] \in accepted
Wait(c) ==
    /\ pc[c] = "wait"
    /\ batch[c] \in accepted \cup rejected
    /\ IF Acked(c)
       THEN delivered' = delivered \cup batch[c] /\ Return(c, "none") /\ UNCHANGED denied
       ELSE denied' = denied \cup batch[c] /\ Return(c, "rejected") /\ UNCHANGED delivered
    /\ UNCHANGED <<writer, managedwriter, appends, given, refused>>

\* The context of Wait ends, the stream goes down under it, or the caller never
\* waits: nobody learns the rows' fate.
WaitAbandoned(c) ==
    /\ pc[c] = "wait"
    /\ Return(c, "cancelled")
    /\ UNCHANGED <<writer, managedwriter, appends, told>>

-----------------------------------------------------------------------------
(* Close *)

\* Only the first Close goes on.
FirstCloseMutant == TRUE
FirstClose == ~closed
CloseBegin(c) ==
    /\ pc[c] = "idle" /\ ~mu /\ FirstClose
    /\ closed' = TRUE
    /\ IF bound THEN Goto(c, "closeStream") ELSE Return(c, "none")
    /\ UNCHANGED <<mu, bound, managedwriter, appends, told>>

StreamCloseMutant == UNCHANGED streamOpen
StreamClose == streamOpen' = FALSE
CloseStream(c) ==
    /\ pc[c] = "closeStream"
    /\ StreamClose
    /\ pc' = [pc EXCEPT ![c] = "closeClient"]
    /\ \E e \in {"none", "close"} : err' = [err EXCEPT ![c] = e]
    /\ UNCHANGED <<writer, clients, appends, batch, told>>

\* The first of the two failures is the one returned.
CloseClient(c) ==
    /\ pc[c] = "closeClient"
    /\ Released
    /\ \E e \in {"none", "close"} :
        Return(c, IF err[c] = "none" THEN e ELSE err[c])
    /\ UNCHANGED <<writer, streamOpen, appends, told>>

Continue(c) ==
    \/ NewClient(c) \/ NewClientFails(c)
    \/ NewManagedStream(c) \/ NewManagedStreamFails(c) \/ DropClient(c)
    \/ Marshal(c)
    \/ AppendRows(c) \/ AppendOnClosed(c) \/ AppendFails(c)
    \/ Wait(c) \/ WaitAbandoned(c)
    \/ CloseStream(c) \/ CloseClient(c)

Next ==
    \/ \E c \in Callers :
        \/ BindSchema(c)
        \/ \E rs \in SUBSET Rows : WriteRows(c, rs)
        \/ CloseBegin(c)
        \/ Continue(c)
    \/ \E b \in sent : Answer(b) \/ AnswerLost(b)

Spec == Init /\ [][Next]_vars

-----------------------------------------------------------------------------
(* Properties *)

\* No call is opening or closing the connection.
Settled == \A c \in Callers :
    pc[c] \notin {"newClient", "newStream", "dropClient", "closeStream", "closeClient"}

\* No connection leaks and none is closed twice: between calls there is exactly
\* one client and one open stream if a schema is bound and the writer is open,
\* and neither otherwise -- whatever BindSchema failed halfway, and whichever of
\* BindSchema and Close came first.
NoLeak ==
    Settled =>
        /\ clients = (IF bound /\ ~closed THEN 1 ELSE 0)
        /\ streamOpen <=> (bound /\ ~closed)

\* To whoever holds it, the Storage Write API transport is a RowsWriter: through
\* any reconnection and resending, a Wait counts rows only when they are in the
\* table, and no row is counted and named by an error, or named twice.
Contract == INSTANCE RowsWriter WITH
    landed <- UNION landed,
    reported <- [r \in Rows |-> IF r \in refused \cup denied THEN 1 ELSE 0]
ImplementsRowsWriter == Contract!Spec

\* Once Close has returned, nothing further is put on the wire, even by a
\* WriteRows that had found the writer open.
QuietAfterClose ==
    [][closed /\ Settled => sent' \subseteq sent]_vars
=============================================================================
