------------------------ MODULE LoadJobsWriterProofs ------------------------
(***************************************************************************)
(* Safety of the load job transport for every number of callers and rows,  *)
(* every FlushRows and every retry limit.                                  *)
(*                                                                         *)
(* TypeOK is not inductive: that wg.Done never drives the counter below    *)
(* zero needs the counter to be the number of calls it stands for.  Nor is *)
(* SettledAtClose: it needs what holds at each stage of Close, and that a  *)
(* row is always in the care of exactly one party.                         *)
(***************************************************************************)
EXTENDS LoadJobsWriter, FiniteSetTheorems, TLAPS

\* What holds of a call at each point of its method.
CallShape ==
    \A c \in Callers :
        /\ pc[c] = "idle" <=> op[c] = "none"
        /\ op[c] = "none" => batch[c] = {} /\ folded[c] = {}
        /\ op[c] \in {"direct", "write"} => folded[c] = {}
        /\ pc[c] \in {"drain", "collect"} => op[c] = "close" /\ folded[c] = {}
        /\ pc[c] = "recorded" => op[c] = "write"
        /\ pc[c] = "ok" => \A r \in batch[c] : Landed(r)

\* The calls the WaitGroup counts.
Group == {c \in Callers : op[c] = "write" \/ (op[c] = "flush" /\ batch[c] # {})}
GroupCount == wg = Cardinality(Group)

\* What Close has achieved at each of its stages.
AfterClose ==
    /\ closed => buf = {}
    /\ closed /\ (\A c \in Callers : pc[c] # "drain") => Group = {}
    /\ closed /\ (\A c \in Callers : pc[c] \notin {"drain", "collect"}) => pending = {}

IInv == TypeOK /\ CallShape /\ GroupCount /\ AfterClose /\ AccountedFor

-----------------------------------------------------------------------------
(* The initial state *)

LEMMA InitIInv == Init => IInv
<1> SUFFICES ASSUME Init PROVE IInv
  OBVIOUS
<1>1. TypeOK
  <2>1. 0 \in 0..migrateMaxRetries
    BY RetriesAssumption
  <2>2. /\ op \in [Callers -> Ops]
        /\ pc \in [Callers -> PCs]
    BY DEF Init, Ops, PCs
  <2>3. /\ batch \in [Callers -> SUBSET Rows]
        /\ folded \in [Callers -> SUBSET Rows]
        /\ retries \in [Callers -> 0..migrateMaxRetries]
    BY <2>1 DEF Init
  <2>. QED
    BY <2>2, <2>3 DEF Init, TypeOK
<1>2. CallShape
  BY DEF Init, CallShape
<1>3. Group = {}
  BY DEF Init, Group
<1>4. GroupCount
  BY <1>3, FS_EmptySet DEF Init, GroupCount
<1>5. AfterClose
  BY DEF Init, AfterClose
<1>6. AccountedFor
  BY DEF Init, AccountedFor
<1>. QED
  BY <1>1, <1>2, <1>4, <1>5, <1>6 DEF IInv

-----------------------------------------------------------------------------
(* Facts the steps share *)

LEMMA GroupFacts ==
    ASSUME TypeOK, GroupCount
    PROVE  /\ IsFiniteSet(Group)
           /\ wg = 0 => Group = {}
           /\ \A c \in Group : wg >= 1
<1>1. IsFiniteSet(Group)
  BY CallersAssumption, FS_Subset DEF Group
<1>2. wg = 0 => Group = {}
  BY <1>1, FS_EmptySet DEF GroupCount
<1>3. \A c \in Group : wg # 0
  BY <1>2
<1>. QED
  BY <1>1, <1>2, <1>3 DEF TypeOK

\* A call joins the WaitGroup, or leaves it.
LEMMA GroupJoins ==
    ASSUME TypeOK, GroupCount, NEW c \in Callers, c \notin Group,
           Group' = Group \cup {c}, wg' = wg + 1
    PROVE  GroupCount'
BY GroupFacts, FS_AddElement DEF GroupCount

LEMMA GroupLeaves ==
    ASSUME TypeOK, GroupCount, NEW c \in Group,
           Group' = Group \ {c}, wg' = wg - 1
    PROVE  GroupCount' /\ wg' \in Nat
<1>1. GroupCount'
  BY GroupFacts, FS_RemoveElement DEF GroupCount
<1>2. wg' \in Nat
  BY GroupFacts DEF TypeOK
<1>. QED
  BY <1>1, <1>2

\* BigQuery never takes a row back out of the table.
LEMMA LandedStays ==
    ASSUME succeeded \subseteq succeeded', NEW r, Landed(r)
    PROVE  Landed(r)'
BY DEF Landed

-----------------------------------------------------------------------------
(* One lemma per action: it preserves the inductive invariant *)

LEMMA BindSchemaStep == IInv /\ BindSchema => IInv'
<1> SUFFICES ASSUME IInv, BindSchema PROVE IInv'
  OBVIOUS
<1> USE DEF BindSchema, IInv, locals, bigquery, history
<1>1. TypeOK'
  BY DEF TypeOK
<1>2. CallShape'
  BY DEF CallShape, Landed
<1>3. Group' = Group
  BY DEF Group
<1>4. GroupCount'
  BY <1>3 DEF GroupCount
<1>5. AfterClose'
  BY <1>3 DEF AfterClose
<1>6. AccountedFor'
  BY DEF AccountedFor, Carries, Landed
<1>. QED
  BY <1>1, <1>2, <1>4, <1>5, <1>6

LEMMA WriteDirectStep ==
    ASSUME IInv, NEW c \in Callers, NEW rs \in SUBSET Rows, WriteDirect(c, rs)
    PROVE  IInv'
<1> USE DEF WriteDirect, Accepting, TakeRows, Enter, IInv, writer, bigquery
<1>0. retries' = [retries EXCEPT ![c] = 0] /\ 0 \in 0..migrateMaxRetries
  BY RetriesAssumption
<1>1. TypeOK'
  BY <1>0 DEF TypeOK, Ops, PCs
<1>2. CallShape'
  BY DEF CallShape, Landed, TypeOK
<1>3. Group' = Group
  BY DEF Group, TypeOK, CallShape
<1>4. GroupCount'
  BY <1>3 DEF GroupCount
<1>5. AfterClose'
  BY DEF AfterClose
<1>6. AccountedFor'
  <2>1. \A d \in Callers : Carries(d) \subseteq Carries(d)'
    BY DEF Carries, TypeOK, CallShape
  <2>2. rs \subseteq Carries(c)'
    BY DEF Carries, TypeOK
  <2>. QED
    BY <2>1, <2>2 DEF AccountedFor, Landed
<1>. QED
  BY <1>1, <1>2, <1>4, <1>5, <1>6

LEMMA WriteBufferedStep ==
    ASSUME IInv, NEW c \in Callers, NEW rs \in SUBSET Rows, WriteBuffered(c, rs)
    PROVE  IInv'
<1> USE DEF WriteBuffered, Accepting, TakeRows, IInv, locals, bigquery
<1>1. TypeOK'
  BY DEF TypeOK
<1>2. CallShape'
  BY DEF CallShape, Landed
<1>3. Group' = Group
  BY DEF Group
<1>4. GroupCount'
  BY <1>3 DEF GroupCount
<1>5. AfterClose'
  BY DEF AfterClose
<1>6. AccountedFor'
  BY DEF AccountedFor, Carries, Landed
<1>. QED
  BY <1>1, <1>2, <1>4, <1>5, <1>6

LEMMA WriteFillsStep ==
    ASSUME IInv, NEW c \in Callers, NEW rs \in SUBSET Rows, WriteFills(c, rs)
    PROVE  IInv'
<1> USE DEF WriteFills, Accepting, TakeRows, Enter, IInv, bigquery
<1>0. 0 \in 0..migrateMaxRetries
  BY RetriesAssumption
<1>1. TypeOK'
  BY <1>0 DEF TypeOK, Ops, PCs
<1>2. CallShape'
  BY DEF CallShape, Landed, TypeOK
<1>3. c \notin Group /\ Group' = Group \cup {c}
  BY DEF Group, TypeOK, CallShape
<1>4. GroupCount'
  BY <1>3, GroupJoins
<1>5. AfterClose'
  BY DEF AfterClose
<1>6. AccountedFor'
  <2>1. \A d \in Callers : Carries(d) \subseteq Carries(d)'
    BY DEF Carries, TypeOK, CallShape
  <2>2. rs \cup buf \subseteq Carries(c)'
    BY DEF Carries, TypeOK
  <2>. QED
    BY <2>1, <2>2 DEF AccountedFor, Landed
<1>. QED
  BY <1>1, <1>2, <1>4, <1>5, <1>6

LEMMA FlushRowsStep ==
    ASSUME IInv, NEW c \in Callers, FlushRows(c)
    PROVE  IInv'
<1> USE DEF FlushRows, TakePending, Enter, IInv, bigquery, history
<1>0. 0 \in 0..migrateMaxRetries
  BY RetriesAssumption
<1>1. TypeOK'
  BY <1>0 DEF TypeOK, Ops, PCs
<1>2. CallShape'
  BY DEF CallShape, Landed, TypeOK
<1>3. c \notin Group
  BY DEF Group, CallShape
<1>4. GroupCount'
  <2>1. CASE buf # {}
    <3>1. Group' = Group \cup {c} /\ wg' = wg + 1
      BY <2>1 DEF Group, TypeOK, CallShape
    <3>. QED
      BY <1>3, <3>1, GroupJoins
  <2>2. CASE buf = {}
    <3>1. Group' = Group /\ wg' = wg
      BY <2>2, <1>3 DEF Group, TypeOK, CallShape
    <3>. QED
      BY <3>1 DEF GroupCount
  <2>. QED
    BY <2>1, <2>2
<1>5. AfterClose'
  BY DEF AfterClose
<1>6. AccountedFor'
  <2>1. \A d \in Callers : Carries(d) \subseteq Carries(d)'
    BY DEF Carries, TypeOK, CallShape
  <2>2. buf \cup pending \subseteq Carries(c)'
    BY DEF Carries, TypeOK
  <2>. QED
    BY <2>1, <2>2 DEF AccountedFor, Landed
<1>. QED
  BY <1>1, <1>2, <1>4, <1>5, <1>6

LEMMA CloseBeginStep ==
    ASSUME IInv, NEW c \in Callers, CloseBegin(c)
    PROVE  IInv'
<1> USE DEF CloseBegin, Enter, IInv, bigquery, history
<1>0. 0 \in 0..migrateMaxRetries
  BY RetriesAssumption
<1>1. TypeOK'
  BY <1>0 DEF TypeOK, Ops, PCs
<1>2. CallShape'
  BY DEF CallShape, Landed, TypeOK
<1>3. Group' = Group
  BY DEF Group, TypeOK, CallShape
<1>4. GroupCount'
  BY <1>3 DEF GroupCount
<1>5. AfterClose'
  BY DEF AfterClose, TypeOK
<1>6. AccountedFor'
  <2>1. \A d \in Callers : Carries(d) \subseteq Carries(d)'
    BY DEF Carries, TypeOK, CallShape
  <2>2. buf \subseteq Carries(c)'
    BY DEF Carries, TypeOK
  <2>. QED
    BY <2>1, <2>2 DEF AccountedFor, Landed
<1>. QED
  BY <1>1, <1>2, <1>4, <1>5, <1>6

LEMMA CloseDrainedStep ==
    ASSUME IInv, NEW c \in Callers, CloseDrained(c)
    PROVE  IInv'
<1> USE DEF CloseDrained, Drained, Goto, IInv, writer, bigquery, history
<1>1. TypeOK'
  BY DEF TypeOK, PCs
<1>2. CallShape'
  BY DEF CallShape, Landed, TypeOK
<1>3. Group' = Group
  BY DEF Group
<1>4. GroupCount'
  BY <1>3 DEF GroupCount
<1>5. AfterClose'
  <2>1. Group = {}
    BY GroupFacts
  <2>2. pc'[c] = "collect"
    BY DEF TypeOK
  <2>. QED
    BY <1>3, <2>1, <2>2 DEF AfterClose
<1>6. AccountedFor'
  <2>1. \A d \in Callers : Carries(d)' = Carries(d)
    BY DEF Carries, TypeOK
  <2>. QED
    BY <2>1 DEF AccountedFor, Landed
<1>. QED
  BY <1>1, <1>2, <1>4, <1>5, <1>6

LEMMA CloseCollectStep ==
    ASSUME IInv, NEW c \in Callers, CloseCollect(c)
    PROVE  IInv'
<1> USE DEF CloseCollect, TakePending, IInv, bigquery, history
<1>1. TypeOK'
  BY DEF TypeOK, PCs
<1>2. CallShape'
  BY DEF CallShape, Landed, TypeOK
<1>3. Group' = Group
  BY DEF Group
<1>4. GroupCount'
  BY <1>3 DEF GroupCount
<1>5. AfterClose'
  <2>1. \A d \in Callers : pc'[d] = "drain" <=> pc[d] = "drain"
    BY DEF TypeOK
  <2>. QED
    BY <1>3, <2>1 DEF AfterClose
<1>6. AccountedFor'
  <2>1. \A d \in Callers : Carries(d) \subseteq Carries(d)'
    BY DEF Carries, TypeOK, CallShape
  <2>2. pending \subseteq Carries(c)'
    BY DEF Carries, TypeOK
  <2>. QED
    BY <2>1, <2>2 DEF AccountedFor, Landed
<1>. QED
  BY <1>1, <1>2, <1>4, <1>5, <1>6

\* A step inside load moves the call on and tells nobody anything: it leaves
\* the writer, the call's rows and the table alone.
LEMMA LoadStep ==
    ASSUME IInv, NEW c \in Callers, NEW s \in {"submit", "wait", "backoff", "ok", "failed"},
           pc[c] \in {"encode", "submit", "wait", "backoff"},
           pc' = [pc EXCEPT ![c] = s],
           s = "ok" => \A r \in batch[c] : Landed(r),
           retries' \in [Callers -> 0..migrateMaxRetries],
           running' \in SUBSET Jobs,
           UNCHANGED <<writer, op, batch, folded, succeeded, history>>
    PROVE  IInv'
<1> USE DEF IInv, writer, history
<1>1. TypeOK'
  BY DEF TypeOK, PCs
<1>2. CallShape'
  BY DEF CallShape, Landed, TypeOK
<1>3. Group' = Group
  BY DEF Group
<1>4. GroupCount'
  BY <1>3 DEF GroupCount
<1>5. AfterClose'
  <2>1. \A d \in Callers : /\ pc'[d] = "drain" <=> pc[d] = "drain"
                           /\ pc'[d] = "collect" <=> pc[d] = "collect"
    BY DEF TypeOK
  <2>. QED
    BY <1>3, <2>1 DEF AfterClose
<1>6. AccountedFor'
  <2>1. \A d \in Callers : Carries(d)' = Carries(d)
    BY DEF Carries, TypeOK
  <2>. QED
    BY <2>1 DEF AccountedFor, Landed
<1>. QED
  BY <1>1, <1>2, <1>4, <1>5, <1>6

\* AttemptFailed ends in a legal retry count and at a point of load.
LEMMA AttemptFailedShape ==
    ASSUME TypeOK, NEW c \in Callers, NEW retryable \in BOOLEAN, AttemptFailed(c, retryable)
    PROVE  /\ retries' \in [Callers -> 0..migrateMaxRetries]
           /\ \E s \in {"backoff", "failed"} : pc' = [pc EXCEPT ![c] = s]
           /\ UNCHANGED <<op, batch, folded>>
<1>1. CASE Retry(retries[c], retryable)
  <2>1. retries[c] + 1 \in 0..migrateMaxRetries
    BY <1>1, RetriesAssumption DEF Retry, TypeOK
  <2>. QED
    BY <1>1, <2>1 DEF AttemptFailed, TypeOK
<1>2. CASE ~Retry(retries[c], retryable)
  BY <1>2 DEF AttemptFailed, TypeOK
<1>. QED
  BY <1>1, <1>2

LEMMA LoadSteps ==
    ASSUME IInv, NEW c \in Callers, Load(c)
    PROVE  IInv'
<1>0. TypeOK
  BY DEF IInv
<1>a. Job(c) \in Jobs
  BY <1>0 DEF Job, Jobs, TypeOK
<1>b. retries \in [Callers -> 0..migrateMaxRetries] /\ running \in SUBSET Jobs
  BY <1>0 DEF TypeOK
<1>1. CASE Encode(c)
  BY <1>1, <1>b, LoadStep DEF Encode, Goto, bigquery
<1>2. CASE Submit(c)
  BY <1>2, <1>a, <1>b, LoadStep DEF Submit, Goto
<1>3. ASSUME NEW retryable \in BOOLEAN, NEW created \in BOOLEAN,
             SubmitFails(c, retryable, created)
      PROVE  IInv'
  <2>1. running' \in SUBSET Jobs
    BY <1>3, <1>a, <1>b DEF SubmitFails
  <2>. QED
    BY <1>0, <1>3, <2>1, LoadStep, AttemptFailedShape DEF SubmitFails
<1>4. CASE WaitReturns(c)
  <2>1. CASE JobOK(c)
    <3>1. \A r \in batch[c] : Landed(r)
      BY <2>1 DEF JobOK, Job, Landed
    <3>. QED
      BY <1>4, <2>1, <3>1, <1>b, LoadStep DEF WaitReturns, Goto, bigquery
  <2>2. CASE ~JobOK(c)
    BY <1>0, <1>4, <2>2, <1>b, LoadStep, AttemptFailedShape DEF WaitReturns, bigquery
  <2>. QED
    BY <2>1, <2>2
<1>5. ASSUME NEW retryable \in BOOLEAN, WaitFails(c, retryable)
      PROVE  IInv'
  BY <1>0, <1>5, <1>b, LoadStep, AttemptFailedShape DEF WaitFails, bigquery
<1>6. ASSUME NEW cancelled \in BOOLEAN, Backoff(c, cancelled)
      PROVE  IInv'
  BY <1>6, <1>b, LoadStep DEF Backoff, Goto, bigquery
<1>. QED
  BY <1>1, <1>2, <1>3, <1>4, <1>5, <1>6 DEF Load

LEMMA JobFinishesStep ==
    ASSUME IInv, NEW j \in running, JobFinishes(j)
    PROVE  IInv'
<1> USE DEF JobFinishes, IInv, writer, locals, history
<1>0. succeeded \subseteq succeeded'
  OBVIOUS
<1>1. TypeOK'
  BY DEF TypeOK
<1>2. CallShape'
  BY <1>0 DEF CallShape, Landed
<1>3. Group' = Group
  BY DEF Group
<1>4. GroupCount'
  BY <1>3 DEF GroupCount
<1>5. AfterClose'
  BY <1>3 DEF AfterClose
<1>6. AccountedFor'
  BY <1>0 DEF AccountedFor, Carries, Landed
<1>. QED
  BY <1>1, <1>2, <1>4, <1>5, <1>6

\* What a returning call leaves behind, whatever its method told the caller.
LEMMA LeaveShape ==
    ASSUME IInv, NEW c \in Callers, Leave(c), pc[c] \in {"ok", "failed", "recorded"},
           UNCHANGED <<flushRows, schema, buf, pending, closed, running, succeeded, given>>
    PROVE  /\ CallShape'
           /\ Group' = Group \ {c}
           /\ \A d \in Callers : d # c => Carries(d)' = Carries(d)
           /\ \A d \in Callers : pc'[d] \in {"drain", "collect"} <=> pc[d] \in {"drain", "collect"}
           /\ \A d \in Callers : pc'[d] = "drain" <=> pc[d] = "drain"
<1> USE DEF Leave, IInv, TypeOK
<1>1. CallShape'
  BY DEF CallShape, Landed
<1>2. Group' = Group \ {c}
  BY DEF Group
<1>3. \A d \in Callers : d # c => Carries(d)' = Carries(d)
  BY DEF Carries
<1>4. \A d \in Callers : /\ pc'[d] = "drain" <=> pc[d] = "drain"
                         /\ pc'[d] = "collect" <=> pc[d] = "collect"
  OBVIOUS
<1>. QED
  BY <1>1, <1>2, <1>3, <1>4

\* A call may return once each row it carries has landed or is being reported.
LEMMA ReturnStep ==
    ASSUME IInv, NEW c \in Callers, Leave(c), pc[c] \in {"ok", "failed", "recorded"},
           wg' = IF c \in Group THEN wg - 1 ELSE wg,
           NEW told \in SUBSET Rows, Report(told), delivered' \in SUBSET Rows,
           \A r \in Carries(c) : Landed(r) \/ r \in told,
           UNCHANGED <<flushRows, schema, buf, pending, closed, running, succeeded, given>>
    PROVE  IInv'
<1>1. GroupCount' /\ wg' \in Nat
  <2>1. CASE c \in Group
    BY <2>1, LeaveShape, GroupLeaves DEF IInv
  <2>2. CASE c \notin Group
    BY <2>2, LeaveShape DEF IInv, GroupCount, TypeOK
  <2>. QED
    BY <2>1, <2>2
<1>2. reported' \in [Rows -> Nat] /\ \A r \in Rows : reported'[r] >= reported[r]
  BY DEF Report, IInv, TypeOK
<1>3. \A r \in told : reported'[r] > 0
  BY DEF Report, IInv, TypeOK
<1>4. TypeOK'
  <2>1. 0 \in 0..migrateMaxRetries
    BY RetriesAssumption
  <2>. QED
    BY <1>1, <1>2, <2>1 DEF Leave, IInv, TypeOK, Ops, PCs
<1>5. AfterClose'
  BY LeaveShape DEF IInv, AfterClose
<1>6. AccountedFor'
  <2> SUFFICES ASSUME NEW r \in given
               PROVE  \/ r \in buf \cup pending
                      \/ \E d \in Callers : r \in Carries(d)'
                      \/ Landed(r)
                      \/ reported'[r] > 0
    BY DEF AccountedFor, Landed
  <2>1. r \in Rows
    BY DEF IInv, TypeOK
  <2>2. CASE r \in Carries(c)
    BY <2>2, <1>3
  <2>3. CASE \E d \in Callers : d # c /\ r \in Carries(d)
    BY <2>3, LeaveShape
  <2>4. CASE reported[r] > 0
    BY <2>1, <2>4, <1>2 DEF IInv, TypeOK
  <2>. QED
    BY <2>2, <2>3, <2>4 DEF IInv, AccountedFor
<1>. QED
  BY <1>1, <1>4, <1>5, <1>6, LeaveShape DEF IInv

\* Telling nothing is reporting the empty set.
LEMMA NothingTold ==
    ASSUME TypeOK, UNCHANGED history
    PROVE  Report({}) /\ delivered' \in SUBSET Rows /\ UNCHANGED given
BY DEF Report, TypeOK, history

LEMMA RecordPendingStep ==
    ASSUME IInv, NEW c \in Callers, RecordPending(c)
    PROVE  IInv'
<1> USE DEF RecordPending, Keep, Goto, IInv, bigquery, history
<1>1. TypeOK'
  BY DEF TypeOK, PCs
<1>2. CallShape'
  BY DEF CallShape, Landed, TypeOK
<1>3. Group' = Group /\ c \in Group
  BY DEF Group
<1>4. GroupCount'
  BY <1>3 DEF GroupCount
<1>5. AfterClose'
  <2>1. \A d \in Callers : /\ pc'[d] = "drain" <=> pc[d] = "drain"
                           /\ pc'[d] = "collect" <=> pc[d] = "collect"
    BY DEF TypeOK
  <2>. QED
    BY <1>3, <2>1 DEF AfterClose
<1>6. AccountedFor'
  <2>1. \A d \in Callers : Carries(d) \subseteq Carries(d)' \cup pending'
    BY DEF Carries, TypeOK
  <2>. QED
    BY <2>1 DEF AccountedFor, Landed
<1>. QED
  BY <1>1, <1>2, <1>4, <1>5, <1>6

LEMMA ReturnSteps ==
    ASSUME IInv, NEW c \in Callers, Return(c)
    PROVE  IInv'
<1>0. TypeOK /\ batch[c] \in SUBSET Rows /\ folded[c] \in SUBSET Rows
  BY DEF IInv, TypeOK
<1>1. CASE DirectReturns(c)
  <2>1. c \notin Group /\ folded[c] = {}
    BY <1>1 DEF DirectReturns, Group, IInv, CallShape
  <2>2. CASE pc[c] = "ok"
    <3>1. Report({}) /\ delivered' \in SUBSET Rows
      BY <1>0, <1>1, <2>2 DEF DirectReturns, Tell, TypeOK
    <3>2. \A r \in Carries(c) : Landed(r)
      BY <2>1, <2>2 DEF Carries, IInv, CallShape
    <3>. QED
      BY <1>1, <2>1, <2>2, <3>1, <3>2, ReturnStep DEF DirectReturns, Tell, writer, bigquery
  <2>3. CASE pc[c] = "failed"
    <3>1. Report(batch[c]) /\ delivered' \in SUBSET Rows
      BY <1>0, <1>1, <2>3 DEF DirectReturns, Tell, TypeOK
    <3>2. \A r \in Carries(c) : r \in batch[c]
      BY <2>1, <2>3 DEF Carries
    <3>. QED
      BY <1>0, <1>1, <2>1, <2>3, <3>1, <3>2, ReturnStep DEF DirectReturns, Tell, writer, bigquery
  <2>. QED
    BY <1>1, <2>2, <2>3 DEF DirectReturns
<1>2. CASE RecordPending(c)
  BY <1>2, RecordPendingStep
<1>3. CASE WriteReturns(c)
  <2>1. c \in Group /\ folded[c] = {}
    BY <1>3 DEF WriteReturns, Group, IInv, CallShape
  <2>2. \A r \in Carries(c) : Landed(r)
    BY <1>3, <2>1 DEF WriteReturns, Carries, IInv, CallShape
  <2>. QED
    BY <1>0, <1>3, <2>1, <2>2, NothingTold, ReturnStep DEF WriteReturns, bigquery
<1>4. CASE FlushReturns(c)
  <2>1. wg' = IF c \in Group THEN wg - 1 ELSE wg
    BY <1>4 DEF FlushReturns, FlushDone, Group
  <2>2. CASE pc[c] = "ok"
    <3>1. Report(folded[c]) /\ delivered' \in SUBSET Rows
      BY <1>0, <1>4, <2>2 DEF FlushReturns, Tell, TypeOK
    <3>2. \A r \in Carries(c) : Landed(r) \/ r \in folded[c]
      BY <2>2 DEF Carries, IInv, CallShape
    <3>. QED
      BY <1>0, <1>4, <2>1, <2>2, <3>1, <3>2, ReturnStep DEF FlushReturns, Tell, bigquery
  <2>3. CASE pc[c] = "failed"
    <3>1. Report(folded[c] \cup batch[c]) /\ delivered' \in SUBSET Rows
      BY <1>0, <1>4, <2>3 DEF FlushReturns, Tell, TypeOK
    <3>2. \A r \in Carries(c) : r \in folded[c] \cup batch[c]
      BY <2>3 DEF Carries
    <3>. QED
      BY <1>0, <1>4, <2>1, <2>3, <3>1, <3>2, ReturnStep DEF FlushReturns, Tell, bigquery
  <2>. QED
    BY <1>4, <2>2, <2>3 DEF FlushReturns
<1>5. CASE CloseReturns(c)
  <2>1. c \notin Group
    BY <1>5 DEF CloseReturns, Group
  <2>2. CASE pc[c] = "ok"
    <3>1. Report(folded[c]) /\ delivered' \in SUBSET Rows
      BY <1>0, <1>5, <2>2 DEF CloseReturns, Tell, TypeOK
    <3>2. \A r \in Carries(c) : Landed(r) \/ r \in folded[c]
      BY <2>2 DEF Carries, IInv, CallShape
    <3>. QED
      BY <1>0, <1>5, <2>1, <2>2, <3>1, <3>2, ReturnStep DEF CloseReturns, Tell, writer, bigquery
  <2>3. CASE pc[c] = "failed"
    <3>1. Report(folded[c] \cup batch[c]) /\ delivered' \in SUBSET Rows
      BY <1>0, <1>5, <2>3 DEF CloseReturns, Tell, TypeOK
    <3>2. \A r \in Carries(c) : r \in folded[c] \cup batch[c]
      BY <2>3 DEF Carries
    <3>. QED
      BY <1>0, <1>5, <2>1, <2>3, <3>1, <3>2, ReturnStep DEF CloseReturns, Tell, writer, bigquery
  <2>. QED
    BY <1>5, <2>2, <2>3 DEF CloseReturns
<1>. QED
  BY <1>1, <1>2, <1>3, <1>4, <1>5 DEF Return

-----------------------------------------------------------------------------
(* The theorems *)

LEMMA NextIInv == IInv /\ [Next]_vars => IInv'
<1> SUFFICES ASSUME IInv, [Next]_vars PROVE IInv'
  OBVIOUS
<1>1. CASE BindSchema
  BY <1>1, BindSchemaStep
<1>2. ASSUME NEW c \in Callers, NEW rs \in SUBSET Rows, WriteRows(c, rs)
      PROVE  IInv'
  BY <1>2, WriteDirectStep, WriteBufferedStep, WriteFillsStep DEF WriteRows
<1>3. ASSUME NEW c \in Callers, FlushRows(c) \/ CloseBegin(c)
      PROVE  IInv'
  BY <1>3, FlushRowsStep, CloseBeginStep
<1>4. ASSUME NEW c \in Callers, Continue(c)
      PROVE  IInv'
  BY <1>4, CloseDrainedStep, CloseCollectStep, LoadSteps, ReturnSteps DEF Continue
<1>5. ASSUME NEW j \in running, JobFinishes(j)
      PROVE  IInv'
  BY <1>5, JobFinishesStep
<1>6. CASE UNCHANGED vars
  <2>1. Group' = Group
    BY <1>6 DEF Group, vars, locals
  <2>2. TypeOK'
    BY <1>6 DEF IInv, TypeOK, vars, writer, locals, bigquery, history
  <2>3. CallShape'
    BY <1>6 DEF IInv, CallShape, Landed, vars, locals, bigquery
  <2>4. GroupCount' /\ AfterClose'
    BY <1>6, <2>1 DEF IInv, GroupCount, AfterClose, vars, writer, locals
  <2>5. AccountedFor'
    BY <1>6 DEF IInv, AccountedFor, Carries, Landed, vars, writer, locals, bigquery, history
  <2>. QED
    BY <2>2, <2>3, <2>4, <2>5 DEF IInv
<1>. QED
  BY <1>1, <1>2, <1>3, <1>4, <1>5, <1>6 DEF Next

\* At every point, whatever the interleaving of WriteRows, FlushRows, Close and
\* the load jobs, the inductive invariant holds.
THEOREM InductiveInvariant == Spec => []IInv
BY InitIInv, NextIInv, PTL DEF Spec

\* The writer's state stays well typed; in particular wg.Done never takes the
\* WaitGroup's counter below zero and attempts never exceed the policy.
THEOREM TypeCorrect == Spec => []TypeOK
<1>1. IInv => TypeOK
  BY DEF IInv
<1>. QED
  BY <1>1, InductiveInvariant, PTL

\* No row a LoadJobsWriter accepts is ever lost track of.
THEOREM NoRowForgotten == Spec => []AccountedFor
<1>1. IInv => AccountedFor
  BY DEF IInv
<1>. QED
  BY <1>1, InductiveInvariant, PTL

\* When Close has returned, every accepted row has landed or been reported, or
\* belongs to a call Close does not wait for and which reports it itself.
THEOREM CloseSettles == Spec => []SettledAtClose
<1>1. IInv => SettledAtClose
  <2> SUFFICES ASSUME IInv, CloseReturned, NEW r \in given
               PROVE  \/ Landed(r)
                      \/ reported[r] > 0
                      \/ \E c \in Callers :
                          /\ r \in Carries(c)
                          /\ op[c] = "direct" \/ (op[c] = "flush" /\ batch[c] = {})
    BY DEF SettledAtClose
  <2>1. \A c \in Callers : pc[c] \notin {"drain", "collect"}
    BY DEF CloseReturned, IInv, CallShape
  <2>2. buf = {} /\ pending = {} /\ Group = {}
    BY <2>1 DEF CloseReturned, IInv, AfterClose
  <2>3. ASSUME NEW c \in Callers, r \in Carries(c)
        PROVE  op[c] = "direct" \/ (op[c] = "flush" /\ batch[c] = {})
    <3>1. op[c] \in {"none", "direct", "write", "flush", "close"}
      BY DEF IInv, TypeOK, Ops
    <3>2. op[c] # "none"
      BY <2>3 DEF Carries, IInv, CallShape
    <3>3. op[c] # "write" /\ (op[c] = "flush" => batch[c] = {})
      BY <2>2 DEF Group
    <3>. QED
      BY <3>1, <3>2, <3>3 DEF CloseReturned
  <2>. QED
    BY <2>2, <2>3 DEF IInv, AccountedFor
<1>. QED
  BY <1>1, InductiveInvariant, PTL

-----------------------------------------------------------------------------
(***************************************************************************)
(* The load job transport implements RowsWriter, and what it is bounded    *)
(* by: the rows it holds, the WaitGroup's counter once closed, and how     *)
(* often a retried batch lands.                                            *)
(*                                                                         *)
(* That an error names a row at most once, and never one that was counted, *)
(* rests on ownership: a row is in the care of one party -- the buffer,    *)
(* pending, or one call -- and nothing has been said of it while it is.    *)
(* A batch stands still from the moment a call takes it to its return, so  *)
(* all the jobs that ever carry a row carry the same batch and differ in   *)
(* the attempt alone.                                                      *)
(***************************************************************************)

\* No row is in two parties' care.
Apart ==
    /\ buf \cap pending = {}
    /\ \A c \in Callers : Carries(c) \cap (buf \cup pending) = {}
    /\ \A c \in Callers : folded[c] \cap batch[c] = {}
    /\ \A c, d \in Callers : c # d => Carries(c) \cap Carries(d) = {}

\* Nothing has been said of a row in anybody's care.
Unsaid(r) == r \in given /\ r \notin delivered /\ reported[r] = 0
Open ==
    /\ \A r \in buf \cup pending : Unsaid(r)
    /\ \A c \in Callers : \A r \in Carries(c) : Unsaid(r)

\* Only rows that were handed over are spoken of or sent.
FromGiven ==
    /\ delivered \subseteq given
    /\ \A r \in Rows : r \notin given => reported[r] = 0
    /\ \A j \in running \cup succeeded : j.rows \subseteq given

Ownership == Apart /\ Open /\ FromGiven

LEMMA InitOwnership == Init => Ownership
<1> SUFFICES ASSUME Init PROVE Ownership
  OBVIOUS
<1>1. \A c \in Callers : Carries(c) = {}
  BY DEF Init, Carries
<1>. QED
  BY <1>1 DEF Init, Ownership, Apart, Open, FromGiven

-----------------------------------------------------------------------------
(* Steps that move rows from one party's care to another's *)

\* WriteRows takes rows nobody has.
LEMMA TakeStep ==
    ASSUME IInv, Ownership, NEW c \in Callers, NEW rs \in SUBSET Rows, WriteRows(c, rs)
    PROVE  Ownership'
<1> USE DEF IInv, TypeOK, CallShape, Ownership
<1>1. rs \cap given = {} /\ given' = given \cup rs /\ UNCHANGED <<delivered, reported, pending, bigquery>>
  BY DEF WriteRows, WriteDirect, WriteBuffered, WriteFills, TakeRows, writer, bigquery
<1>2. Carries(c) = {}
  <2>1. pc[c] = "idle"
    BY DEF WriteRows, WriteDirect, WriteBuffered, WriteFills, Enter
  <2>. QED
    BY <2>1 DEF Carries
<1>3. \/ buf' = buf /\ Carries(c)' = rs /\ folded'[c] = {}
      \/ buf' = buf \cup rs /\ Carries(c)' = {} /\ folded'[c] = {}
      \/ buf' = {} /\ Carries(c)' = buf \cup rs /\ folded'[c] = {}
  <2>1. CASE WriteDirect(c, rs)
    BY <2>1 DEF WriteDirect, Enter, Carries, writer
  <2>2. CASE WriteBuffered(c, rs)
    BY <2>2, <1>2 DEF WriteBuffered, Carries, locals
  <2>3. CASE WriteFills(c, rs)
    BY <2>3 DEF WriteFills, Enter, Carries
  <2>. QED
    BY <2>1, <2>2, <2>3 DEF WriteRows
<1>4. \A d \in Callers : d # c => Carries(d)' = Carries(d) /\ folded'[d] = folded[d] /\ batch'[d] = batch[d]
  <2>1. CASE WriteBuffered(c, rs)
    BY <2>1 DEF WriteBuffered, Carries, locals
  <2>2. CASE ~WriteBuffered(c, rs)
    BY <2>2 DEF WriteRows, WriteDirect, WriteFills, Enter, Carries
  <2>. QED
    BY <2>1, <2>2
<1>5. Apart'
  BY <1>1, <1>2, <1>3, <1>4 DEF Apart, Open, Unsaid
<1>6. Open'
  BY <1>1, <1>2, <1>3, <1>4 DEF Open, Unsaid, FromGiven
<1>7. FromGiven'
  BY <1>1 DEF FromGiven, bigquery
<1>. QED
  BY <1>5, <1>6, <1>7

\* A step that says nothing and moves rows only between the buffer, pending and c.
LEMMA MoveStep ==
    ASSUME IInv, Ownership, NEW c \in Callers,
           buf' \cup pending' \cup Carries(c)' \subseteq buf \cup pending \cup Carries(c),
           buf' \cap pending' = {}, Carries(c)' \cap (buf' \cup pending') = {},
           folded'[c] \cap batch'[c] = {},
           \A d \in Callers : d # c => Carries(d)' = Carries(d) /\ folded'[d] = folded[d] /\ batch'[d] = batch[d],
           \A j \in running' : j \in running \/ j.rows \subseteq Carries(c),
           UNCHANGED <<succeeded, history>>
    PROVE  Ownership'
<1> USE DEF Ownership, history
<1>1. Apart'
  BY DEF Apart
<1>2. Open'
  BY DEF Open, Unsaid
<1>3. FromGiven'
  BY DEF FromGiven, Open, Unsaid
<1>. QED
  BY <1>1, <1>2, <1>3

LEMMA FlushOwnership ==
    ASSUME IInv, Ownership, NEW c \in Callers, FlushRows(c)
    PROVE  Ownership'
<1> USE DEF IInv, TypeOK, CallShape, FlushRows, TakePending, Enter, bigquery
<1>1. Carries(c)' = buf \cup pending /\ folded'[c] = pending /\ batch'[c] = buf /\ buf' = {} /\ pending' = {}
  <2>1. folded'[c] = pending /\ batch'[c] = buf /\ pc'[c] # "recorded"
    OBVIOUS
  <2>. QED
    BY <2>1 DEF Carries
<1>2. \A d \in Callers : d # c => Carries(d)' = Carries(d) /\ folded'[d] = folded[d] /\ batch'[d] = batch[d]
  BY DEF Carries
<1>3. buf \cap pending = {}
  BY DEF Ownership, Apart
<1>. QED
  BY <1>1, <1>2, <1>3, MoveStep

LEMMA CloseBeginOwnership ==
    ASSUME IInv, Ownership, NEW c \in Callers, CloseBegin(c)
    PROVE  Ownership'
<1> USE DEF IInv, TypeOK, CallShape, CloseBegin, Enter, bigquery
<1>1. Carries(c)' = buf /\ folded'[c] = {} /\ buf' = {} /\ pending' = pending
  BY DEF Carries
<1>2. \A d \in Callers : d # c => Carries(d)' = Carries(d) /\ folded'[d] = folded[d] /\ batch'[d] = batch[d]
  BY DEF Carries
<1>3. buf \cap pending = {}
  BY DEF Ownership, Apart
<1>. QED
  BY <1>1, <1>2, <1>3, MoveStep

LEMMA CloseCollectOwnership ==
    ASSUME IInv, Ownership, NEW c \in Callers, CloseCollect(c)
    PROVE  Ownership'
<1> USE DEF IInv, TypeOK, CallShape, CloseCollect, TakePending, bigquery
<1>1. Carries(c)' = pending \cup batch[c] /\ Carries(c) = batch[c] /\ folded'[c] = pending
  BY DEF Carries
<1>2. \A d \in Callers : d # c => Carries(d)' = Carries(d) /\ folded'[d] = folded[d] /\ batch'[d] = batch[d]
  BY DEF Carries
<1>3. Carries(c) \cap (buf \cup pending) = {} /\ buf \cap pending = {}
  BY DEF Ownership, Apart
<1>. QED
  BY <1>1, <1>2, <1>3, MoveStep

\* A point of load, or Close's way to its second critical section: nothing moves.
LEMMA StayStep ==
    ASSUME IInv, Ownership, NEW c \in Callers, NEW s \in PCs \ {"recorded"},
           pc[c] # "recorded", pc' = [pc EXCEPT ![c] = s],
           running' \subseteq running \cup {Job(c)},
           UNCHANGED <<writer, op, batch, folded, succeeded, history>>
    PROVE  Ownership'
<1> USE DEF IInv, TypeOK, writer
<1>1. \A d \in Callers : Carries(d)' = Carries(d)
  BY DEF Carries
<1>2. Job(c).rows \subseteq Carries(c)
  BY DEF Job, Carries
<1>3. Carries(c) \cap (buf \cup pending) = {} /\ buf \cap pending = {} /\ folded[c] \cap batch[c] = {}
  BY DEF Ownership, Apart
<1>. QED
  BY <1>1, <1>2, <1>3, MoveStep

LEMMA LoadOwnership ==
    ASSUME IInv, Ownership, NEW c \in Callers, Load(c) \/ CloseDrained(c)
    PROVE  Ownership'
<1>0. TypeOK
  BY DEF IInv
<1>a. {"submit", "wait", "backoff", "ok", "failed", "collect"} \subseteq PCs \ {"recorded"}
  BY DEF PCs
<1>1. CASE CloseDrained(c)
  BY <1>1, <1>a, StayStep DEF CloseDrained, Goto, bigquery
<1>2. CASE Encode(c)
  BY <1>2, <1>a, StayStep DEF Encode, Goto, bigquery
<1>3. CASE Submit(c)
  BY <1>3, <1>a, StayStep DEF Submit, Goto
<1>4. ASSUME NEW retryable \in BOOLEAN, NEW created \in BOOLEAN, SubmitFails(c, retryable, created)
      PROVE  Ownership'
  <2>1. running' \subseteq running \cup {Job(c)}
    BY <1>4 DEF SubmitFails
  <2>. QED
    BY <1>0, <1>4, <1>a, <2>1, StayStep, AttemptFailedShape DEF SubmitFails
<1>5. CASE WaitReturns(c)
  <2>1. CASE JobOK(c)
    BY <1>5, <2>1, <1>a, StayStep DEF WaitReturns, Goto, bigquery
  <2>2. CASE ~JobOK(c)
    BY <1>0, <1>5, <2>2, <1>a, StayStep, AttemptFailedShape DEF WaitReturns, bigquery
  <2>. QED
    BY <2>1, <2>2
<1>6. ASSUME NEW retryable \in BOOLEAN, WaitFails(c, retryable)
      PROVE  Ownership'
  BY <1>0, <1>6, <1>a, StayStep, AttemptFailedShape DEF WaitFails, bigquery
<1>7. ASSUME NEW cancelled \in BOOLEAN, Backoff(c, cancelled)
      PROVE  Ownership'
  BY <1>7, <1>a, StayStep DEF Backoff, Goto, bigquery
<1>. QED
  BY <1>1, <1>2, <1>3, <1>4, <1>5, <1>6, <1>7 DEF Load

LEMMA RecordPendingOwnership ==
    ASSUME IInv, Ownership, NEW c \in Callers, RecordPending(c)
    PROVE  Ownership'
<1> USE DEF IInv, TypeOK, CallShape, RecordPending, Keep, Goto, bigquery
<1>1. Carries(c)' = {} /\ Carries(c) = batch[c] /\ folded'[c] = {}
  BY DEF Carries
<1>2. \A d \in Callers : d # c => Carries(d)' = Carries(d) /\ folded'[d] = folded[d] /\ batch'[d] = batch[d]
  BY DEF Carries
<1>3. Carries(c) \cap buf = {} /\ buf \cap pending = {}
  BY DEF Ownership, Apart
<1>. QED
  BY <1>1, <1>2, <1>3, MoveStep

\* BigQuery finishing a job is nobody's move.
LEMMA JobFinishesOwnership ==
    ASSUME IInv, Ownership, NEW j \in running, JobFinishes(j)
    PROVE  Ownership'
<1> USE DEF JobFinishes, writer, locals, history, Ownership
<1>1. \A d \in Callers : Carries(d)' = Carries(d)
  BY DEF Carries
<1>2. Apart' /\ Open'
  BY <1>1 DEF Apart, Open, Unsaid
<1>3. FromGiven'
  BY DEF FromGiven
<1>. QED
  BY <1>2, <1>3

-----------------------------------------------------------------------------
(* Steps that say what became of rows *)

\* What a returning call may say: of rows it carries, each once.
LEMMA SayStep ==
    ASSUME IInv, Ownership, NEW c \in Callers, Leave(c),
           NEW counted \in SUBSET Rows, NEW lost \in SUBSET Rows,
           counted \cup lost \subseteq Carries(c),
           delivered' = delivered \cup counted, Report(lost),
           UNCHANGED <<buf, pending, given, running, succeeded>>
    PROVE  Ownership'
<1> USE DEF IInv, TypeOK, Ownership
<1>1. Carries(c)' = {} /\ folded'[c] = {}
  BY DEF Leave, Carries
<1>2. \A d \in Callers : d # c => Carries(d)' = Carries(d) /\ folded'[d] = folded[d] /\ batch'[d] = batch[d]
  BY DEF Leave, Carries
<1>3. \A r \in Rows : r \notin lost => reported'[r] = reported[r]
  BY DEF Report
<1>4. \A r \in counted \cup lost : r \in given
  BY DEF Open, Unsaid
<1>5. Apart'
  BY <1>1, <1>2 DEF Apart
<1>6. Open'
  <2>1. \A r \in buf \cup pending : r \notin counted \cup lost /\ r \in Rows
    BY DEF Apart
  <2>2. \A d \in Callers : d # c => \A r \in Carries(d) : r \notin counted \cup lost /\ r \in Rows
    BY DEF Apart, Open, Unsaid
  <2>. QED
    BY <1>1, <1>2, <1>3, <2>1, <2>2 DEF Open, Unsaid
<1>7. FromGiven'
  BY <1>3, <1>4 DEF FromGiven
<1>. QED
  BY <1>5, <1>6, <1>7

\* What each return says: the rows it counts, those it names, and that it carries them.
Says(c, counted, lost) ==
    /\ counted \cup lost \subseteq Carries(c)
    /\ counted \cap lost = {}
    /\ \A r \in counted : Landed(r)
    /\ delivered' = delivered \cup counted
    /\ Report(lost)
    /\ Leave(c)
    /\ UNCHANGED <<buf, pending, closed, given, running, succeeded>>

LEMMA ReturnsSay ==
    ASSUME IInv, Ownership, NEW c \in Callers, Return(c), ~RecordPending(c)
    PROVE  \E counted, lost \in SUBSET Rows : Says(c, counted, lost)
<1> USE DEF IInv, TypeOK, CallShape
<1>0. folded[c] \cap batch[c] = {} /\ (pc[c] # "recorded" => Carries(c) = folded[c] \cup batch[c])
  BY DEF Ownership, Apart, Carries
<1>1. CASE DirectReturns(c)
  <2>1. CASE pc[c] = "ok"
    <3>1. Says(c, batch[c], {})
      BY <1>0, <1>1, <2>1 DEF Says, DirectReturns, Tell, Report, writer, bigquery
    <3>. QED
      BY <3>1
  <2>2. CASE pc[c] = "failed"
    <3>1. Says(c, {}, batch[c])
      BY <1>0, <1>1, <2>2 DEF Says, DirectReturns, Tell, writer, bigquery
    <3>. QED
      BY <3>1
  <2>. QED
    BY <1>1, <2>1, <2>2 DEF DirectReturns
<1>2. CASE WriteReturns(c)
  <2>1. Says(c, {}, {})
    BY <1>2 DEF Says, WriteReturns, Report, bigquery, history
  <2>. QED
    BY <2>1
<1>3. CASE FlushReturns(c)
  <2>1. CASE pc[c] = "ok"
    <3>1. Says(c, batch[c], folded[c])
      BY <1>0, <1>3, <2>1 DEF Says, FlushReturns, Tell, bigquery
    <3>. QED
      BY <3>1
  <2>2. CASE pc[c] = "failed"
    <3>1. Says(c, {}, folded[c] \cup batch[c])
      BY <1>0, <1>3, <2>2 DEF Says, FlushReturns, Tell, bigquery
    <3>. QED
      BY <3>1
  <2>. QED
    BY <1>3, <2>1, <2>2 DEF FlushReturns
<1>4. CASE CloseReturns(c)
  <2>1. CASE pc[c] = "ok"
    <3>1. Says(c, {}, folded[c])
      BY <1>0, <1>4, <2>1 DEF Says, CloseReturns, Tell, writer, bigquery
    <3>. QED
      BY <3>1
  <2>2. CASE pc[c] = "failed"
    <3>1. Says(c, {}, folded[c] \cup batch[c])
      BY <1>0, <1>4, <2>2 DEF Says, CloseReturns, Tell, writer, bigquery
    <3>. QED
      BY <3>1
  <2>. QED
    BY <1>4, <2>1, <2>2 DEF CloseReturns
<1>. QED
  BY <1>1, <1>2, <1>3, <1>4 DEF Return

LEMMA ReturnOwnership ==
    ASSUME IInv, Ownership, NEW c \in Callers, Return(c)
    PROVE  Ownership'
<1>1. CASE RecordPending(c)
  BY <1>1, RecordPendingOwnership
<1>2. CASE ~RecordPending(c)
  <2>1. PICK counted \in SUBSET Rows, lost \in SUBSET Rows : Says(c, counted, lost)
    BY <1>2, ReturnsSay
  <2>. QED
    BY <2>1, SayStep DEF Says
<1>. QED
  BY <1>1, <1>2

LEMMA NextOwnership == IInv /\ Ownership /\ [Next]_vars => Ownership'
<1> SUFFICES ASSUME IInv, Ownership, [Next]_vars PROVE Ownership'
  OBVIOUS
<1>1. CASE BindSchema \/ UNCHANGED vars
  <2>1. UNCHANGED <<buf, pending, locals, bigquery, history>>
    BY <1>1 DEF BindSchema, vars, writer
  <2>2. \A d \in Callers : Carries(d)' = Carries(d)
    BY <2>1 DEF Carries, locals
  <2>. QED
    BY <2>1, <2>2 DEF Ownership, Apart, Open, Unsaid, FromGiven, locals, bigquery, history
<1>2. ASSUME NEW c \in Callers, NEW rs \in SUBSET Rows, WriteRows(c, rs)
      PROVE  Ownership'
  BY <1>2, TakeStep
<1>3. ASSUME NEW c \in Callers, FlushRows(c) \/ CloseBegin(c)
      PROVE  Ownership'
  BY <1>3, FlushOwnership, CloseBeginOwnership
<1>4. ASSUME NEW c \in Callers, Continue(c)
      PROVE  Ownership'
  BY <1>4, CloseCollectOwnership, LoadOwnership, ReturnOwnership DEF Continue
<1>5. ASSUME NEW j \in running, JobFinishes(j)
      PROVE  Ownership'
  BY <1>5, JobFinishesOwnership
<1>. QED
  BY <1>1, <1>2, <1>3, <1>4, <1>5 DEF Next

\* At every point of every behaviour a row is in the care of one party at most,
\* and nothing has been said of it while it is in anybody's.
THEOREM OneOwner == Spec => []Ownership
<1>1. Init => Ownership
  BY InitOwnership
<1>2. IInv /\ Ownership /\ [Next]_vars => Ownership'
  BY NextOwnership
<1>. QED
  BY <1>1, <1>2, InductiveInvariant, PTL DEF Spec

-----------------------------------------------------------------------------
(* Every step is a step of the contract, or changes nothing of it *)

LEMMA InitContract == Init => Contract!Init
BY DEF Init, Contract!Init

\* The steps that neither take rows nor say anything nor reach the table.
LEMMA SilentStep ==
    ASSUME UNCHANGED <<closed, succeeded, history>>
    PROVE  UNCHANGED Contract!vars
BY DEF history, Contract!vars

LEMMA TakeContract ==
    ASSUME NEW c \in Callers, NEW rs \in SUBSET Rows, WriteRows(c, rs)
    PROVE  Contract!Next
<1>1. /\ ~closed /\ closed' = closed
      /\ rs \cap given = {} /\ given' = given \cup rs
      /\ UNCHANGED <<delivered, reported, succeeded>>
  BY DEF WriteRows, WriteDirect, WriteBuffered, WriteFills, Accepting, TakeRows, writer, bigquery
<1>2. Contract!Take(rs)
  BY <1>1 DEF Contract!Take
<1>. QED
  BY <1>2 DEF Contract!Next

LEMMA LandContract ==
    ASSUME Ownership, NEW j \in running, JobFinishes(j)
    PROVE  Contract!Next \/ UNCHANGED Contract!vars
<1> USE DEF JobFinishes, writer, history
<1>1. CASE succeeded' = succeeded
  BY <1>1, SilentStep
<1>2. CASE succeeded' = succeeded \cup {j}
  <2>1. j.rows \subseteq given
    BY DEF Ownership, FromGiven
  <2>2. UNION {k.rows : k \in succeeded'} = (UNION {k.rows : k \in succeeded}) \cup j.rows
    BY <1>2
  <2>3. Contract!Land(j.rows)
    BY <2>1, <2>2 DEF Contract!Land
  <2>. QED
    BY <2>1, <2>3 DEF Contract!Next
<1>. QED
  BY <1>1, <1>2

LEMMA TellContract ==
    ASSUME IInv, Ownership, NEW c \in Callers, NEW counted \in SUBSET Rows, NEW lost \in SUBSET Rows,
           Says(c, counted, lost)
    PROVE  Contract!Next
<1>1. \A r \in counted \cup lost : Unsaid(r)
  BY DEF Says, Ownership, Open
<1>2. counted \subseteq UNION {k.rows : k \in succeeded}
  BY DEF Says, Landed
<1>3. lost \subseteq given
  BY <1>1 DEF Unsaid
<1>4. Contract!Tell(counted, lost)
  BY <1>1, <1>2, <1>3 DEF Says, Report, Unsaid, Contract!Tell, Contract!Unsettled, Contract!Names
<1>. QED
  BY <1>2, <1>3, <1>4 DEF Contract!Next

LEMMA StepContract ==
    ASSUME IInv, Ownership, [Next]_vars
    PROVE  [Contract!Next]_(Contract!vars)
<1>1. CASE BindSchema \/ UNCHANGED vars
  BY <1>1, SilentStep DEF BindSchema, vars, writer, bigquery, history
<1>2. ASSUME NEW c \in Callers, NEW rs \in SUBSET Rows, WriteRows(c, rs)
      PROVE  Contract!Next
  BY <1>2, TakeContract
<1>3. ASSUME NEW c \in Callers, FlushRows(c)
      PROVE  UNCHANGED Contract!vars
  BY <1>3, SilentStep DEF FlushRows, bigquery
<1>4. ASSUME NEW c \in Callers, CloseBegin(c)
      PROVE  Contract!Next
  BY <1>4 DEF CloseBegin, bigquery, history, Contract!Next, Contract!Close
<1>5. ASSUME NEW c \in Callers, CloseDrained(c) \/ CloseCollect(c) \/ Load(c) \/ RecordPending(c)
      PROVE  UNCHANGED Contract!vars
  BY <1>5, SilentStep
     DEF CloseDrained, CloseCollect, Load, Encode, Submit, SubmitFails, WaitReturns, WaitFails, Backoff,
         RecordPending, writer, bigquery
<1>6. ASSUME NEW c \in Callers, Return(c), ~RecordPending(c)
      PROVE  Contract!Next
  BY <1>6, ReturnsSay, TellContract
<1>7. ASSUME NEW j \in running, JobFinishes(j)
      PROVE  Contract!Next \/ UNCHANGED Contract!vars
  BY <1>7, LandContract
<1>8. ASSUME NEW c \in Callers, Continue(c)
      PROVE  Contract!Next \/ UNCHANGED Contract!vars
  BY <1>5, <1>6, <1>8 DEF Continue
<1>. QED
  BY <1>1, <1>2, <1>3, <1>4, <1>7, <1>8 DEF Next

\* The load job transport is a RowsWriter: rows are taken only while it is open, a
\* count is of rows in the table, and an error names a row once and no counted one,
\* whichever of WriteRows, FlushRows and Close it comes from.
THEOREM LoadJobsImplementsRowsWriter == Spec => ImplementsRowsWriter
<1>1. Init => Contract!Init
  BY InitContract
<1>2. IInv /\ Ownership /\ [Next]_vars => [Contract!Next]_(Contract!vars)
  BY StepContract
<1>. QED
  BY <1>1, <1>2, InductiveInvariant, OneOwner, PTL DEF Spec, ImplementsRowsWriter, Contract!Spec

\* So what RowsWriter gives its users holds of the load job transport: a counted row is
\* in the table and named by no error, though retries and lost answers land rows late.
THEOREM LoadJobsTruthful == Spec => []Contract!Truthful
BY LoadJobsImplementsRowsWriter, Contract!ContractIsTruthful, PTL DEF ImplementsRowsWriter

\* And what a caller of WriteRows, FlushRows or Close was told of a row is final: a row
\* in an error is in no later count or error, though a job it was part of may go on.
THEOREM LoadJobsVerdictsStand == Spec => Contract!VerdictsFinal
BY LoadJobsImplementsRowsWriter, Contract!VerdictsStand, PTL DEF ImplementsRowsWriter

-----------------------------------------------------------------------------
(* The buffer *)

LEMMA HeldStep == IInv /\ HeldBounded /\ [Next]_vars => HeldBounded'
<1> SUFFICES ASSUME IInv, HeldBounded, [Next]_vars PROVE HeldBounded'
  OBVIOUS
<1>1. flushRows' = flushRows /\ flushRows \in Nat
  BY FlushRowsAssumption
     DEF IInv, TypeOK, Next, BindSchema, WriteRows, WriteDirect, WriteBuffered, WriteFills, FlushRows,
         CloseBegin, Continue, CloseDrained, CloseCollect, Load, Encode, Submit, SubmitFails, WaitReturns,
         WaitFails, Backoff, Return, DirectReturns, RecordPending, WriteReturns, FlushReturns, CloseReturns,
         JobFinishes, writer, vars
<1>2. \/ buf' = buf
      \/ buf' = {}
      \/ \E rs \in SUBSET Rows : buf' = buf \cup rs /\ ~Full(buf \cup rs)
  BY DEF Next, BindSchema, WriteRows, WriteDirect, WriteBuffered, WriteFills, FlushRows,
         CloseBegin, Continue, CloseDrained, CloseCollect, Load, Encode, Submit, SubmitFails, WaitReturns,
         WaitFails, Backoff, Return, DirectReturns, RecordPending, WriteReturns, FlushReturns, CloseReturns,
         JobFinishes, writer, vars
<1>3. CASE buf' = {}
  BY <1>1, <1>3, FS_EmptySet DEF HeldBounded
<1>4. ASSUME NEW rs \in SUBSET Rows, buf' = buf \cup rs, ~Full(buf \cup rs)
      PROVE  HeldBounded'
  <2>1. buf' \in SUBSET Rows
    BY <1>4 DEF IInv, TypeOK
  <2>2. Cardinality(buf') \in Nat
    BY <2>1, RowsAssumption, FS_Subset, FS_CardinalityType
  <2>. QED
    BY <1>1, <1>4, <2>2 DEF HeldBounded, Full
<1>. QED
  BY <1>1, <1>2, <1>3, <1>4 DEF HeldBounded

\* Between calls the buffer is never full, however many goroutines fill it.
THEOREM NeverHoldsFlushRows == Spec => []HeldBounded
<1>1. Init => HeldBounded
  BY FlushRowsAssumption, FS_EmptySet DEF Init, HeldBounded
<1>. QED
  BY <1>1, HeldStep, InductiveInvariant, PTL DEF Spec

-----------------------------------------------------------------------------
(* The WaitGroup *)

\* No wg.Add can meet Close's wg.Wait, whatever calls Close finds in progress.
THEOREM NoAddAfterClose == Spec => AddBeforeWait
<1>1. IInv /\ [Next]_vars => [closed => wg' <= wg]_vars
  <2> SUFFICES ASSUME IInv, Next, closed PROVE wg' <= wg
    BY DEF vars
  <2>1. wg \in Nat
    BY DEF IInv, TypeOK
  <2>2. wg' = wg \/ wg' = wg - 1
    BY DEF Next, BindSchema, WriteRows, WriteDirect, WriteBuffered, WriteFills, Accepting, FlushRows,
           CloseBegin, Continue, CloseDrained, CloseCollect, Load, Encode, Submit, SubmitFails, WaitReturns,
           WaitFails, Backoff, Return, DirectReturns, RecordPending, WriteReturns, FlushReturns, FlushDone,
           CloseReturns, JobFinishes, writer
  <2>. QED
    BY <2>1, <2>2
<1>. QED
  BY <1>1, InductiveInvariant, PTL DEF Spec, AddBeforeWait

-----------------------------------------------------------------------------
(* Duplicates *)

Sent == running \cup succeeded

\* Batches are taken from the buffer and never mixed again.
BatchesApart ==
    /\ \A c \in Callers : batch[c] \subseteq given /\ batch[c] \cap buf = {}
    /\ \A c, d \in Callers : c # d => batch[c] \cap batch[d] = {}
    /\ \A c \in Callers : pc[c] \in {"submit", "wait", "backoff"} => Renders(batch[c])

\* A job carries a whole batch, which no buffer and no other batch shares.
JobsApart ==
    /\ \A j \in Sent : j.rows \cap Unencodable = {}
    /\ \A j \in Sent : j.rows \cap buf = {}
    /\ \A j \in Sent, c \in Callers : j.rows \cap batch[c] # {} => j.rows = batch[c]
    /\ \A j, k \in Sent : j.rows \cap k.rows # {} => j.rows = k.rows

WholeBatches == BatchesApart /\ JobsApart

LEMMA InitWholeBatches == Init => WholeBatches
BY DEF Init, WholeBatches, BatchesApart, JobsApart, Sent

\* Calls take batches of fresh rows, or the buffer, or give theirs up.
LEMMA BatchStep ==
    ASSUME IInv, Ownership, WholeBatches, NEW c \in Callers,
           NEW rs \in SUBSET Rows, rs \cap given = {}, given' = given \cup rs,
           \/ buf' = buf /\ batch'[c] \in {rs, batch[c], {}}
           \/ buf' = buf \cup rs /\ batch'[c] = batch[c]
           \/ buf' = {} /\ batch'[c] = buf \cup rs,
           \A d \in Callers : d # c => batch'[d] = batch[d] /\ pc'[d] = pc[d],
           pc'[c] \in {"submit", "wait", "backoff"} => pc'[c] = pc[c] /\ batch'[c] = batch[c],
           UNCHANGED bigquery
    PROVE  WholeBatches'
<1> USE DEF WholeBatches, bigquery
<1>1. \A j \in Sent : j.rows \subseteq given
  BY DEF Ownership, FromGiven, Sent
<1>2. buf \subseteq given
  BY DEF Ownership, Open, Unsaid
<1>3. BatchesApart'
  BY <1>2 DEF BatchesApart, Renders
<1>4. JobsApart'
  BY <1>1 DEF JobsApart, Sent
<1>. QED
  BY <1>3, <1>4

\* Calls only move between points of load, and may have submitted their batch.
LEMMA AttemptStep ==
    ASSUME IInv, WholeBatches, NEW c \in Callers, NEW s \in PCs,
           pc' = [pc EXCEPT ![c] = s],
           s \in {"submit", "wait", "backoff"} => Renders(batch[c]),
           running' = running \/ (running' = running \cup {Job(c)} /\ Renders(batch[c])),
           UNCHANGED <<buf, batch, given, succeeded>>
    PROVE  WholeBatches'
<1> USE DEF WholeBatches, IInv, TypeOK
<1>1. BatchesApart'
  BY DEF BatchesApart, Renders
<1>2. Job(c).rows = batch[c]
  BY DEF Job
<1>3. JobsApart'
  <2>1. CASE running' = running
    BY <2>1 DEF JobsApart, Sent
  <2>2. CASE running' = running \cup {Job(c)} /\ Renders(batch[c])
    <3>1. \A j \in Sent' : j \in Sent \/ j.rows = batch[c]
      BY <1>2, <2>2 DEF Sent
    <3>. QED
      BY <3>1, <2>2 DEF JobsApart, BatchesApart, Renders
  <2>. QED
    BY <2>1, <2>2
<1>. QED
  BY <1>1, <1>3

LEMMA EntryBatches ==
    ASSUME IInv, Ownership, WholeBatches, NEW c \in Callers
    PROVE  /\ \A rs \in SUBSET Rows : WriteRows(c, rs) => WholeBatches'
           /\ FlushRows(c) \/ CloseBegin(c) => WholeBatches'
<1>1. ASSUME NEW rs \in SUBSET Rows, WriteRows(c, rs)
      PROVE  WholeBatches'
  <2>1. CASE WriteDirect(c, rs)
    BY <2>1, BatchStep DEF WriteDirect, TakeRows, Enter, writer, IInv, TypeOK
  <2>2. CASE WriteBuffered(c, rs)
    BY <2>2, BatchStep DEF WriteBuffered, TakeRows, locals, IInv, TypeOK
  <2>3. CASE WriteFills(c, rs)
    BY <2>3, BatchStep DEF WriteFills, TakeRows, Enter, IInv, TypeOK
  <2>. QED
    BY <1>1, <2>1, <2>2, <2>3 DEF WriteRows
<1>2. ASSUME FlushRows(c) \/ CloseBegin(c)
      PROVE  WholeBatches'
  <2>1. /\ {} \in SUBSET Rows /\ {} \cap given = {} /\ given' = given \cup {}
        /\ buf' = {} /\ batch'[c] = buf \cup {}
        /\ pc'[c] \notin {"submit", "wait", "backoff"}
        /\ \A d \in Callers : d # c => batch'[d] = batch[d] /\ pc'[d] = pc[d]
        /\ UNCHANGED bigquery
    BY <1>2 DEF FlushRows, CloseBegin, Enter, history, IInv, TypeOK
  <2>. QED
    BY <2>1, BatchStep
<1>. QED
  BY <1>1, <1>2

LEMMA CallBatches ==
    ASSUME IInv, Ownership, WholeBatches, NEW c \in Callers, Continue(c)
    PROVE  WholeBatches'
<1>0. TypeOK
  BY DEF IInv
<1>a. {"encode", "submit", "wait", "backoff", "ok", "failed", "recorded", "collect"} \subseteq PCs
  BY DEF PCs
<1>b. pc[c] \in {"submit", "wait", "backoff"} => Renders(batch[c])
  BY DEF WholeBatches, BatchesApart
<1>1. CASE CloseDrained(c)
  BY <1>1, <1>a, AttemptStep DEF CloseDrained, Goto, writer, bigquery, history
<1>2. CASE CloseCollect(c)
  BY <1>2, <1>a, AttemptStep DEF CloseCollect, bigquery, history
<1>3. CASE Encode(c)
  <2>1. CASE Renders(batch[c])
    BY <1>3, <2>1, <1>a, AttemptStep DEF Encode, Goto, writer, bigquery, history
  <2>2. CASE ~Renders(batch[c])
    BY <1>3, <2>2, <1>a, AttemptStep DEF Encode, Goto, writer, bigquery, history
  <2>. QED
    BY <2>1, <2>2
<1>4. CASE Submit(c)
  BY <1>4, <1>a, <1>b, AttemptStep DEF Submit, Goto, writer, history
<1>5. ASSUME NEW retryable \in BOOLEAN, NEW created \in BOOLEAN, SubmitFails(c, retryable, created)
      PROVE  WholeBatches'
  <2>1. running' = running \/ running' = running \cup {Job(c)}
    BY <1>5 DEF SubmitFails
  <2>. QED
    BY <1>0, <1>5, <1>a, <1>b, <2>1, AttemptFailedShape, AttemptStep DEF SubmitFails, writer, history
<1>6. CASE WaitReturns(c)
  <2>1. CASE JobOK(c)
    BY <1>6, <2>1, <1>a, AttemptStep DEF WaitReturns, Goto, writer, bigquery, history
  <2>2. CASE ~JobOK(c)
    BY <1>0, <1>6, <2>2, <1>a, <1>b, AttemptFailedShape, AttemptStep DEF WaitReturns, writer, bigquery, history
  <2>. QED
    BY <2>1, <2>2
<1>7. ASSUME NEW retryable \in BOOLEAN, WaitFails(c, retryable)
      PROVE  WholeBatches'
  BY <1>0, <1>7, <1>a, <1>b, AttemptFailedShape, AttemptStep DEF WaitFails, writer, bigquery, history
<1>8. ASSUME NEW cancelled \in BOOLEAN, Backoff(c, cancelled)
      PROVE  WholeBatches'
  BY <1>8, <1>a, <1>b, AttemptStep DEF Backoff, Goto, writer, bigquery, history
<1>9. CASE RecordPending(c)
  BY <1>9, <1>a, AttemptStep DEF RecordPending, Goto, bigquery, history
<1>10. ASSUME Return(c), ~RecordPending(c)
       PROVE  WholeBatches'
  <2>1. PICK counted \in SUBSET Rows, lost \in SUBSET Rows : Says(c, counted, lost)
    BY <1>10, ReturnsSay
  <2>2. /\ {} \in SUBSET Rows /\ {} \cap given = {} /\ given' = given \cup {}
        /\ buf' = buf /\ batch'[c] = {}
        /\ pc'[c] \notin {"submit", "wait", "backoff"}
        /\ \A d \in Callers : d # c => batch'[d] = batch[d] /\ pc'[d] = pc[d]
        /\ UNCHANGED bigquery
    BY <1>0, <2>1 DEF Says, Leave, bigquery, TypeOK
  <2>. QED
    BY <2>2, BatchStep
<1>. QED
  BY <1>1, <1>2, <1>3, <1>4, <1>5, <1>6, <1>7, <1>8, <1>9, <1>10 DEF Continue, Load

LEMMA NextWholeBatches == IInv /\ Ownership /\ WholeBatches /\ [Next]_vars => WholeBatches'
<1> SUFFICES ASSUME IInv, Ownership, WholeBatches, [Next]_vars PROVE WholeBatches'
  OBVIOUS
<1>1. CASE BindSchema \/ UNCHANGED vars
  <2>1. UNCHANGED <<buf, pc, batch, given, running, succeeded>>
    BY <1>1 DEF BindSchema, vars, writer, locals, bigquery, history
  <2>. QED
    BY <2>1 DEF WholeBatches, BatchesApart, JobsApart, Sent, Renders
<1>2. ASSUME NEW j \in running, JobFinishes(j)
      PROVE  WholeBatches'
  <2>1. UNCHANGED <<buf, pc, batch, given>> /\ Sent' \subseteq Sent
    BY <1>2 DEF JobFinishes, writer, locals, history, Sent
  <2>. QED
    BY <2>1 DEF WholeBatches, BatchesApart, JobsApart, Renders
<1>. QED
  BY <1>1, <1>2, EntryBatches, CallBatches DEF Next

\* Rows reach the table in whole batches: a row lands at most as often as the policy
\* allows attempts, always with the same companions, and never if one of them could
\* not be rendered.
THEOREM DuplicatesStayWithinABatch == Spec => []DuplicatesBounded
<1>1. TypeOK /\ WholeBatches => DuplicatesBounded
  <2> SUFFICES ASSUME TypeOK, WholeBatches, NEW r \in Rows
               PROVE  Cardinality({j \in succeeded : r \in j.rows}) <= migrateMaxRetries + 1
    BY DEF DuplicatesBounded, WholeBatches, JobsApart, Sent
  <2> DEFINE J == {j \in succeeded : r \in j.rows}
             f == [j \in J |-> j.attempt]
  <2>1. \A j, k \in J : j.attempt = k.attempt => j = k
    BY DEF TypeOK, Jobs, WholeBatches, JobsApart, Sent
  <2>2. f \in Injection(J, 0..migrateMaxRetries)
    BY <2>1 DEF Injection, IsInjective, TypeOK, Jobs
  <2>3. /\ IsFiniteSet(0..migrateMaxRetries)
        /\ Cardinality(0..migrateMaxRetries) = migrateMaxRetries + 1
    BY RetriesAssumption, FS_Interval
  <2>4. Cardinality(J) <= Cardinality(0..migrateMaxRetries)
    BY <2>2, <2>3, FS_Injection
  <2>. QED
    BY <2>3, <2>4
<1>2. Init => WholeBatches
  BY InitWholeBatches
<1>. QED
  BY <1>1, <1>2, NextWholeBatches, TypeCorrect, InductiveInvariant, OneOwner, PTL DEF Spec
=============================================================================
