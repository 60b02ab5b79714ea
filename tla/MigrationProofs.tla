--------------------------- MODULE MigrationProofs ---------------------------
(***************************************************************************)
(* Safety of concurrent migrations for any number of replicas, any         *)
(* declarations, strategies and initial table, and any retry limit.        *)
(*                                                                         *)
(* What carries the proofs is that an ETag still current means the         *)
(* metadata is: a replica about to create or patch whose etag is the       *)
(* table's has the table itself in hand.                                   *)
(***************************************************************************)
EXTENDS Migration, TLAPS

Applying == {"create", "patch"}

\* Metadata whose etag is current is current.
Current ==
    \A r \in Replicas :
        /\ pc[r] = "create" => ~md[r].table.exists
        /\ pc[r] \in Applying /\ md[r].etag = etag => md[r].table = table

\* Each concurrent change a replica met was made by another one, before the
\* replica last read the table if it is about to change it.
Charged ==
    \A r \in Replicas :
        /\ conflicts[r] + own[r] <= etag
        /\ pc[r] \in Applying => conflicts[r] + own[r] <= md[r].etag

\* Each retry was spent on a concurrent change or on a fault.
Spent ==
    \A r \in Replicas :
        /\ retries[r] <= conflicts[r] + faults[r]
        /\ startErr[r] = "concurrent" => conflicts[r] + faults[r] > migrateMaxRetries
        /\ startErr[r] # "none" => pc[r] = "failed"

IInv == TypeOK /\ Current /\ Charged /\ Spent

LEMMA InitIInv == Init => IInv
<1> SUFFICES ASSUME Init PROVE IInv
  OBVIOUS
<1>0. 0 \in 0..migrateMaxRetries
  BY MigrationAssumption
<1>1. \A r \in Replicas : pc[r] = "read" /\ md[r].etag = 0 /\ startErr[r] = "none"
  BY DEF Init
<1>2. PerReplica(md) /\ PerReplica(change)
  BY DEF Init, PerReplica
<1>3. /\ pc \in [Replicas -> PCs]
      /\ startErr \in [Replicas -> Errors]
      /\ retries \in [Replicas -> 0..migrateMaxRetries]
  BY <1>0 DEF Init, PCs, Errors
<1>4. table.exists \in BOOLEAN
  <2>1. table = Missing \/ table = Existing(table.schema)
    BY TablesAssumption DEF Init
  <2>2. Missing.exists = FALSE /\ Existing(table.schema).exists = TRUE
    BY DEF Missing, Existing
  <2>3. table.exists = FALSE \/ table.exists = TRUE
    BY <2>1, <2>2, Zenon
  <2> QED
    BY <2>3
<1>5. TypeOK
  BY <1>1, <1>2, <1>3, <1>4 DEF Init, TypeOK
<1>6. Current
  BY <1>1 DEF Current, Applying
<1>7. Charged
  BY <1>1 DEF Init, Charged, Applying
<1>8. Spent
  BY <1>1 DEF Init, Spent
<1>. QED
  BY <1>5, <1>6, <1>7, <1>8 DEF IInv

-----------------------------------------------------------------------------
(* Facts the steps share *)

\* An attempt that ends in an error moves r alone, to a sleep or to the end.
LEMMA AttemptFailedShape ==
    ASSUME TypeOK, NEW r \in Replicas, NEW e \in Errors \ {"none"}, NEW retryable \in BOOLEAN,
           AttemptFailed(r, e, retryable)
    PROVE  /\ pc' \in [Replicas -> PCs]
           /\ retries' \in [Replicas -> 0..migrateMaxRetries]
           /\ startErr' \in [Replicas -> Errors]
           /\ pc'[r] \in {"backoff", "failed"}
           /\ \A q \in Replicas \ {r} :
                /\ pc'[q] = pc[q]
                /\ retries'[q] = retries[q]
                /\ startErr'[q] = startErr[q]
           /\ retries'[r] <= retries[r] + 1
           /\ ~retryable => retries'[r] = retries[r]
           /\ startErr'[r] \in {startErr[r], e}
           /\ startErr'[r] # startErr[r] => pc'[r] = "failed"
           /\ pc'[r] = "backoff" => startErr'[r] = startErr[r]
           /\ pc'[r] = "failed" => startErr'[r] = e
           /\ pc'[r] = "failed" /\ retryable => retries[r] >= migrateMaxRetries
<1>0. retries[r] \in Nat /\ migrateMaxRetries \in Nat
  BY MigrationAssumption DEF TypeOK
<1>1. CASE Retry(retries[r], retryable)
  <2>1. retries[r] + 1 \in 0..migrateMaxRetries
    BY <1>0, <1>1 DEF Retry
  <2>2. retryable
    BY <1>1 DEF Retry
  <2>. QED
    BY <1>0, <1>1, <2>1, <2>2 DEF AttemptFailed, TypeOK, PCs
<1>2. CASE ~Retry(retries[r], retryable)
  <2>1. retryable => retries[r] >= migrateMaxRetries
    BY <1>0, <1>2 DEF Retry
  <2>. QED
    BY <1>0, <1>2, <2>1 DEF AttemptFailed, TypeOK, PCs
<1>. QED
  BY <1>1, <1>2

\* Every replica but r keeps its place, its metadata and its counts.
OthersAlone(r) ==
    \A q \in Replicas \ {r} :
        /\ pc'[q] = pc[q] /\ md'[q] = md[q] /\ own'[q] = own[q]
        /\ retries'[q] = retries[q] /\ startErr'[q] = startErr[q]
        /\ conflicts'[q] = conflicts[q] /\ faults'[q] = faults[q]

\* The types of everything a step of a replica may change but the table.
LocalTypes ==
    /\ pc' \in [Replicas -> PCs]
    /\ PerReplica(md)' /\ PerReplica(change)'
    /\ retries' \in [Replicas -> 0..migrateMaxRetries]
    /\ startErr' \in [Replicas -> Errors]
    /\ conflicts' \in [Replicas -> Nat]
    /\ faults' \in [Replicas -> Nat]

\* r's part of Spent after the step.
SpentBy(r) ==
    /\ retries'[r] <= conflicts'[r] + faults'[r]
    /\ startErr'[r] = "concurrent" => conflicts'[r] + faults'[r] > migrateMaxRetries
    /\ startErr'[r] # "none" => pc'[r] = "failed"

\* A step of r that leaves the table alone preserves the invariant if r's own
\* part of it holds afterwards.
LEMMA LocalStep ==
    ASSUME IInv, NEW r \in Replicas, KeepTable, UNCHANGED settings,
           LocalTypes, OthersAlone(r), SpentBy(r),
           md'[r].etag \in 0..etag,
           pc'[r] = "create" => ~md'[r].table.exists,
           pc'[r] \in Applying => md'[r].etag = etag /\ md'[r].table = table,
           conflicts'[r] + own[r] <= etag
    PROVE  IInv'
<1> USE DEF KeepTable, settings, OthersAlone
<1>0. \A q \in Replicas : q = r \/ q \in Replicas \ {r}
  OBVIOUS
<1>1. TypeOK'
  BY DEF IInv, TypeOK, LocalTypes
<1>2. Current'
  BY <1>0 DEF IInv, Current
<1>3. Charged'
  BY <1>0 DEF IInv, Charged
<1>4. Spent'
  BY <1>0 DEF IInv, Spent, SpentBy
<1>. QED
  BY <1>1, <1>2, <1>3, <1>4 DEF IInv

\* So does a step of r that changes the table, because it makes every other
\* replica's metadata old.
LEMMA ChangeStep ==
    ASSUME IInv, NEW r \in Replicas, NEW t, t.exists \in BOOLEAN,
           SetTable(r, t), UNCHANGED <<settings, md, conflicts>>,
           LocalTypes, OthersAlone(r), SpentBy(r), pc'[r] \notin Applying
    PROVE  IInv'
<1> USE DEF SetTable, settings, OthersAlone
<1>0. \A q \in Replicas : q = r \/ q \in Replicas \ {r}
  OBVIOUS
<1>1. own' \in [Replicas -> Nat] /\ own'[r] = own[r] + 1 /\ etag' = etag + 1 /\ etag \in Nat
  BY DEF IInv, TypeOK
<1>2. \A q \in Replicas : md[q].etag \in 0..etag
  BY DEF IInv, TypeOK
<1>3. TypeOK'
  BY <1>1, <1>2 DEF IInv, TypeOK, LocalTypes
<1>4. Current'
  BY <1>0, <1>1, <1>2 DEF IInv, Current, Applying
<1>5. Charged'
  <2>1. \A q \in Replicas : conflicts[q] \in Nat /\ own[q] \in Nat
    BY DEF IInv, TypeOK
  <2>. QED
    BY <1>0, <1>1, <1>2, <2>1 DEF IInv, Charged
<1>6. Spent'
  BY <1>0 DEF IInv, Spent, SpentBy
<1>. QED
  BY <1>3, <1>4, <1>5, <1>6 DEF IInv

\* Proceeding is a local step that spends nothing.
LEMMA ProceedShape ==
    ASSUME IInv, NEW r \in Replicas, NEW s \in PCs, Proceed(r, s), pc[r] # "failed"
    PROVE  /\ pc' \in [Replicas -> PCs] /\ pc'[r] = s
           /\ \A q \in Replicas \ {r} : pc'[q] = pc[q]
           /\ SpentBy(r)
           /\ retries' \in [Replicas -> 0..migrateMaxRetries]
           /\ startErr' \in [Replicas -> Errors]
           /\ conflicts' \in [Replicas -> Nat]
           /\ faults' \in [Replicas -> Nat]
BY DEF Proceed, IInv, TypeOK, Spent, SpentBy

\* A fault or a refused plan keeps r within its budget.
LEMMA FaultShape ==
    ASSUME IInv, NEW r \in Replicas, NEW retryable \in BOOLEAN, Fault(r, retryable), pc[r] # "failed"
    PROVE  /\ pc' \in [Replicas -> PCs] /\ pc'[r] \in {"backoff", "failed"}
           /\ \A q \in Replicas \ {r} :
                /\ pc'[q] = pc[q] /\ retries'[q] = retries[q]
                /\ startErr'[q] = startErr[q] /\ faults'[q] = faults[q]
           /\ conflicts' = conflicts
           /\ SpentBy(r)
           /\ retries' \in [Replicas -> 0..migrateMaxRetries]
           /\ startErr' \in [Replicas -> Errors]
           /\ faults' \in [Replicas -> Nat]
<1>1. "other" \in Errors \ {"none"}
  BY DEF Errors
<1>2. faults' \in [Replicas -> Nat] /\ faults'[r] = faults[r] + 1
  BY DEF Fault, IInv, TypeOK
<1>3. \A q \in Replicas \ {r} : faults'[q] = faults[q]
  BY DEF Fault, IInv, TypeOK
<1>4. SpentBy(r)
  <2>1. retries[r] <= conflicts[r] + faults[r] /\ startErr[r] = "none"
    BY DEF IInv, Spent
  <2>2. retries[r] \in Nat /\ retries'[r] \in Nat /\ conflicts[r] \in Nat /\ faults[r] \in Nat
    BY <1>1, AttemptFailedShape, MigrationAssumption DEF IInv, TypeOK, Fault
  <2>. QED
    BY <1>1, <1>2, <2>1, <2>2, AttemptFailedShape DEF Fault, SpentBy, IInv
<1>. QED
  BY <1>1, <1>2, <1>3, <1>4, AttemptFailedShape DEF Fault, IInv

LEMMA RefusedShape ==
    ASSUME IInv, NEW r \in Replicas, NEW e \in {"ErrSchemaConflict", "ErrTableMissing", "statement"},
           AttemptFailed(r, e, FALSE), UNCHANGED <<conflicts, faults>>, pc[r] # "failed"
    PROVE  /\ pc' \in [Replicas -> PCs] /\ pc'[r] \in {"backoff", "failed"}
           /\ \A q \in Replicas \ {r} :
                pc'[q] = pc[q] /\ retries'[q] = retries[q] /\ startErr'[q] = startErr[q]
           /\ SpentBy(r)
           /\ retries' \in [Replicas -> 0..migrateMaxRetries]
           /\ startErr' \in [Replicas -> Errors]
<1>1. e \in Errors \ {"none"}
  BY DEF Errors
<1>2. retries[r] <= conflicts[r] + faults[r] /\ startErr[r] = "none"
  BY DEF IInv, Spent
<1>. QED
  BY <1>1, <1>2, AttemptFailedShape DEF IInv, SpentBy

\* A concurrent change is charged to a replica that changed the table after r
\* read it.
LEMMA ConflictStep ==
    ASSUME IInv, NEW r \in Replicas, Conflict(r), KeepTable, UNCHANGED <<settings, md, change>>,
           pc[r] \in Applying, md[r].etag # etag
    PROVE  IInv'
<1>1. "concurrent" \in Errors \ {"none"}
  BY DEF Errors
<1>2. conflicts' \in [Replicas -> Nat] /\ conflicts'[r] = conflicts[r] + 1
  BY DEF Conflict, IInv, TypeOK
<1>3. \A q \in Replicas \ {r} : conflicts'[q] = conflicts[q]
  BY DEF Conflict, IInv, TypeOK
<1>4. /\ conflicts[r] \in Nat /\ faults[r] \in Nat /\ own[r] \in Nat /\ etag \in Nat
      /\ md[r].etag \in 0..etag /\ retries[r] \in Nat /\ migrateMaxRetries \in Nat
  BY MigrationAssumption DEF IInv, TypeOK
<1>5. conflicts'[r] + own[r] <= etag
  BY <1>2, <1>4 DEF IInv, Charged
<1>6. /\ retries' \in [Replicas -> 0..migrateMaxRetries]
      /\ retries'[r] <= retries[r] + 1
      /\ startErr'[r] # startErr[r] => pc'[r] = "failed"
      /\ pc'[r] = "failed" => retries[r] >= migrateMaxRetries
  <2>1. TypeOK /\ AttemptFailed(r, "concurrent", TRUE) /\ TRUE \in BOOLEAN
    BY DEF IInv, Conflict
  <2>. QED
    BY <1>1, <2>1, AttemptFailedShape
<1>7. SpentBy(r)
  <2>1. retries[r] <= conflicts[r] + faults[r] /\ startErr[r] = "none"
    BY DEF IInv, Spent, Applying
  <2>. QED
    BY <1>2, <1>4, <1>6, <2>1 DEF Conflict, SpentBy
<1>8. LocalTypes /\ OthersAlone(r) /\ pc'[r] \notin Applying /\ pc'[r] # "create"
  BY <1>1, <1>2, <1>3, AttemptFailedShape DEF Conflict, KeepTable, IInv, TypeOK, LocalTypes,
     OthersAlone, PerReplica, Applying
<1>. QED
  BY <1>4, <1>5, <1>7, <1>8, LocalStep

-----------------------------------------------------------------------------
(* One lemma per action: it preserves the inductive invariant *)

\* What a read leaves in r's hands is the table as it is.
LEMMA ReadShape ==
    ASSUME IInv, NEW r \in Replicas, NEW c,
           md' = [md EXCEPT ![r] = [table |-> table, etag |-> etag]],
           change' = [change EXCEPT ![r] = c]
    PROVE  /\ PerReplica(md)' /\ PerReplica(change)'
           /\ md'[r].table = table /\ md'[r].etag = etag /\ etag \in 0..etag
           /\ \A q \in Replicas \ {r} : md'[q] = md[q]
<1>1. md = [q \in Replicas |-> md[q]] /\ change = [q \in Replicas |-> change[q]] /\ etag \in Nat
  BY DEF IInv, TypeOK, PerReplica
<1>2. md' = [q \in Replicas |-> IF q = r THEN [table |-> table, etag |-> etag] ELSE md[q]]
  BY <1>1
<1>3. change' = [q \in Replicas |-> IF q = r THEN c ELSE change[q]]
  BY <1>1
<1>4. PerReplica(md)' /\ PerReplica(change)'
  BY <1>2, <1>3 DEF PerReplica
<1>. QED
  BY <1>1, <1>2, <1>4

LEMMA ReadExistingStep ==
    ASSUME IInv, NEW r \in Replicas, ReadExisting(r)
    PROVE  IInv'
<1> DEFINE c == Plan(strategy[r], DiffSchema(want[r], table.schema))
<1>1. /\ md' = [md EXCEPT ![r] = [table |-> table, etag |-> etag]]
      /\ change' = [change EXCEPT ![r] = c]
      /\ KeepTable /\ UNCHANGED settings /\ pc[r] # "failed"
  BY DEF ReadExisting
<1>2. PerReplica(md)' /\ PerReplica(change)' /\ md'[r].table = table /\ md'[r].etag = etag
      /\ etag \in 0..etag /\ \A q \in Replicas \ {r} : md'[q] = md[q]
  BY <1>1, ReadShape
<1>3. conflicts[r] + own[r] <= etag
  BY DEF IInv, Charged
<1>4. CASE AttemptFailed(r, "ErrSchemaConflict", FALSE) /\ UNCHANGED <<conflicts, faults>>
  <2>1. SpentBy(r) /\ pc'[r] \in {"backoff", "failed"}
    BY <1>1, <1>4, RefusedShape
  <2>2. LocalTypes /\ OthersAlone(r)
    BY <1>1, <1>2, <1>4, RefusedShape DEF LocalTypes, OthersAlone, KeepTable, IInv, TypeOK
  <2>. QED
    BY <1>1, <1>2, <1>3, <1>4, <2>1, <2>2, LocalStep DEF Applying
<1>5. CASE Proceed(r, NextStep(c))
  <2>1. NextStep(c) \in {"patch", "drop", "started"} /\ NextStep(c) \in PCs
    BY DEF NextStep, PCs
  <2>2. SpentBy(r) /\ pc'[r] = NextStep(c)
    BY <1>1, <1>5, <2>1, ProceedShape
  <2>3. LocalTypes /\ OthersAlone(r)
    BY <1>1, <1>2, <1>5, <2>1, ProceedShape DEF LocalTypes, OthersAlone, KeepTable, Proceed
  <2>4. conflicts' = conflicts /\ pc'[r] # "create"
    BY <1>5, <2>1, <2>2 DEF Proceed
  <2>. QED
    BY <1>1, <1>2, <1>3, <2>2, <2>3, <2>4, LocalStep
<1>. QED
  BY <1>4, <1>5 DEF ReadExisting

LEMMA ReadMissingStep ==
    ASSUME IInv, NEW r \in Replicas, ReadMissing(r)
    PROVE  IInv'
<1>1. /\ md' = [md EXCEPT ![r] = [table |-> table, etag |-> etag]]
      /\ change' = [change EXCEPT ![r] = NoChange]
      /\ KeepTable /\ UNCHANGED settings /\ pc[r] # "failed" /\ ~table.exists
  BY DEF ReadMissing
<1>2. PerReplica(md)' /\ PerReplica(change)' /\ md'[r].table = table /\ md'[r].etag = etag
      /\ etag \in 0..etag /\ \A q \in Replicas \ {r} : md'[q] = md[q]
  BY <1>1, ReadShape
<1>3. conflicts[r] + own[r] <= etag
  BY DEF IInv, Charged
<1>4. CASE AttemptFailed(r, "ErrTableMissing", FALSE) /\ UNCHANGED <<conflicts, faults>>
  <2>1. SpentBy(r) /\ pc'[r] \in {"backoff", "failed"}
    BY <1>1, <1>4, RefusedShape
  <2>2. LocalTypes /\ OthersAlone(r)
    BY <1>1, <1>2, <1>4, RefusedShape DEF LocalTypes, OthersAlone, KeepTable, IInv, TypeOK
  <2>. QED
    BY <1>1, <1>2, <1>3, <1>4, <2>1, <2>2, LocalStep DEF Applying
<1>5. CASE Proceed(r, "create")
  <2>1. "create" \in PCs
    BY DEF PCs
  <2>2. SpentBy(r) /\ pc'[r] = "create"
    BY <1>1, <1>5, <2>1, ProceedShape
  <2>3. LocalTypes /\ OthersAlone(r) /\ conflicts' = conflicts
    BY <1>1, <1>2, <1>5, <2>1, ProceedShape DEF LocalTypes, OthersAlone, KeepTable, Proceed
  <2>. QED
    BY <1>1, <1>2, <1>3, <2>2, <2>3, LocalStep
<1>. QED
  BY <1>4, <1>5 DEF ReadMissing

\* A step that reaches the end of the migration or the statement.
LEMMA ProceedTypes ==
    ASSUME IInv, NEW r \in Replicas, NEW s \in {"read", "drop", "started"}, Proceed(r, s),
           pc[r] # "failed", UNCHANGED <<md, change>>,
           own' = own \/ own' = [own EXCEPT ![r] = @ + 1]
    PROVE  LocalTypes /\ OthersAlone(r) /\ SpentBy(r) /\ pc'[r] \notin Applying
           /\ pc'[r] # "create" /\ conflicts' = conflicts
<1>1. s \in PCs
  BY DEF PCs
<1>2. PerReplica(md)' /\ PerReplica(change)' /\ conflicts' = conflicts
  BY DEF IInv, TypeOK, PerReplica, Proceed
<1>3. \A q \in Replicas \ {r} : own'[q] = own[q]
  BY DEF IInv, TypeOK
<1>. QED
  BY <1>1, <1>2, <1>3, ProceedShape DEF LocalTypes, OthersAlone, Proceed, Applying

\* A step that ends the attempt in a fault.
LEMMA FaultTypes ==
    ASSUME IInv, NEW r \in Replicas, NEW retryable \in BOOLEAN, Fault(r, retryable),
           pc[r] # "failed", UNCHANGED <<md, change>>,
           own' = own \/ own' = [own EXCEPT ![r] = @ + 1]
    PROVE  LocalTypes /\ OthersAlone(r) /\ SpentBy(r) /\ pc'[r] \notin Applying
           /\ pc'[r] # "create" /\ conflicts' = conflicts
<1>1. PerReplica(md)' /\ PerReplica(change)' /\ conflicts \in [Replicas -> Nat]
  BY DEF IInv, TypeOK, PerReplica
<1>2. \A q \in Replicas \ {r} : own'[q] = own[q]
  BY DEF IInv, TypeOK
<1>. QED
  BY <1>1, <1>2, FaultShape DEF LocalTypes, OthersAlone, Applying

\* A local step that leaves r's metadata alone and r nowhere near the table.
LEMMA AsideStep ==
    ASSUME IInv, NEW r \in Replicas, KeepTable, UNCHANGED <<settings, md, change>>,
           LocalTypes, OthersAlone(r), SpentBy(r), pc'[r] \notin Applying,
           conflicts' = conflicts
    PROVE  IInv'
<1>1. md[r].etag \in 0..etag /\ conflicts[r] + own[r] <= etag
  BY DEF IInv, TypeOK, Charged
<1>2. pc'[r] # "create"
  BY DEF Applying
<1>. QED
  BY <1>1, <1>2, LocalStep DEF KeepTable

\* What the calls make of the table.
LEMMA NewTableTypes ==
    ASSUME NEW r \in Replicas
    PROVE  /\ Existing(want[r]).exists \in BOOLEAN
           /\ Merged(r).exists \in BOOLEAN
           /\ Dropped(r).exists \in BOOLEAN
BY DEF Existing, Merged, Dropped

LEMMA CreateTableStep ==
    ASSUME IInv, NEW r \in Replicas, CreateTable(r)
    PROVE  IInv'
<1>1. CASE table.exists
  <2>1. md[r].etag # etag
    BY <1>1 DEF CreateTable, IInv, Current, Applying
  <2>. QED
    BY <1>1, <2>1, ConflictStep DEF CreateTable, Applying
<1>2. CASE ~table.exists
  BY <1>2, ProceedTypes, NewTableTypes, ChangeStep DEF CreateTable, SetTable
<1>. QED
  BY <1>1, <1>2

LEMMA PatchSchemaStep ==
    ASSUME IInv, NEW r \in Replicas, PatchSchema(r)
    PROVE  IInv'
<1>1. CASE UpdateAccepted(r)
  <2>1. AfterPatch(r) \in {"drop", "started"}
    BY DEF AfterPatch
  <2>. QED
    BY <1>1, <2>1, ProceedTypes, NewTableTypes, ChangeStep DEF PatchSchema, SetTable
<1>2. CASE ~UpdateAccepted(r)
  BY <1>2, ConflictStep DEF PatchSchema, UpdateAccepted, Applying
<1>. QED
  BY <1>1, <1>2

LEMMA DropColumnsStep ==
    ASSUME IInv, NEW r \in Replicas, DropColumns(r)
    PROVE  IInv'
<1>1. CASE change[r].DropColumns \subseteq DOMAIN table.schema
  BY <1>1, ProceedTypes, NewTableTypes, ChangeStep DEF DropColumns, SetTable
<1>2. CASE ~(change[r].DropColumns \subseteq DOMAIN table.schema)
  <2>1. AttemptFailed(r, "statement", FALSE) /\ UNCHANGED <<conflicts, faults, md, change>>
        /\ pc[r] # "failed" /\ KeepTable /\ UNCHANGED settings
    BY <1>2 DEF DropColumns
  <2>2. SpentBy(r) /\ pc'[r] \in {"backoff", "failed"}
    BY <2>1, RefusedShape
  <2>3. LocalTypes /\ OthersAlone(r)
    BY <2>1, RefusedShape DEF LocalTypes, OthersAlone, KeepTable, IInv, TypeOK, PerReplica
  <2>. QED
    BY <2>1, <2>2, <2>3, AsideStep DEF Applying
<1>. QED
  BY <1>1, <1>2

LEMMA FailingSteps ==
    ASSUME IInv, NEW r \in Replicas, NEW retryable \in BOOLEAN,
           ReadFails(r, retryable) \/ CallFails(r, retryable) \/ AnswerLost(r, retryable)
    PROVE  IInv'
<1>1. CASE ReadFails(r, retryable)
  BY <1>1, FaultTypes, AsideStep DEF ReadFails, KeepTable
<1>2. CASE CallFails(r, retryable)
  BY <1>2, FaultTypes, AsideStep DEF CallFails, KeepTable
<1>3. CASE AnswerLost(r, retryable)
  <2>1. PICK t : SetTable(r, t) /\ t.exists \in BOOLEAN
    BY <1>3, NewTableTypes DEF AnswerLost
  <2>2. pc[r] # "failed" /\ own' = [own EXCEPT ![r] = @ + 1]
    BY <1>3, <2>1 DEF AnswerLost, SetTable
  <2>3. Fault(r, retryable) /\ UNCHANGED <<settings, md, change>>
    BY <1>3 DEF AnswerLost
  <2>4. /\ LocalTypes /\ OthersAlone(r) /\ SpentBy(r) /\ pc'[r] \notin Applying
        /\ conflicts' = conflicts
    BY <2>2, <2>3, FaultTypes
  <2>. QED
    BY <2>1, <2>3, <2>4, ChangeStep
<1>. QED
  BY <1>1, <1>2, <1>3

LEMMA BackoffSteps ==
    ASSUME IInv, NEW r \in Replicas, Backoff(r) \/ Cancelled(r)
    PROVE  IInv'
<1>1. CASE Backoff(r)
  BY <1>1, ProceedTypes, AsideStep DEF Backoff, KeepTable
<1>2. CASE Cancelled(r)
  <2>1. LocalTypes /\ OthersAlone(r) /\ pc'[r] = "failed" /\ startErr'[r] = "other"
    BY <1>2 DEF Cancelled, KeepTable, IInv, TypeOK, LocalTypes, OthersAlone, PerReplica, PCs, Errors
  <2>2. SpentBy(r)
    BY <1>2, <2>1 DEF Cancelled, IInv, Spent, SpentBy
  <2>. QED
    BY <1>2, <2>1, <2>2, AsideStep DEF Cancelled, Applying
<1>. QED
  BY <1>1, <1>2

LEMMA NextIInv == IInv /\ [Next]_vars => IInv'
<1> SUFFICES ASSUME IInv, [Next]_vars PROVE IInv'
  OBVIOUS
<1>1. ASSUME NEW r \in Replicas, Step(r)
      PROVE  IInv'
  BY <1>1, ReadExistingStep, ReadMissingStep, CreateTableStep, PatchSchemaStep, DropColumnsStep,
     FailingSteps, BackoffSteps DEF Step
<1>2. CASE UNCHANGED vars
  <2>1. TypeOK'
    BY <1>2 DEF IInv, TypeOK, PerReplica, vars, settings, counts
  <2>2. Current' /\ Charged' /\ Spent'
    BY <1>2 DEF IInv, Current, Charged, Spent, vars, settings, counts
  <2>. QED
    BY <2>1, <2>2 DEF IInv
<1>. QED
  BY <1>1, <1>2 DEF Next

-----------------------------------------------------------------------------
(* The theorems *)

\* The inductive invariant holds of every execution.
THEOREM InductiveInvariant == Spec => []IInv
BY InitIInv, NextIInv, PTL DEF Spec

\* The state of a migration stays well typed; in particular the attempts of
\* attemptLimiter never exceed its maximum.
THEOREM TypeCorrect == Spec => []TypeOK
<1>1. IInv => TypeOK
  BY DEF IInv
<1>. QED
  BY <1>1, InductiveInvariant, PTL

\* A start gives up over concurrent changes only when the changes of others and
\* its own faults outnumber migrateMaxRetries.
THEOREM StartNotStarved == Spec => []RetryBudget
<1>1. IInv => RetryBudget
  <2> SUFFICES ASSUME IInv, NEW r \in Replicas, startErr[r] = "concurrent"
               PROVE  (etag - own[r]) + faults[r] > migrateMaxRetries
    BY DEF RetryBudget
  <2>1. /\ conflicts[r] + own[r] <= etag
        /\ conflicts[r] + faults[r] > migrateMaxRetries
    BY DEF IInv, Charged, Spent
  <2>2. /\ conflicts[r] \in Nat /\ own[r] \in Nat /\ etag \in Nat /\ faults[r] \in Nat
        /\ migrateMaxRetries \in Nat
    BY MigrationAssumption DEF IInv, TypeOK
  <2>. QED
    BY <2>1, <2>2
<1>. QED
  BY <1>1, InductiveInvariant, PTL

\* The part of NoLostUpdate a single step has to satisfy.
NoLostUpdateStep ==
    table.exists /\ (\A r \in Replicas : pc[r] = "drop" => pc'[r] = "drop")
        => table'.exists /\ KeepsColumns(table, table')

\* Merging a plan into the table it was made for keeps every column of it.
LEMMA MergeKeeps ==
    ASSUME NEW r \in Replicas, md[r].table = table
    PROVE  KeepsColumns(table, Merged(r)) /\ Merged(r).exists
BY DEF Merged, mergeSchema, Existing, KeepsColumns

LEMMA StepKeepsColumns == IInv /\ [Next]_vars => NoLostUpdateStep
<1> SUFFICES ASSUME IInv, [Next]_vars, table.exists,
                    \A r \in Replicas : pc[r] = "drop" => pc'[r] = "drop"
             PROVE  table'.exists /\ KeepsColumns(table, table')
  BY DEF NoLostUpdateStep
<1>1. CASE table' = table
  BY <1>1 DEF KeepsColumns
<1>2. ASSUME NEW r \in Replicas, pc[r] = "patch", UpdateAccepted(r), table' = Merged(r)
      PROVE  table'.exists /\ KeepsColumns(table, table')
  <2>1. md[r].table = table
    BY <1>2 DEF UpdateAccepted, IInv, Current, Applying
  <2>. QED
    BY <1>2, <2>1, MergeKeeps
<1>3. ASSUME NEW r \in Replicas, Step(r)
      PROVE  \/ table' = table
             \/ pc[r] = "patch" /\ UpdateAccepted(r) /\ table' = Merged(r)
  <2>1. ASSUME pc[r] = "drop"
        PROVE  table' = table
    <3>1. pc'[r] = "drop"
      BY <2>1
    <3>2. ASSUME NEW retryable \in BOOLEAN
          PROVE  ~Fault(r, retryable)
      BY <2>1, <3>1, FaultShape
    <3>3. ~Proceed(r, "started")
      BY <3>1 DEF Proceed, IInv, TypeOK
    <3>. QED
      BY <1>3, <2>1, <3>2, <3>3 DEF Step, ReadExisting, ReadMissing, CreateTable, PatchSchema,
         DropColumns, Backoff, Cancelled, ReadFails, CallFails, AnswerLost, KeepTable
  <2>2. ASSUME pc[r] # "drop"
        PROVE  \/ table' = table
               \/ pc[r] = "patch" /\ UpdateAccepted(r) /\ table' = Merged(r)
    BY <1>3, <2>2 DEF Step, ReadExisting, ReadMissing, CreateTable, PatchSchema, DropColumns,
       Backoff, Cancelled, ReadFails, CallFails, AnswerLost, KeepTable, SetTable
  <2>. QED
    BY <2>1, <2>2
<1>. QED
  BY <1>1, <1>2, <1>3 DEF Next, vars

\* Whatever the interleaving, no patch undoes another replica's change: columns
\* leave the table only by an ALTER TABLE statement.
THEOREM PatchesLoseNothing == Spec => NoLostUpdate
<1>1. IInv /\ [Next]_vars => [NoLostUpdateStep]_vars
  BY StepKeepsColumns
<1>2. NoLostUpdate <=> [][NoLostUpdateStep]_vars
  BY PTL DEF NoLostUpdate, NoLostUpdateStep
<1>. QED
  BY <1>1, <1>2, InductiveInvariant, PTL DEF Spec

-----------------------------------------------------------------------------
(* Schemas and plans: what a strategy asks for makes the table fit *)

\* The columns a strategy leaves out of every comparison.
Ignored(s) == IF s.kind = "SyncAllColumns" THEN s.IgnoreColumns ELSE {}

\* One declared column can be written to one column of the table.
ColumnFits(w, g) ==
    /\ w.type = g.type /\ w.repeated = g.repeated
    /\ w.type = RecordFieldType => sameNestedSchema(w.nested, g.nested)
    /\ ~Relaxes(w, g)

\* The columns of w outside of ignore fit the schema got.
FitsBut(ignore, w, got) ==
    \A n \in DOMAIN w \ ignore : n \in DOMAIN got /\ ColumnFits(w[n], got[n])

LEMMA FitsManaged ==
    ASSUME NEW r \in Replicas, NEW got
    PROVE  Fits(Managed(r), got) <=> FitsBut(Ignored(strategy[r]), want[r], got)
<1> DEFINE M == DOMAIN want[r] \ Ignored(strategy[r])
<1>1. Managed(r) = [n \in M |-> want[r][n]]
  BY DEF Managed, Ignored, Kind
<1> HIDE DEF M
<1>2. DOMAIN Managed(r) = M /\ \A n \in M : Managed(r)[n] = want[r][n]
  BY <1>1
<1>3. FitsBut(Ignored(strategy[r]), want[r], got)
        <=> \A n \in M : n \in DOMAIN got /\ ColumnFits(want[r][n], got[n])
  BY DEF FitsBut, M
<1> QED
  BY <1>2, <1>3 DEF Fits, ColumnFits

LEMMA RelaxedColumn ==
    ASSUME NEW g, IsColumn(g)
    PROVE  /\ IsColumn(relaxed(g)) /\ ~relaxed(g).required
           /\ relaxed(g).type = g.type /\ relaxed(g).repeated = g.repeated
           /\ relaxed(g).nested = g.nested
<1>1. DOMAIN g = {"type", "repeated", "required", "nested"}
  BY DEF IsColumn
<1>2. relaxed(g) = [f \in DOMAIN g |-> IF f = "required" THEN FALSE ELSE g[f]]
  BY DEF IsColumn, relaxed
<1>3. /\ relaxed(g).type = g.type /\ relaxed(g).repeated = g.repeated
      /\ relaxed(g).nested = g.nested /\ relaxed(g).required = FALSE
  BY <1>1, <1>2
<1>4. IsColumn(relaxed(g))
  BY <1>1, <1>2, <1>3 DEF IsColumn
<1> QED
  BY <1>3, <1>4

\* A column that fits still does once it is relaxed.
LEMMA ColumnFitsRelaxed ==
    ASSUME NEW w, NEW g, IsColumn(g), ColumnFits(w, g)
    PROVE  ColumnFits(w, relaxed(g))
BY RelaxedColumn DEF ColumnFits, Relaxes

\* A schema that fits still does when every column stays or is relaxed.
LEMMA FitsKept ==
    ASSUME NEW old, NEW new, KeepsColumns(old, new), IsSchema(old.schema),
           NEW ignore, NEW w, FitsBut(ignore, w, old.schema)
    PROVE  FitsBut(ignore, w, new.schema)
BY ColumnFitsRelaxed DEF FitsBut, KeepsColumns, IsSchema

\* What the strategies that reconcile at all plan.
LEMMA PlanShape ==
    ASSUME NEW s, s.kind \in Kinds, NEW d, NEW c, c = Plan(s, d)
    PROVE  /\ s.kind = "MigrationNone" =>
                c.AddColumns = {} /\ c.RelaxColumns = {} /\ c.DropColumns = {}
           /\ s.kind # "MigrationNone" =>
                /\ c.conflicts = d.Conflicts \ Ignored(s)
                /\ c.AddColumns = d.Added \ Ignored(s)
                /\ c.RelaxColumns = d.Relaxed \ Ignored(s)
           /\ s.kind # "SyncAllColumns" => c.DropColumns = {}
           /\ s.kind = "SyncAllColumns" => c.DropColumns = d.Removed \ s.IgnoreColumns
<1>1. CASE s.kind = "MigrationNone"
  <2>1. c = MigrationNonePlan(d)
    BY <1>1 DEF Plan
  <2> QED
    BY <1>1, <2>1 DEF MigrationNonePlan, SchemaChange, NoColumns
<1>2. CASE s.kind = "AppendNewColumns"
  <2>1. c = AppendNewColumnsPlan(d)
    BY <1>2 DEF Plan
  <2> QED
    BY <1>2, <2>1 DEF AppendNewColumnsPlan, SchemaChange, NoColumns, Ignored
<1>3. CASE s.kind = "SyncAllColumns"
  <2>1. c = SyncAllColumnsPlan(d, s.IgnoreColumns)
    BY <1>3 DEF Plan
  <2> QED
    BY <1>3, <2>1 DEF SyncAllColumnsPlan, Without, SchemaChange, Ignored
<1> QED
  BY <1>1, <1>2, <1>3 DEF Kinds

LEMMA DiffParts ==
    ASSUME NEW w, NEW got, NEW d, d = DiffSchema(w, got)
    PROVE  /\ d.Added = DOMAIN w \ DOMAIN got
           /\ d.Removed = DOMAIN got \ DOMAIN w
           /\ \A n : n \in d.Conflicts <=>
                    n \in DOMAIN w \cap DOMAIN got /\ conflictBetween(w[n], got[n])
           /\ \A n : n \in d.Relaxed <=>
                    /\ n \in DOMAIN w \cap DOMAIN got
                    /\ ~conflictBetween(w[n], got[n]) /\ Relaxes(w[n], got[n])
BY DEF DiffSchema

\* A strategy that reconciles, finds no conflict and asks for no new or relaxed
\* column already has a table that fits.
LEMMA NothingToPatch ==
    ASSUME NEW s, s.kind \in Kinds \ {"MigrationNone"}, NEW w, NEW got,
           NEW c, c = Plan(s, DiffSchema(w, got)),
           c.conflicts = {}, c.AddColumns = {}, c.RelaxColumns = {}
    PROVE  FitsBut(Ignored(s), w, got)
<1> DEFINE d == DiffSchema(w, got)
<1>1. d.Conflicts \ Ignored(s) = {} /\ d.Added \ Ignored(s) = {} /\ d.Relaxed \ Ignored(s) = {}
  BY PlanShape
<1> SUFFICES ASSUME NEW n \in DOMAIN w, n \notin Ignored(s)
             PROVE  n \in DOMAIN got /\ ColumnFits(w[n], got[n])
  BY DEF FitsBut
<1>2. n \notin d.Conflicts /\ n \notin d.Added /\ n \notin d.Relaxed
  BY <1>1
<1>3. n \in DOMAIN got /\ ~conflictBetween(w[n], got[n]) /\ ~Relaxes(w[n], got[n])
  BY <1>2, DiffParts
<1> QED
  BY <1>3 DEF conflictBetween, ColumnFits

\* And one that asks for some makes the table fit by merging them.
LEMMA MergeFits ==
    ASSUME NEW s, s.kind \in Kinds \ {"MigrationNone"}, NEW w, NEW got, IsSchema(got),
           NEW c, c = Plan(s, DiffSchema(w, got)), c.conflicts = {}
    PROVE  FitsBut(Ignored(s), w, mergeSchema(w, got, c))
<1> DEFINE d == DiffSchema(w, got)
           new == mergeSchema(w, got, c)
<1>1. /\ d.Conflicts \ Ignored(s) = {} /\ c.AddColumns = d.Added \ Ignored(s)
      /\ c.RelaxColumns = d.Relaxed \ Ignored(s)
  BY PlanShape
<1> SUFFICES ASSUME NEW n \in DOMAIN w, n \notin Ignored(s)
             PROVE  n \in DOMAIN new /\ ColumnFits(w[n], new[n])
  BY DEF FitsBut
<1>2. CASE n \notin DOMAIN got
  <2>1. n \in c.AddColumns
    BY <1>1, <1>2, DiffParts
  <2>2. n \in DOMAIN new /\ new[n] = w[n]
    BY <1>2, <2>1 DEF mergeSchema
  <2> QED
    BY <2>2 DEF ColumnFits, Relaxes, sameNestedSchema
<1>3. CASE n \in DOMAIN got
  <2>1. n \notin d.Conflicts
    BY <1>1
  <2>2. ~conflictBetween(w[n], got[n]) /\ IsColumn(got[n])
    BY <1>3, <2>1, DiffParts DEF IsSchema
  <2>3. n \in DOMAIN new
    BY <1>3 DEF mergeSchema
  <2>4. CASE Relaxes(w[n], got[n])
    <3>1. n \in c.RelaxColumns
      BY <1>1, <1>3, <2>2, <2>4, DiffParts
    <3>2. new[n] = relaxed(got[n])
      BY <1>3, <3>1 DEF mergeSchema
    <3> QED
      BY <2>2, <2>3, <3>2, RelaxedColumn DEF conflictBetween, ColumnFits, Relaxes
  <2>5. CASE ~Relaxes(w[n], got[n])
    <3>1. n \notin c.RelaxColumns
      BY <1>1, <2>5, DiffParts
    <3>2. new[n] = got[n]
      BY <1>3, <3>1 DEF mergeSchema
    <3> QED
      BY <2>2, <2>3, <2>5, <3>2 DEF conflictBetween, ColumnFits
  <2> QED
    BY <2>4, <2>5
<1> QED
  BY <1>2, <1>3

\* A table that fits gives a strategy that drops nothing no work.
LEMMA FittingNeedsNoPatch ==
    ASSUME NEW s, s.kind \in Kinds \ {"SyncAllColumns"}, NEW w, NEW got, FitsBut({}, w, got),
           NEW c, c = Plan(s, DiffSchema(w, got))
    PROVE  c.AddColumns = {} /\ c.RelaxColumns = {}
<1> DEFINE d == DiffSchema(w, got)
<1>1. d.Added = {}
  BY DiffParts DEF FitsBut
<1>2. \A n : n \notin d.Relaxed
  BY DiffParts DEF FitsBut, ColumnFits
<1> HIDE DEF d
<1> QED
  BY <1>1, <1>2, PlanShape DEF d

\* A schema fits the declaration it was created from.
LEMMA FitsItself ==
    ASSUME NEW w, NEW ignore
    PROVE  FitsBut(ignore, w, w)
BY DEF FitsBut, ColumnFits, Relaxes, sameNestedSchema

\* Merging yields columns again.
LEMMA MergeIsSchema ==
    ASSUME NEW s, s.kind \in Kinds, NEW w, IsSchema(w), NEW got, IsSchema(got),
           NEW c, c = Plan(s, DiffSchema(w, got))
    PROVE  IsSchema(mergeSchema(w, got, c))
<1>1. c.AddColumns \subseteq DOMAIN w
  BY PlanShape, DiffParts
<1> SUFFICES ASSUME NEW n \in DOMAIN mergeSchema(w, got, c)
             PROVE  IsColumn(mergeSchema(w, got, c)[n])
  BY DEF IsSchema
<1>2. CASE n \in DOMAIN got
  <2>1. IsColumn(got[n]) /\ mergeSchema(w, got, c)[n] \in {got[n], relaxed(got[n])}
    BY <1>2 DEF IsSchema, mergeSchema
  <2> QED
    BY <2>1, RelaxedColumn
<1>3. CASE n \notin DOMAIN got
  <2>1. n \in DOMAIN w /\ mergeSchema(w, got, c)[n] = w[n]
    BY <1>1, <1>3 DEF mergeSchema
  <2> QED
    BY <2>1 DEF IsSchema
<1> QED
  BY <1>2, <1>3

-----------------------------------------------------------------------------
(* What a step of one replica does to the table and to the replica *)

\* It ends the attempt, sleeps or finds the table missing.
Aside(q) ==
    /\ KeepTable
    /\ pc'[q] \in {"read", "create", "backoff", "failed"}
    /\ startErr'[q] = "statement" => pc[q] = "drop"

\* It reads a table its strategy can reconcile.
Plans(q) ==
    /\ KeepTable /\ table.exists
    /\ md'[q] = [table |-> table, etag |-> etag]
    /\ change'[q] = Plan(strategy[q], DiffSchema(want[q], table.schema))
    /\ change'[q].conflicts = {}
    /\ pc'[q] = NextStep(change'[q]) /\ startErr'[q] # "statement"

\* It changes the table, whether or not it learns so.
Changes(q, t, next) ==
    /\ table' = t /\ etag' = etag + 1
    /\ md'[q] = md[q] /\ change'[q] = change[q]
    /\ pc'[q] \in {next, "backoff", "failed"} /\ startErr'[q] # "statement"
Creates(q) == pc[q] = "create" /\ ~table.exists /\ Changes(q, Existing(want[q]), "started")
Patches(q) ==
    /\ pc[q] = "patch" /\ md[q].table = table /\ md[q].etag = etag
    /\ Changes(q, Merged(q), AfterPatch(q))
Drops(q) ==
    /\ pc[q] = "drop" /\ change[q].DropColumns \subseteq DOMAIN table.schema
    /\ Changes(q, Dropped(q), "started")

Untouched(q) ==
    \A r \in Replicas \ {q} :
        pc'[r] = pc[r] /\ md'[r] = md[r] /\ change'[r] = change[r] /\ startErr'[r] = startErr[r]

LEMMA FailureEffect ==
    ASSUME TypeOK, NEW q \in Replicas, NEW e, NEW retryable, AttemptFailed(q, e, retryable)
    PROVE  /\ pc'[q] \in {"backoff", "failed"} /\ startErr'[q] \in {startErr[q], e}
           /\ \A r \in Replicas \ {q} : pc'[r] = pc[r] /\ startErr'[r] = startErr[r]
BY DEF AttemptFailed, TypeOK

LEMMA RefusalEffect ==
    ASSUME TypeOK, NEW q \in Replicas, NEW e, AttemptFailed(q, e, FALSE)
    PROVE  /\ pc'[q] = "failed" /\ startErr'[q] = e
           /\ \A r \in Replicas \ {q} : pc'[r] = pc[r] /\ startErr'[r] = startErr[r]
BY DEF AttemptFailed, Retry, TypeOK

LEMMA ConflictEffect ==
    ASSUME TypeOK, NEW q \in Replicas, Conflict(q)
    PROVE  /\ pc'[q] \in {"backoff", "failed"} /\ startErr'[q] \in {startErr[q], "concurrent"}
           /\ \A r \in Replicas \ {q} : pc'[r] = pc[r] /\ startErr'[r] = startErr[r]
BY DEF Conflict, AttemptFailed, TypeOK

LEMMA ProceedEffect ==
    ASSUME TypeOK, NEW q \in Replicas, NEW s, Proceed(q, s)
    PROVE  /\ pc'[q] = s /\ startErr' = startErr
           /\ \A r \in Replicas \ {q} : pc'[r] = pc[r]
BY DEF Proceed, TypeOK

LEMMA StepCases ==
    ASSUME IInv, NEW q \in Replicas, Step(q)
    PROVE  /\ UNCHANGED settings /\ Untouched(q)
           /\ Aside(q) \/ Plans(q) \/ Creates(q) \/ Patches(q) \/ Drops(q)
<1>0. /\ TypeOK
      /\ pc[q] # "failed" => startErr[q] = "none"
      /\ pc[q] \in Applying /\ md[q].etag = etag => md[q].table = table
  BY DEF IInv, Spent, Current
<1>1. UNCHANGED settings
  BY DEF Step, ReadExisting, ReadMissing, CreateTable, PatchSchema, DropColumns, Backoff, Cancelled,
    ReadFails, CallFails, AnswerLost
<1>2. CASE ReadExisting(q)
  <2> DEFINE c == Plan(strategy[q], DiffSchema(want[q], table.schema))
  <2>1. /\ pc[q] = "read" /\ table.exists /\ KeepTable
        /\ md' = [md EXCEPT ![q] = [table |-> table, etag |-> etag]]
        /\ change' = [change EXCEPT ![q] = c]
        /\ \/ AttemptFailed(q, "ErrSchemaConflict", FALSE)
           \/ c.conflicts = {} /\ Proceed(q, NextStep(c))
    BY <1>2 DEF ReadExisting
  <2> HIDE DEF c
  <2>2. /\ md'[q] = [table |-> table, etag |-> etag] /\ change'[q] = c
        /\ \A r \in Replicas \ {q} : md'[r] = md[r] /\ change'[r] = change[r]
    BY <1>0, <2>1 DEF TypeOK, PerReplica
  <2>3. CASE AttemptFailed(q, "ErrSchemaConflict", FALSE)
    <3>1. /\ pc'[q] = "failed" /\ startErr'[q] = "ErrSchemaConflict"
          /\ \A r \in Replicas \ {q} : pc'[r] = pc[r] /\ startErr'[r] = startErr[r]
      BY <1>0, <2>3, RefusalEffect, Zenon
    <3>2. Untouched(q) /\ Aside(q)
      BY <2>1, <2>2, <3>1 DEF Untouched, Aside
    <3> QED
      BY <1>1, <3>2
  <2>4. CASE c.conflicts = {} /\ Proceed(q, NextStep(c))
    <3>1. Untouched(q) /\ pc'[q] = NextStep(c) /\ startErr'[q] # "statement"
      BY <1>0, <2>1, <2>2, <2>4, ProceedEffect DEF Untouched
    <3>2. Plans(q)
      BY <2>1, <2>2, <2>4, <3>1 DEF Plans, c
    <3> QED
      BY <1>1, <3>1, <3>2
  <2> QED
    BY <2>1, <2>3, <2>4
<1>3. CASE ReadMissing(q)
  <2>1. \A r \in Replicas \ {q} : md'[r] = md[r] /\ change'[r] = change[r]
    BY <1>0, <1>3 DEF ReadMissing, TypeOK, PerReplica
  <2>2. /\ \/ pc'[q] = "failed" /\ startErr'[q] = "ErrTableMissing"
           \/ pc'[q] = "create" /\ startErr'[q] = startErr[q]
        /\ \A r \in Replicas \ {q} : pc'[r] = pc[r] /\ startErr'[r] = startErr[r]
    <3>1. CASE Proceed(q, "create")
      BY <1>0, <3>1, ProceedEffect
    <3>2. CASE AttemptFailed(q, "ErrTableMissing", FALSE)
      BY <1>0, <3>2, RefusalEffect, Zenon
    <3> QED
      BY <1>3, <3>1, <3>2 DEF ReadMissing
  <2>3. Untouched(q) /\ Aside(q)
    BY <1>0, <1>3, <2>1, <2>2 DEF ReadMissing, Untouched, Aside
  <2> QED
    BY <1>1, <2>3
<1>4. CASE CreateTable(q)
  <2>1. CASE table.exists
    <3>1. Untouched(q) /\ Aside(q)
      BY <1>0, <1>4, <2>1, ConflictEffect DEF CreateTable, Untouched, Aside
    <3> QED
      BY <1>1, <3>1
  <2>2. CASE ~table.exists
    <3>1. Untouched(q) /\ Creates(q)
      BY <1>0, <1>4, <2>2, ProceedEffect DEF CreateTable, SetTable, Untouched, Creates, Changes
    <3> QED
      BY <1>1, <3>1
  <2> QED
    BY <2>1, <2>2
<1>5. CASE PatchSchema(q)
  <2>1. CASE ~UpdateAccepted(q)
    <3>1. Untouched(q) /\ Aside(q)
      BY <1>0, <1>5, <2>1, ConflictEffect DEF PatchSchema, Untouched, Aside
    <3> QED
      BY <1>1, <3>1
  <2>2. CASE UpdateAccepted(q)
    <3>1. Untouched(q) /\ Patches(q)
      BY <1>0, <1>5, <2>2, ProceedEffect
      DEF PatchSchema, UpdateAccepted, SetTable, Untouched, Patches, Changes, Applying
    <3> QED
      BY <1>1, <3>1
  <2> QED
    BY <2>1, <2>2
<1>6. CASE DropColumns(q)
  <2>1. CASE change[q].DropColumns \subseteq DOMAIN table.schema
    <3>1. Untouched(q) /\ Drops(q)
      BY <1>0, <1>6, <2>1, ProceedEffect DEF DropColumns, SetTable, Untouched, Drops, Changes
    <3> QED
      BY <1>1, <3>1
  <2>2. CASE ~(change[q].DropColumns \subseteq DOMAIN table.schema)
    <3>1. Untouched(q) /\ Aside(q)
      BY <1>0, <1>6, <2>2, RefusalEffect DEF DropColumns, Untouched, Aside
    <3> QED
      BY <1>1, <3>1
  <2> QED
    BY <2>1, <2>2
<1>7. CASE Backoff(q)
  <2>1. Untouched(q) /\ Aside(q)
    BY <1>0, <1>7, ProceedEffect DEF Backoff, Untouched, Aside
  <2> QED
    BY <1>1, <2>1
<1>8. CASE Cancelled(q)
  <2>1. Untouched(q) /\ Aside(q)
    BY <1>0, <1>8 DEF Cancelled, Untouched, Aside, TypeOK
  <2> QED
    BY <1>1, <2>1
<1>9. ASSUME NEW retryable \in BOOLEAN,
             ReadFails(q, retryable) \/ CallFails(q, retryable)
      PROVE  Untouched(q) /\ Aside(q)
  BY <1>0, <1>9, FailureEffect DEF ReadFails, CallFails, Fault, Untouched, Aside
<1>10. ASSUME NEW retryable \in BOOLEAN, AnswerLost(q, retryable)
       PROVE  Untouched(q) /\ (Creates(q) \/ Patches(q) \/ Drops(q))
  <2>1. /\ Untouched(q) /\ md'[q] = md[q] /\ change'[q] = change[q]
        /\ pc'[q] \in {"backoff", "failed"} /\ startErr'[q] # "statement"
    BY <1>0, <1>10, FailureEffect DEF AnswerLost, Fault, Untouched
  <2> QED
    BY <1>0, <1>10, <2>1
    DEF AnswerLost, UpdateAccepted, SetTable, Creates, Patches, Drops, Changes, Applying
<1> QED
  BY <1>1, <1>2, <1>3, <1>4, <1>5, <1>6, <1>7, <1>8, <1>9, <1>10 DEF Step

-----------------------------------------------------------------------------
(* A replica that has reconciled the table keeps fitting it *)

\* A table holds columns, and none when it does not exist.
Shaped == IsSchema(table.schema) /\ (~table.exists => DOMAIN table.schema = {})

\* Whoever is about to patch or to drop goes by a plan for the table it read.
Planned ==
    \A r \in Replicas :
        pc[r] \in {"patch", "drop"} =>
            /\ table.exists
            /\ change[r] = Plan(strategy[r], DiffSchema(want[r], md[r].table.schema))
            /\ change[r].conflicts = {}
            /\ pc[r] = "patch" => change[r].AddColumns \cup change[r].RelaxColumns # {}
            /\ pc[r] = "drop" => change[r].DropColumns # {}

\* No SyncAllColumns replica declares fewer columns than r.
Undisturbed(r) ==
    \A s \in Replicas : Kind(s) = "SyncAllColumns" => DOMAIN want[r] \subseteq DOMAIN want[s]

\* r has seen the table fit: it only has columns to drop left, or failed to drop
\* them, or has started under a strategy that reconciles.
Reconciled(r) ==
    \/ pc[r] = "drop" \/ startErr[r] = "statement"
    \/ (pc[r] = "started" /\ Kind(r) # "MigrationNone")

FitsNow(r) == FitsBut(Ignored(strategy[r]), want[r], table.schema)
Kept == \A r \in Replicas : Reconciled(r) => table.exists /\ (Undisturbed(r) => FitsNow(r))

FInv == Shaped /\ Planned /\ Kept

LEMMA SettingsTypes ==
    ASSUME IInv, NEW r \in Replicas
    PROVE  strategy[r].kind \in Kinds /\ IsSchema(want[r]) /\ want[r] \in Declarations
BY SettingsAssumption DEF IInv, TypeOK

LEMMA InitFInv == Init => FInv
<1> SUFFICES ASSUME Init PROVE FInv
  OBVIOUS
<1>1. table = Missing \/ (table = Existing(table.schema) /\ IsSchema(table.schema))
  BY TablesAssumption DEF Init
<1>2. Shaped
  <2>1. CASE table = Missing
    <3>1. table.schema = <<>>
      BY <2>1 DEF Missing
    <3>2. DOMAIN table.schema = {}
      BY <3>1
    <3> QED
      BY <3>2 DEF Shaped, IsSchema
  <2>2. CASE table = Existing(table.schema) /\ IsSchema(table.schema)
    <3>1. Existing(table.schema).exists
      BY DEF Existing
    <3> QED
      BY <2>2, <3>1 DEF Shaped
  <2> QED
    BY <1>1, <2>1, <2>2
<1>3. \A r \in Replicas : pc[r] = "read" /\ startErr[r] = "none"
  BY DEF Init
<1> QED
  BY <1>2, <1>3 DEF FInv, Planned, Kept, Reconciled

\* The plan of a replica about to drop names no column of anyone it leaves
\* undisturbed, and only a SyncAllColumns replica has one.
LEMMA DropPlan ==
    ASSUME IInv, FInv, NEW q \in Replicas, pc[q] = "drop"
    PROVE  /\ Kind(q) = "SyncAllColumns"
           /\ change[q].DropColumns \cap (DOMAIN want[q] \cup strategy[q].IgnoreColumns) = {}
<1> DEFINE d == DiffSchema(want[q], md[q].table.schema)
<1>1. /\ strategy[q].kind \in Kinds /\ change[q] = Plan(strategy[q], d)
      /\ change[q].DropColumns # {}
  BY SettingsTypes DEF FInv, Planned
<1>2. d.Removed = DOMAIN md[q].table.schema \ DOMAIN want[q]
  BY DiffParts
<1> HIDE DEF d
<1>3. strategy[q].kind = "SyncAllColumns" /\ change[q].DropColumns = d.Removed \ strategy[q].IgnoreColumns
  BY <1>1, PlanShape
<1> QED
  BY <1>2, <1>3 DEF Kind

\* What a change leaves of the table.
LEMMA NewTables ==
    ASSUME NEW q
    PROVE  /\ Existing(want[q]).exists /\ Existing(want[q]).schema = want[q]
           /\ Merged(q).exists
           /\ Merged(q).schema = mergeSchema(want[q], md[q].table.schema, change[q])
           /\ Dropped(q).exists
           /\ DOMAIN Dropped(q).schema = DOMAIN table.schema \ change[q].DropColumns
           /\ \A n \in DOMAIN Dropped(q).schema : Dropped(q).schema[n] = table.schema[n]
BY DEF Existing, Merged, Dropped

LEMMA ShapedStays ==
    ASSUME IInv, FInv, NEW q \in Replicas, Step(q)
    PROVE  Shaped' /\ (table.exists => table'.exists)
<1>0. Shaped /\ strategy[q].kind \in Kinds /\ IsSchema(want[q])
  BY SettingsTypes DEF FInv
<1>1. CASE Aside(q) \/ Plans(q)
  BY <1>0, <1>1 DEF Aside, Plans, KeepTable, Shaped
<1>2. CASE Creates(q)
  BY <1>0, <1>2, NewTables DEF Creates, Changes, Shaped
<1>3. CASE Patches(q)
  <2>1. change[q] = Plan(strategy[q], DiffSchema(want[q], table.schema))
    BY <1>3 DEF Patches, FInv, Planned
  <2>2. IsSchema(mergeSchema(want[q], table.schema, change[q]))
    BY <1>0, <2>1, MergeIsSchema DEF Shaped
  <2> QED
    BY <1>3, <2>2, NewTables DEF Patches, Changes, Shaped
<1>4. CASE Drops(q)
  BY <1>0, <1>4, NewTables DEF Drops, Changes, Shaped, IsSchema
<1> QED
  BY <1>1, <1>2, <1>3, <1>4, StepCases

\* A table that fits r, and that nobody may disturb, fits r after any step.
LEMMA FitStays ==
    ASSUME IInv, FInv, NEW q \in Replicas, Step(q),
           NEW r \in Replicas, table.exists, Undisturbed(r), FitsNow(r)
    PROVE  FitsNow(r)'
<1>0. want' = want /\ strategy' = strategy
  BY StepCases DEF settings
<1> SUFFICES FitsBut(Ignored(strategy[r]), want[r], table'.schema)
  BY <1>0 DEF FitsNow
<1>1. CASE Aside(q) \/ Plans(q) \/ Creates(q)
  BY <1>1 DEF Aside, Plans, Creates, KeepTable, FitsNow
<1>2. CASE Patches(q)
  <2>1. KeepsColumns(table, table')
    BY <1>2, MergeKeeps DEF Patches, Changes
  <2> QED
    BY <2>1, FitsKept DEF FInv, Shaped, FitsNow
<1>3. CASE Drops(q)
  <2>1. DOMAIN want[r] \subseteq DOMAIN want[q]
    BY <1>3, DropPlan DEF Drops, Undisturbed
  <2>2. change[q].DropColumns \cap DOMAIN want[q] = {}
    BY <1>3, DropPlan DEF Drops
  <2>3. /\ DOMAIN table'.schema = DOMAIN table.schema \ change[q].DropColumns
        /\ \A n \in DOMAIN table'.schema : table'.schema[n] = table.schema[n]
    BY <1>3, NewTables DEF Drops, Changes
  <2> QED
    BY <2>1, <2>2, <2>3 DEF FitsNow, FitsBut
<1> QED
  BY <1>1, <1>2, <1>3, StepCases

LEMMA PlannedStays ==
    ASSUME IInv, FInv, NEW q \in Replicas, Step(q)
    PROVE  Planned'
<1>0. /\ want' = want /\ strategy' = strategy /\ Untouched(q)
      /\ table.exists => table'.exists
  BY StepCases, ShapedStays DEF settings
<1> SUFFICES ASSUME NEW r \in Replicas, pc'[r] \in {"patch", "drop"}
             PROVE  /\ table'.exists
                    /\ change'[r] = Plan(strategy[r], DiffSchema(want[r], md'[r].table.schema))
                    /\ change'[r].conflicts = {}
                    /\ pc'[r] = "patch" => change'[r].AddColumns \cup change'[r].RelaxColumns # {}
                    /\ pc'[r] = "drop" => change'[r].DropColumns # {}
  BY <1>0 DEF Planned
<1>1. CASE r # q
  BY <1>0, <1>1 DEF Untouched, FInv, Planned
<1>2. CASE r = q
  <2>1. CASE Plans(q)
    <3>1. md'[q].table = table
      BY <2>1 DEF Plans
    <3>2. /\ pc'[q] = "patch" => change'[q].AddColumns \cup change'[q].RelaxColumns # {}
          /\ pc'[q] = "drop" => change'[q].DropColumns # {}
      BY <2>1 DEF Plans, NextStep
    <3> QED
      BY <1>0, <1>2, <2>1, <3>1, <3>2 DEF Plans
  <2>2. CASE Patches(q)
    BY <1>0, <1>2, <2>2 DEF Patches, Changes, AfterPatch, FInv, Planned
  <2>3. ~Aside(q) /\ ~Creates(q) /\ ~Drops(q)
    BY <1>2 DEF Aside, Creates, Drops, Changes
  <2> QED
    BY <2>1, <2>2, <2>3, StepCases
<1> QED
  BY <1>1, <1>2

LEMMA KeptStays ==
    ASSUME IInv, FInv, NEW q \in Replicas, Step(q)
    PROVE  Kept'
<1>0. /\ want' = want /\ strategy' = strategy /\ Untouched(q)
      /\ table.exists => table'.exists
  BY StepCases, ShapedStays DEF settings
<1>1. \A r \in Replicas : Kind(r)' = Kind(r) /\ (Undisturbed(r)' <=> Undisturbed(r))
  BY <1>0 DEF Kind, Undisturbed
<1> SUFFICES ASSUME NEW r \in Replicas, Reconciled(r)'
             PROVE  table'.exists /\ (Undisturbed(r) => FitsNow(r)')
  BY <1>1 DEF Kept
<1>2. CASE Reconciled(r)
  BY <1>0, <1>2, FitStays DEF FInv, Kept
<1>3. CASE ~Reconciled(r)
  <2>1. r = q
    BY <1>0, <1>1, <1>3 DEF Untouched, Reconciled
  <2>2. FitsNow(q)' <=> FitsBut(Ignored(strategy[q]), want[q], table'.schema)
    BY <1>0 DEF FitsNow
  <2>3. strategy[q].kind \in Kinds
    BY SettingsTypes
  <2>4. CASE Plans(q)
    <3>1. change'[q] = Plan(strategy[q], DiffSchema(want[q], table.schema)) /\ change'[q].conflicts = {}
      BY <2>4 DEF Plans
    <3>2. change'[q].AddColumns = {} /\ change'[q].RelaxColumns = {}
      BY <1>3, <2>1, <2>4 DEF Plans, NextStep, Reconciled
    <3>3. strategy[q].kind # "MigrationNone"
      <4>1. pc'[q] = "drop" => change'[q].DropColumns # {}
        BY <2>4 DEF Plans, NextStep
      <4>2. strategy[q].kind = "MigrationNone" => change'[q].DropColumns = {}
        BY <2>3, <3>1, PlanShape
      <4> QED
        BY <1>1, <2>1, <2>4, <4>1, <4>2 DEF Plans, Reconciled, Kind
    <3> QED
      BY <2>1, <2>2, <2>3, <2>4, <3>1, <3>2, <3>3, NothingToPatch DEF Plans, KeepTable
  <2>5. CASE Creates(q)
    <3>1. table'.exists /\ table'.schema = want[q]
      BY <2>5, NewTables DEF Creates, Changes
    <3> QED
      BY <2>1, <2>2, <3>1, FitsItself
  <2>6. CASE Patches(q)
    <3>1. /\ change[q] = Plan(strategy[q], DiffSchema(want[q], table.schema)) /\ change[q].conflicts = {}
          /\ IsSchema(table.schema)
      BY <2>6 DEF Patches, FInv, Planned, Shaped
    <3>2. table'.exists /\ table'.schema = mergeSchema(want[q], table.schema, change[q])
      BY <2>6, NewTables DEF Patches, Changes
    <3>3. strategy[q].kind # "MigrationNone"
      <4>1. strategy[q].kind = "MigrationNone" => change[q].DropColumns = {}
        BY <2>3, <3>1, PlanShape
      <4> QED
        BY <1>1, <1>3, <2>1, <2>6, <4>1 DEF Patches, Changes, AfterPatch, Reconciled, Kind
    <3> QED
      BY <2>1, <2>2, <2>3, <3>1, <3>2, <3>3, MergeFits
  <2>7. CASE Aside(q) \/ Drops(q)
    BY <1>3, <2>1, <2>7 DEF Aside, Drops, Reconciled
  <2> QED
    BY <2>4, <2>5, <2>6, <2>7, StepCases
<1> QED
  BY <1>2, <1>3

LEMMA NextFInv == IInv /\ FInv /\ [Next]_vars => FInv'
<1>1. ASSUME IInv, FInv, UNCHANGED vars PROVE FInv'
  BY <1>1 DEF vars, settings, FInv, Shaped, Planned, Kept, Reconciled, Undisturbed, FitsNow, Kind
<1>2. ASSUME IInv, FInv, NEW q \in Replicas, Step(q) PROVE FInv'
  BY <1>2, ShapedStays, PlannedStays, KeptStays DEF FInv
<1> QED
  BY <1>1, <1>2 DEF Next

\* FInv holds throughout.
THEOREM ReconciledKept == Spec => []FInv
BY InitFInv, NextFInv, InductiveInvariant, PTL DEF Spec

\* migrate and patchSchema: a replica of AppendNewColumns that has started can
\* write its rows, and keeps being able to, whatever the others do.
THEOREM StartedKeepsFitting == Spec => []StartedFits
<1>1. IInv /\ FInv => StartedFits
  <2> SUFFICES ASSUME FInv, \A r \in Replicas : Kind(r) # "SyncAllColumns",
                      NEW r \in Replicas, pc[r] = "started", Kind(r) = "AppendNewColumns"
               PROVE  Fits(want[r], table.schema)
    BY DEF StartedFits
  <2>1. FitsNow(r)
    BY DEF FInv, Kept, Reconciled, Undisturbed
  <2>2. Ignored(strategy[r]) = {}
    BY DEF Ignored, Kind
  <2> QED
    BY <2>1, <2>2 DEF FitsNow, FitsBut, Fits, ColumnFits
<1> QED
  BY <1>1, InductiveInvariant, ReconciledKept, PTL

\* apply: columns are added before any are dropped, so that the table has every
\* column r declares while r drops others, and also when that fails.
THEOREM AddsBeforeDrops == Spec => []DropLeavesMore
<1>1. FInv => DropLeavesMore
  <2> SUFFICES ASSUME FInv, NEW r \in Replicas, pc[r] = "drop" \/ startErr[r] = "statement",
                      \A s \in Replicas :
                        Kind(s) = "SyncAllColumns" => DOMAIN want[r] \subseteq DOMAIN want[s]
               PROVE  Fits(Managed(r), table.schema)
    BY DEF DropLeavesMore
  <2>1. FitsNow(r)
    BY DEF FInv, Kept, Reconciled, Undisturbed
  <2> QED
    BY <2>1, FitsManaged DEF FitsNow
<1> QED
  BY <1>1, ReconciledKept, PTL

\* The part of DropsOnlyUnmanaged a single step has to satisfy.
DropsStep ==
    \A n \in DOMAIN table.schema \ DOMAIN table'.schema :
        \E r \in Replicas :
            /\ pc[r] = "drop" /\ pc'[r] # "drop"
            /\ Kind(r) = "SyncAllColumns"
            /\ n \notin DOMAIN want[r] \cup strategy[r].IgnoreColumns

LEMMA StepDrops ==
    ASSUME IInv, FInv, NEW q \in Replicas, Step(q)
    PROVE  DropsStep
<1>1. CASE Aside(q) \/ Plans(q)
  BY <1>1 DEF Aside, Plans, KeepTable, DropsStep
<1>2. CASE Creates(q)
  BY <1>2 DEF Creates, FInv, Shaped, DropsStep
<1>3. CASE Patches(q)
  <2>1. KeepsColumns(table, table')
    BY <1>3, MergeKeeps DEF Patches, Changes
  <2> QED
    BY <2>1 DEF KeepsColumns, DropsStep
<1>4. CASE Drops(q)
  <2>1. DOMAIN table'.schema = DOMAIN table.schema \ change[q].DropColumns
    BY <1>4, NewTables DEF Drops, Changes
  <2>2. pc[q] = "drop" /\ pc'[q] # "drop"
    BY <1>4 DEF Drops, Changes
  <2> QED
    BY <2>1, <2>2, DropPlan DEF DropsStep
<1> QED
  BY <1>1, <1>2, <1>3, <1>4, StepCases

\* dropColumns: a column leaves the table only by the statement of a
\* SyncAllColumns replica that neither declares nor ignores it, however old the
\* metadata it planned from.
THEOREM OnlyUnmanagedDropped == Spec => DropsOnlyUnmanaged
<1>1. IInv /\ FInv /\ [Next]_vars => [DropsStep]_vars
  BY StepDrops DEF Next
<1>2. DropsOnlyUnmanaged <=> [][DropsStep]_vars
  BY PTL DEF DropsOnlyUnmanaged, DropsStep
<1> QED
  BY <1>1, <1>2, InductiveInvariant, ReconciledKept, PTL DEF Spec

-----------------------------------------------------------------------------
(* Replicas that declare the same change the table once *)

SameDeclaration == \A r, s \in Replicas : want[r] = want[s] /\ Kind(r) # "SyncAllColumns"

\* The first change is the last: from then on the table fits every replica, and
\* the patches still to come were planned before it.
OneChange ==
    SameDeclaration =>
        /\ etag \in {0, 1}
        /\ etag = 1 => table.exists /\ \A r \in Replicas : FitsBut({}, want[r], table.schema)
        /\ \A r \in Replicas : pc[r] = "patch" => md[r].etag = 0

LEMMA InitOneChange == Init => OneChange
BY DEF Init, OneChange

LEMMA StepOneChange ==
    ASSUME IInv, FInv, OneChange, NEW q \in Replicas, Step(q)
    PROVE  OneChange'
<1>0. /\ want' = want /\ strategy' = strategy /\ Untouched(q)
      /\ strategy[q].kind \in Kinds /\ etag \in Nat
  BY StepCases, SettingsTypes DEF settings, IInv, TypeOK
<1>1. SameDeclaration' <=> SameDeclaration
  BY <1>0 DEF SameDeclaration, Kind
<1> SUFFICES ASSUME SameDeclaration
             PROVE  /\ etag' \in {0, 1}
                    /\ etag' = 1 => /\ table'.exists
                                    /\ \A r \in Replicas : FitsBut({}, want[r], table'.schema)
                    /\ \A r \in Replicas : pc'[r] = "patch" => md'[r].etag = 0
  BY <1>0, <1>1 DEF OneChange
<1>2. /\ etag \in {0, 1}
      /\ etag = 1 => table.exists /\ \A r \in Replicas : FitsBut({}, want[r], table.schema)
      /\ \A r \in Replicas : pc[r] = "patch" => md[r].etag = 0
  BY DEF OneChange
<1>3. strategy[q].kind # "SyncAllColumns" /\ Ignored(strategy[q]) = {}
  BY DEF SameDeclaration, Kind, Ignored
<1>4. \A r \in Replicas : want[r] = want[q]
  BY DEF SameDeclaration
<1>5. \A r \in Replicas \ {q} : pc'[r] = "patch" => md'[r].etag = 0
  BY <1>0, <1>2 DEF Untouched
<1>6. CASE Aside(q)
  <2>1. pc'[q] # "patch"
    BY <1>6 DEF Aside
  <2> QED
    BY <1>2, <1>5, <1>6, <2>1 DEF Aside, KeepTable
<1>7. CASE Plans(q)
  <2>1. change'[q] = Plan(strategy[q], DiffSchema(want[q], table.schema))
    BY <1>7 DEF Plans
  <2>2. etag = 1 => change'[q].AddColumns = {} /\ change'[q].RelaxColumns = {}
    BY <1>0, <1>2, <1>3, <2>1, FittingNeedsNoPatch
  <2>3. etag = 1 => pc'[q] # "patch"
    BY <1>7, <2>2 DEF Plans, NextStep
  <2>4. md'[q].etag = etag /\ table' = table /\ etag' = etag
    BY <1>7 DEF Plans, KeepTable
  <2> QED
    BY <1>2, <1>5, <2>3, <2>4
<1>8. CASE Creates(q)
  <2>1. etag = 0 /\ etag' = 1
    BY <1>2, <1>8 DEF Creates, Changes
  <2>2. table'.exists /\ table'.schema = want[q]
    BY <1>8, NewTables DEF Creates, Changes
  <2>3. pc'[q] # "patch"
    BY <1>8 DEF Creates, Changes
  <2> QED
    BY <1>4, <1>5, <2>1, <2>2, <2>3, FitsItself
<1>9. CASE Patches(q)
  <2>1. etag = 0 /\ etag' = 1
    BY <1>2, <1>9 DEF Patches, Changes
  <2>2. /\ change[q] = Plan(strategy[q], DiffSchema(want[q], table.schema)) /\ change[q].conflicts = {}
        /\ IsSchema(table.schema)
    BY <1>9 DEF Patches, FInv, Planned, Shaped
  <2>3. table'.exists /\ table'.schema = mergeSchema(want[q], table.schema, change[q])
    BY <1>9, NewTables DEF Patches, Changes
  <2>4. pc'[q] # "patch"
    BY <1>9 DEF Patches, Changes, AfterPatch
  <2>5. strategy[q].kind # "MigrationNone"
    <3>1. change[q].AddColumns \cup change[q].RelaxColumns # {}
      BY <1>9 DEF Patches, FInv, Planned
    <3> QED
      BY <1>0, <2>2, <3>1, PlanShape
  <2>6. FitsBut({}, want[q], table'.schema)
    BY <1>0, <1>3, <2>2, <2>3, <2>5, MergeFits
  <2> QED
    BY <1>4, <1>5, <2>1, <2>3, <2>4, <2>6
<1>10. CASE Drops(q)
  BY <1>3, <1>10, DropPlan DEF Drops, Kind
<1> QED
  BY <1>6, <1>7, <1>8, <1>9, <1>10, StepCases

LEMMA NextOneChange == IInv /\ FInv /\ OneChange /\ [Next]_vars => OneChange'
<1>1. ASSUME OneChange, UNCHANGED vars PROVE OneChange'
  BY <1>1 DEF vars, settings, OneChange, SameDeclaration, Kind
<1> QED
  BY <1>1, StepOneChange DEF Next

\* isConcurrentChange under the retry policy: replicas of one deployment that
\* declare the same and drop nothing change the table at most once between them,
\* so that each meets at most one concurrent change.
THEOREM DeploymentRetriesOnce == Spec => []SameDeclarationRetriesOnce
<1>1. IInv /\ OneChange => SameDeclarationRetriesOnce
  <2> SUFFICES ASSUME IInv, OneChange, SameDeclaration
               PROVE  etag <= 1 /\ \A r \in Replicas : conflicts[r] <= 1
    BY DEF SameDeclarationRetriesOnce, SameDeclaration
  <2>1. etag \in {0, 1}
    BY DEF OneChange
  <2>2. \A r \in Replicas :
          conflicts[r] \in Nat /\ own[r] \in Nat /\ conflicts[r] + own[r] <= etag
    BY DEF IInv, TypeOK, Charged
  <2> QED
    BY <2>1, <2>2
<1> QED
  BY <1>1, InitOneChange, NextOneChange, InductiveInvariant, ReconciledKept, PTL DEF Spec
=============================================================================
