------------------------------ MODULE Migration ------------------------------
(***************************************************************************)
(* Bringing one BigQuery table in line with what several replicas declare: *)
(* Sinker.start, migrate, apply, createTable, patchSchema and dropColumns, *)
(* run by every replica at once under its retry policy.                    *)
(*                                                                         *)
(* A replica reads the table's metadata, plans locally, and applies the    *)
(* plan with further calls.  Other replicas run between any two calls, and *)
(* any call can fail, with or without having taken effect.                 *)
(***************************************************************************)
EXTENDS SchemaDiff, FiniteSets

CONSTANTS
    Replicas,           \* Sinkers starting on the same table
    Declarations,       \* the schemas they may declare
    Strategies,         \* the strategies they may be given
    Tables,             \* what the table may be when they start
    migrateMaxRetries   \* retries after the first attempt, DefaultRetryPolicy

\* A table is what it is now: whether it exists and, if so, its schema.
Missing == [exists |-> FALSE, schema |-> <<>>]
Existing(schema) == [exists |-> TRUE, schema |-> schema]

ASSUME MigrationAssumption ==
    /\ IsFiniteSet(Replicas)
    /\ migrateMaxRetries \in Nat
ASSUME TablesAssumption ==
    \A t \in Tables : t = Missing \/ (t = Existing(t.schema) /\ IsSchema(t.schema))
ASSUME SettingsAssumption ==
    /\ \A w \in Declarations : IsSchema(w)
    /\ \A s \in Strategies : s.kind \in Kinds

VARIABLES
    table,     \* BigQuery's table
    etag,      \* how often it has changed, which is what its ETag tells apart
    want,      \* s.schema of each replica
    strategy,  \* s.strategy of each replica
    pc,        \* where its start is
    md,        \* the metadata it read: the table and its etag
    change,    \* what its strategy asked for
    retries,   \* attemptLimiter.retries of its migration
    startErr,  \* why its start failed
    own,       \* how many of the table's changes are its own
    conflicts, \* how many of its attempts met a concurrent change
    faults     \* how many of its attempts failed for another reason

settings == <<want, strategy>>
counts == <<own, conflicts, faults>>
vars == <<table, etag, settings, pc, md, change, retries, startErr, counts>>

PCs == {"read", "create", "patch", "drop", "backoff", "started", "failed"}
Errors == {"none", "ErrSchemaConflict", "ErrTableMissing", "concurrent", "statement", "other"}

PerReplica(f) == f = [r \in Replicas |-> f[r]]
TypeOK ==
    /\ table.exists \in BOOLEAN
    /\ etag \in Nat
    /\ want \in [Replicas -> Declarations]
    /\ strategy \in [Replicas -> Strategies]
    /\ pc \in [Replicas -> PCs]
    /\ PerReplica(md)
    /\ \A r \in Replicas : md[r].etag \in 0..etag
    /\ PerReplica(change)
    /\ retries \in [Replicas -> 0..migrateMaxRetries]
    /\ startErr \in [Replicas -> Errors]
    /\ own \in [Replicas -> Nat]
    /\ conflicts \in [Replicas -> Nat]
    /\ faults \in [Replicas -> Nat]

Init ==
    /\ table \in Tables
    /\ etag = 0
    /\ want \in [Replicas -> Declarations]
    /\ strategy \in [Replicas -> Strategies]
    /\ pc = [r \in Replicas |-> "read"]
    /\ md = [r \in Replicas |-> [table |-> Missing, etag |-> 0]]
    /\ change = [r \in Replicas |-> NoChange]
    /\ retries = [r \in Replicas |-> 0]
    /\ startErr = [r \in Replicas |-> "none"]
    /\ own = [r \in Replicas |-> 0]
    /\ conflicts = [r \in Replicas |-> 0]
    /\ faults = [r \in Replicas |-> 0]

-----------------------------------------------------------------------------
(* The retry policy around migrate *)

\* attemptLimiter.Retry counts the attempt and asks isRetryable.
RetryMutant(n, retryable) == n + 1 < migrateMaxRetries /\ retryable
RetryUncappedMutant(n, retryable) == n <= migrateMaxRetries /\ retryable
Retry(n, retryable) == n < migrateMaxRetries /\ retryable

\* The attempt of r ends in the error e.
AttemptFailed(r, e, retryable) ==
    IF Retry(retries[r], retryable)
    THEN /\ pc' = [pc EXCEPT ![r] = "backoff"]
         /\ retries' = [retries EXCEPT ![r] = @ + 1]
         /\ UNCHANGED startErr
    ELSE /\ pc' = [pc EXCEPT ![r] = "failed"]
         /\ startErr' = [startErr EXCEPT ![r] = e]
         /\ UNCHANGED retries

\* An error that is BigQuery's or the network's and no other replica's doing.
FaultMutant(r, retryable) ==
    /\ IF retryable
       THEN pc' = [pc EXCEPT ![r] = "backoff"] /\ UNCHANGED <<retries, startErr>>
       ELSE AttemptFailed(r, "other", FALSE)
    /\ UNCHANGED <<faults, conflicts>>
Fault(r, retryable) ==
    /\ AttemptFailed(r, "other", retryable)
    /\ faults' = [faults EXCEPT ![r] = @ + 1]
    /\ UNCHANGED conflicts

\* BigQuery answers 412 or 409, which isConcurrentChange recognises.
Conflict(r) ==
    /\ AttemptFailed(r, "concurrent", TRUE)
    /\ conflicts' = [conflicts EXCEPT ![r] = @ + 1]
    /\ UNCHANGED faults

Proceed(r, s) ==
    /\ pc' = [pc EXCEPT ![r] = s]
    /\ UNCHANGED <<retries, startErr, conflicts, faults>>

\* The table changes, by a call of r.
SetTable(r, t) ==
    /\ table' = t
    /\ etag' = etag + 1
    /\ own' = [own EXCEPT ![r] = @ + 1]
KeepTable == UNCHANGED <<table, etag, own>>

-----------------------------------------------------------------------------
(* migrate: read, plan, apply *)

\* apply's order: patch before drop.
NextStepMutant(c) ==
    IF c.DropColumns # {} THEN "drop"
    ELSE IF c.AddColumns \cup c.RelaxColumns # {} THEN "patch" ELSE "started"
NextStep(c) ==
    IF c.AddColumns \cup c.RelaxColumns # {} THEN "patch"
    ELSE IF c.DropColumns # {} THEN "drop" ELSE "started"

\* Columns the plan would add that an existing table cannot take.
Unaddable(r, c) == requiredNames(want[r], c.AddColumns)

\* Metadata answers with the table, and the strategy plans.
ReadExisting(r) ==
    /\ pc[r] = "read"
    /\ table.exists
    /\ md' = [md EXCEPT ![r] = [table |-> table, etag |-> etag]]
    /\ LET c == Plan(strategy[r], DiffSchema(want[r], table.schema))
       IN  /\ change' = [change EXCEPT ![r] = c]
           /\ IF c.conflicts # {} \/ Unaddable(r, c) # {}
              THEN /\ AttemptFailed(r, "ErrSchemaConflict", FALSE)
                   /\ UNCHANGED <<conflicts, faults>>
              ELSE Proceed(r, NextStep(c))
    /\ KeepTable
    /\ UNCHANGED settings

\* Metadata answers 404.
ReadMissing(r) ==
    /\ pc[r] = "read"
    /\ ~table.exists
    /\ md' = [md EXCEPT ![r] = [table |-> table, etag |-> etag]]
    /\ IF strategy[r].CreateIfMissing
       THEN Proceed(r, "create")
       ELSE /\ AttemptFailed(r, "ErrTableMissing", FALSE)
            /\ UNCHANGED <<conflicts, faults>>
    /\ change' = [change EXCEPT ![r] = NoChange]
    /\ KeepTable
    /\ UNCHANGED settings

ReadFails(r, retryable) ==
    /\ pc[r] = "read"
    /\ Fault(r, retryable)
    /\ KeepTable
    /\ UNCHANGED <<settings, md, change>>

\* Create: 409 when another replica was first.
CreateTable(r) ==
    /\ pc[r] = "create"
    /\ IF table.exists
       THEN Conflict(r) /\ KeepTable
       ELSE Proceed(r, "started") /\ SetTable(r, Existing(want[r]))
    /\ UNCHANGED <<settings, md, change>>

\* Update carries the ETag that was read: 412 when the table has changed since.
UpdateAcceptedMutant(r) == TRUE
UpdateAccepted(r) == md[r].etag = etag
Merged(r) == Existing(mergeSchema(want[r], md[r].table.schema, change[r]))
AfterPatch(r) == IF change[r].DropColumns # {} THEN "drop" ELSE "started"
PatchSchema(r) ==
    /\ pc[r] = "patch"
    /\ IF UpdateAccepted(r)
       THEN Proceed(r, AfterPatch(r)) /\ SetTable(r, Merged(r))
       ELSE Conflict(r) /\ KeepTable
    /\ UNCHANGED <<settings, md, change>>

\* ALTER TABLE ... DROP COLUMN, which carries no ETag: BigQuery refuses the
\* whole statement when a column it names is gone.
Dropped(r) ==
    Existing([n \in DOMAIN table.schema \ change[r].DropColumns |-> table.schema[n]])
DropColumns(r) ==
    /\ pc[r] = "drop"
    /\ IF change[r].DropColumns \subseteq DOMAIN table.schema
       THEN Proceed(r, "started") /\ SetTable(r, Dropped(r))
       ELSE /\ AttemptFailed(r, "statement", FALSE)
            /\ UNCHANGED <<conflicts, faults>>
            /\ KeepTable
    /\ UNCHANGED <<settings, md, change>>

\* A call fails for another reason, having changed the table or not: the answer
\* to a change that was made can be lost.
CallFails(r, retryable) ==
    /\ pc[r] \in {"create", "patch", "drop"}
    /\ Fault(r, retryable)
    /\ KeepTable
    /\ UNCHANGED <<settings, md, change>>

AnswerLost(r, retryable) ==
    /\ \/ pc[r] = "create" /\ ~table.exists /\ SetTable(r, Existing(want[r]))
       \/ pc[r] = "patch" /\ UpdateAccepted(r) /\ SetTable(r, Merged(r))
       \/ /\ pc[r] = "drop"
          /\ change[r].DropColumns \subseteq DOMAIN table.schema
          /\ SetTable(r, Dropped(r))
    /\ Fault(r, retryable)
    /\ UNCHANGED <<settings, md, change>>

\* gax.Invoke sleeps and runs migrate again from the start, unless the context
\* of the caller that triggered start ends first.
Backoff(r) ==
    /\ pc[r] = "backoff"
    /\ Proceed(r, "read")
    /\ KeepTable
    /\ UNCHANGED <<settings, md, change>>

Cancelled(r) ==
    /\ pc[r] = "backoff"
    /\ pc' = [pc EXCEPT ![r] = "failed"]
    /\ startErr' = [startErr EXCEPT ![r] = "other"]
    /\ KeepTable
    /\ UNCHANGED <<settings, md, change, retries, conflicts, faults>>

Step(r) ==
    \/ ReadExisting(r)
    \/ ReadMissing(r)
    \/ CreateTable(r)
    \/ PatchSchema(r)
    \/ DropColumns(r)
    \/ Backoff(r)
    \/ Cancelled(r)
    \/ \E retryable \in BOOLEAN :
        \/ ReadFails(r, retryable)
        \/ CallFails(r, retryable)
        \/ AnswerLost(r, retryable)

Next == \E r \in Replicas : Step(r)

Spec == Init /\ [][Next]_vars

\* A replica that has begun to start keeps going: every call returns and every
\* pause ends.  Nobody is bound to cancel a start.
FairSpec == Spec /\ \A r \in Replicas : WF_vars(Step(r) /\ ~Cancelled(r))

-----------------------------------------------------------------------------
(* Properties *)

Kind(r) == strategy[r].kind

\* Without SyncAllColumns about, a replica of AppendNewColumns that has started
\* can write its rows, and keeps being able to, whatever other replicas do to
\* the table before or after.
StartedFits ==
    (\A r \in Replicas : Kind(r) # "SyncAllColumns") =>
        \A r \in Replicas :
            pc[r] = "started" /\ Kind(r) = "AppendNewColumns" => Fits(want[r], table.schema)

\* A patch computed from metadata that is stale by now never undoes what
\* another replica did: short of an ALTER TABLE statement every column stays,
\* as it is or relaxed from REQUIRED to NULLABLE.
KeepsColumns(old, new) ==
    \A n \in DOMAIN old.schema :
        n \in DOMAIN new.schema /\ new.schema[n] \in {old.schema[n], relaxed(old.schema[n])}
NoLostUpdate ==
    [][table.exists /\ (\A r \in Replicas : pc[r] = "drop" => pc'[r] = "drop")
        => table'.exists /\ KeepsColumns(table, table')]_vars

\* A column leaves the table only by the hand of a SyncAllColumns replica that
\* neither declares it nor was told to ignore it.
DropsOnlyUnmanaged ==
    [][\A n \in DOMAIN table.schema \ DOMAIN table'.schema :
        \E r \in Replicas :
            /\ pc[r] = "drop" /\ pc'[r] # "drop"
            /\ Kind(r) = "SyncAllColumns"
            /\ n \notin DOMAIN want[r] \cup strategy[r].IgnoreColumns]_vars

\* The declared columns r manages.
Managed(r) ==
    [n \in DOMAIN want[r] \ (IF Kind(r) = "SyncAllColumns" THEN strategy[r].IgnoreColumns ELSE {})
        |-> want[r][n]]

\* Columns are added before any are dropped: from the moment r is about to drop,
\* and also when dropping fails, the table has every column r declares -- unless
\* another SyncAllColumns replica declares fewer.
DropLeavesMore ==
    \A r \in Replicas :
        /\ pc[r] = "drop" \/ startErr[r] = "statement"
        /\ \A s \in Replicas : Kind(s) = "SyncAllColumns" => DOMAIN want[r] \subseteq DOMAIN want[s]
        => Fits(Managed(r), table.schema)

\* A replica fails over a concurrent change only when the changes others made,
\* together with its own faults, outnumber the policy's retries: up to that many
\* other changes the table can never starve a start.
RetryBudget ==
    \A r \in Replicas :
        startErr[r] = "concurrent" => (etag - own[r]) + faults[r] > migrateMaxRetries

\* Replicas of one deployment, declaring the same and dropping nothing, never
\* change the table more than once between them and so meet at most one
\* concurrent change each.
SameDeclarationRetriesOnce ==
    (\A r, s \in Replicas : want[r] = want[s] /\ Kind(r) # "SyncAllColumns")
        => etag <= 1 /\ \A r \in Replicas : conflicts[r] <= 1

\* Every start ends, having reconciled the table or with an error: the attempts
\* are bounded whatever BigQuery answers.
EveryStartEnds == \A r \in Replicas : <>(pc[r] \in {"started", "failed"})

\* DefaultRetryPolicy "covers both a concurrent change to the table during the
\* migration and a transient failure while writing": no start fails because
\* another replica dropped the same columns first.
ConcurrentDropCovered == \A r \in Replicas : startErr[r] # "statement"
=============================================================================
