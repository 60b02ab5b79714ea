# A TLA+ model of bqsink

bqsink writes Go values to a BigQuery table. A *declaration* (a Go type or a
`bigquery.TableMetadata`) says what the table should look like; a `Sinker`
reconciles the real table with it once and turns rows into columns; a
`RowsWriter` carries the rows, by load jobs or by the Storage Write API. This
project models the parts of it that are hard to test (concurrent calls on a
writer, failures and retries against BigQuery, replicas migrating one table at
the same time) and the pure algorithms whose corner cases matter. TLC checks
small instances, TLAPS proves the properties that matter most for instances of
any size. `PROJECT.json` maps every definition to the source lines it models.

## The system

| Part | Source | State | Operations | What is hard |
|---|---|---|---|---|
| LoadJobsWriter | `write.go` | `schema`, `buf`, `pending`, `closed` under `mu`; a WaitGroup | BindSchema, WriteRows, FlushRows, Close | goroutines hand rows to one another through the buffer; failures are kept for another call to report; Close races writes; jobs outlive the call that submitted them |
| Retry policy | `migration.go`, `bqsink.go` | retries so far | `retrying`, `attemptLimiter.Retry` | an attempt that failed may have taken effect |
| Staged loading | `write.go`, `bqgcs/staging.go` | `counter`, objects in a bucket | Stage, load, cleanup | cleanup while the job runs, names that collide |
| StorageWriter | `storagewrite.go` | client, stream, `closed` under `mu` | BindSchema, WriteRows, Wait, Close | fields copied under the mutex and used without it; connections half opened; lost answers |
| Sinker | `bqsink.go` | `startOnce`, `startErr` | Start, Sink, SinkAsync | many first callers, one start; two Sinkers over one writer; writers that miscount |
| Migration | `migration.go` | the table in BigQuery, the metadata read | migrate, apply, createTable, patchSchema, dropColumns | replicas act on metadata that is stale; one of two calls fails |
| Field collection | `fields.go` | the walk's queue and visited set | collectFields, resolveCollisions | cycles, ties, diamonds |
| Declaration, row plan, layout | `bqsink.go`, `plan.go`, `schema.go` | none once built | DeclarationOf, DeclarationFromMetadata, buildRowPlan, resolveLayout, resolveTableMetadata | the schema and the rows come from two passes over one plan; three places may say the same thing of a table |
| Marshalers | `marshal.go` | none once joined | MarshalFunc, joinMarshalers, lookup | which claim on a type wins |
| Rows, rendering | `plan.go`, `maprow.go`, `jsonrow.go` | none | marshalRow, encodeRow | INT64's edge, NULL that appears late, two dialects |
| Filling, options, names | `fill.go`, `option.go`, `relation.go` | none | | sequential; `fill.go` partly modelled, the others not (below) |

A Sinker calls its writer (`BindSchema` once, `WriteRows` per batch); the load
jobs writer calls a loader, which may stage rows first; both the migration and
the load go through `retrying`. Callers share a Sinker and a writer between
goroutines; processes share the table and the bucket.

What makes the parts correct: a writer keeps its contract (a count is true, an
error names a row once, Close leaves nothing undecided), a Sinker lets only rows of
its own reconciled schema through and tells every caller the same of its start, replicas never undo
one another's changes, and a declaration's schema describes the rows written under
it. `PROJECT.json` lists the hazards, with their lines and properties.

## Modules

Transports and their contract

* `RowsWriter` — what `write.go` promises of any transport, as an abstract
  specification: rows are taken or refused, land, and a result, a FlushRows or a
  Close counts them or names them in an error, each row once. It does not promise
  that a row named by an error stays out of the table: see below.
* `LoadJobsWriter` — one action per critical section and per blocking call, one
  call per goroutine with its locals (`op`, `pc`, `batch`, `folded`, `retries`).
  A batch is a set of rows, an error in `pending` the set of rows it is about.
  `running` and `succeeded` are BigQuery's jobs: a submission that failed may
  have created one, and a wait that failed leaves it running. `given`,
  `delivered` and `reported` record what callers were told. An outcome counts
  as told when the method returns it, as it does for a caller that calls `Wait`
  on the resolved result. `Contract` maps it to RowsWriter: the table is the union
  of the jobs that succeeded.
* `StorageWriter` — the mutex is modelled because BindSchema holds it across
  its remote calls. Of managedwriter there is what the code relies on: open and
  closed, one answer per append, resending when an answer is lost. `Contract` maps
  it to RowsWriter: the table is the union of the appends that landed.
* `StagedLoad` — loads under the retry policy, the bucket, and jobs that read
  whatever object has their name when they run.

Sinkers and tables

* `Sinker` — `startOnce` split into its steps, so that callers arrive in the
  middle; the writer is any RowsWriter, one that miscounts included.
* `Pipeline` — `Sinker` composed with `LoadJobsWriter`: Sinkers sharing one writer
  that other goroutines flush and close. Each action is a step of one of them, or
  one of each where a Sink enters the writer (`SinkWrites`) or returns from it
  (`Returned`). `answer` is what each row's Sink was returned.
* `SchemaDiff` — DiffSchema, the three strategies' Plan and mergeSchema as
  operators on schemas, which are functions from names to columns.
* `Migration` — extends it: replicas read, plan and apply, each remote call a
  step of its own. `etag` counts the table's changes; a patch is accepted only
  under the ETag it read; a drop carries none. Any call can fail, with or
  without having taken effect (`CallFails`, `AnswerLost`).

Declarations and rows

* `Fields` — the breadth-first walk with the code's visited and next sets,
  compared with the documented rule written over embedding paths.
* `MapRows` — the conversion of map rows and the rendering of columns, as operators. A
  value of a named type is looked through where the code goes by kind and refused where
  it asserts the very type (`TakenAs`).
* `RowPlan` — extends it with struct types: tags, marshalers, the resolution of a
  column's type, layout, the inferred schema, the settling of table metadata, and
  the conversion of struct rows.
* `Rows` — one row's way from a declaration through conversion to both renderings.

`MC*` are instances for TLC; `*Proofs` hold theorems, and `RowsWriter` its own.

Definitions whose names end in `Mutant` are what a plausible slip in the code
would make of the definition after them; with one in place of the original the
property named beside it in `PROJECT.json` fails.

## Runs

| Run | Instance | Shows |
|---|---|---|
| `load_jobs` | 3 goroutines, 4 rows (one cannot be rendered), FlushRows unset and 2, 1 retry | no accepted row is forgotten (`AccountedFor`), Close settles everything, the buffer stays below FlushRows, retries duplicate only within a batch, nobody joins the WaitGroup after Close, and the writer implements RowsWriter |
| `migrate` | 2 replicas, 5 declarations, 5 strategies, 10 tables | started replicas can write; no lost update; drops only what is unmanaged; adding before dropping |
| `fleet` | 3 replicas of the default strategy, 1 retry, fair | the retry budget suffices unless others' changes outnumber it; identical replicas conflict at most once; every start ends |
| `storage` | 3 goroutines, 3 rows | no connection leaks; silence after Close; the writer implements RowsWriter |
| `staged` | 2 loads, one Staging, 1 retry | each job loads its own rows; the bucket is tidy |
| `sink` | 2 goroutines, 2 Sinkers over one writer, fair | one start, own schema, a start's outcome is final; nobody hangs in start |
| `pipeline` | 2 goroutines, 2 Sinkers over one LoadJobsWriter (FlushRows unset and 2), 2 rows alone and together, fair | what Sink returns is true of the table; jobs carry rows of the bound schema only; once closed every row a Sink took is decided; every call ends |
| `columns` | about 27,000 declarations of four structs | the walk ends, and promotes what the rule promotes; in diamonds it keeps nothing the rule hides |
| `rows` | map rows of every Go type against every column type and mode, nested and in pairs; structs of one column over some 80 Go types, 13 tag option lists and marshaler lists; pairs of partitioned and clustered columns; every combination of TableMeta and BigQueryTableMetadata | the schema describes the rows, layout is settled, integers exact, rows complete, NULL refused, transports agree |

Bounds. Two actors show every pairwise race, a third one a caller that arrives
while two others are at odds (a writer that fills the buffer while Close waits
for a FlushRows). Four rows at FlushRows 2 give two full batches, or one and a
rest for Close; one retry gives a batch that lands twice. `pipeline` has no retries
and no rows that cannot be prepared or rendered: those are in `load_jobs` and `sink`,
and its own question is how the two components' calls interleave. `MaxClock` and the
retry counts bound the staged names. `IntBits` 4 with a two-bit mantissa has
the same relation between the largest integer and its neighbouring floats that
INT64 and float64 have. Structs of one column reach every rule for a column;
rules between columns (one partition, clustering positions) need two, and a nested
struct has two of its own. Symmetry is used in safety runs only, over callers,
replicas, loads and rows that can all be rendered.

Fairness. Weak fairness for every goroutine inside a call, whose next step is the
scheduler's to take and whose remote calls return, with an answer or an error; and
for BigQuery finishing a job, which `job.Wait` relies on. Nothing is assumed about
callers starting calls or cancelling them (nobody has to call Close: `ClosedMeansSettled`
says what follows once somebody has), a wait need not fail while its job runs,
and failures need not stop. The wait for a job, for the WaitGroup and inside
`startOnce.Do` are guards, so that fairness alone does not pass them.

### Where a comment and the code differ

Three runs state what a comment promises and end in a counterexample:

* `lost_never_landed` — rows reported as not landed can land: the answer to the
  submission, or the wait for the job, was lost and the job finishes later.
* `concurrent_drop` — two SyncAllColumns replicas dropping one column: the slower
  replica's ALTER TABLE fails with an error that is not retried, and its start
  fails for good.
* `required_null` — a struct's nil `[]byte` in a REQUIRED BYTES column is rendered as
  `null`: it is a value when `jsonValue` looks for NULL and becomes NULL afterwards.

The models show further places where the code does less than a comment says. They
are part of the models and no property denies them:

* `StorageWriter` — a WriteRows overtaken by Close (`AppendOnClosed`) fails with
  io.EOF and not with ErrWriterClosed; one whose context ends during the append
  (`AppendFails`) returns an error although its rows may be appended, so an error does
  not mean that "the rows were not taken at all" (`write.go`), and RowsWriter does
  not say so.
* `StagedLoad` — the deferred cleanup removes the object of a job that is still
  running when the wait failed; two Staging values that read one clock value at
  one count choose the same name.
* `Fields` — a struct embedded twice at one depth is descended into once, so that
  its columns are kept where the rule has a tie (`FollowsTheRule` leaves out those
  declarations, `NothingLost` and `NoneHidden` cover them).
* `MapRows` — empty JSON text becomes NULL after the checks for NULL, in a REQUIRED
  column too; a marshaler's nil answer is an array's NULL element.
* `RowPlan` — a slice is taken apart before its type is looked up, so a marshaler
  or a FieldMarshaler of a named slice type is never asked; a nil element of a
  `[]*T` becomes a NULL array element where map rows refuse one; a pointer to a nil
  pointer to a record struct is an error where a nil pointer is NULL; layout tags
  and a TableMeta inside a record struct are checked and ignored; layout is checked against the
  plan's column types and not against a schema spelled out by the method, and
  columns the method's partitioning or clustering names are not checked at all; a
  REQUIRED column of such a schema that the struct does not write is left to
  BigQuery to refuse.
* Not in the models, since they would not return: a struct with a `record` column
  that leads back to it makes buildRowPlanFor call itself without end.

## Proofs

`LoadJobsWriterProofs`, for any finite set of callers and rows,
any FlushRows and any number of retries:

* `TypeCorrect`, `NoRowForgotten` (`AccountedFor`) and `CloseSettles`
  (`SettledAtClose`);
* `LoadJobsImplementsRowsWriter` (`ImplementsRowsWriter`) with `OneOwner`, and
  `LoadJobsTruthful` and `LoadJobsVerdictsStand`, what the contract then gives its users;
* `NeverHoldsFlushRows` (`HeldBounded`), `NoAddAfterClose` (`AddBeforeWait`) and
  `DuplicatesStayWithinABatch` (`DuplicatesBounded`).

`SettledAtClose` is not inductive. The invariant `IInv` adds which rows a call at
each step can hold (`CallShape`), that the WaitGroup's counter is the number of
calls between their Add and their Done (`GroupCount`), and what is left once the
writer is closed (`AfterClose`): an empty buffer, at most one Close, and, once
that Close has passed its wait, no call in the group, so that nobody can add to
`pending` behind its back. `GroupCount` is where cardinalities come in; the
lemmas `GroupJoins` and `GroupLeaves` hold that part. There is one lemma per
action, and the steps of `load`, which change nothing but the call's own locals
and the jobs, share one.

The refinement needs to know that an error never names a row twice. That is
`Ownership`: a row is in the care of the buffer, of `pending` or of one call and of no
two of them, and nothing has been said of it while it is. Each action takes new rows,
moves rows between parties, or says something of the rows in one call's care and lets
go of them, and there is a lemma for each of the three. `DuplicatesBounded` adds that
the jobs of a row are attempts of one batch.

`RowsWriter` ends with what the contract is good for, of any transport that keeps it:
`ContractIsTruthful`, a counted row is in the table and in no error, whenever that was
returned, and `VerdictsStand`, what a caller was told of a row is final: no later result
or error speaks of it again, and the table only grows. That takes that an error which
refuses rows outright names rows nobody had handed over (`NamesGiven`). With the two
refinements both hold of both writers (`LoadJobsTruthful`, `LoadJobsVerdictsStand`,
`StorageTruthful`, `StorageVerdictsStand`).

`StorageWriterProofs`, for any callers and rows:

* `TypeCorrect`, `ConnectionKept` (`NoLeak`), `NothingSentAfterClose`
  (`QuietAfterClose`), `StorageImplementsRowsWriter` (`ImplementsRowsWriter`),
  `StorageTruthful` and `StorageVerdictsStand`.

`NoLeak` speaks of the moments between calls. `Connection` says what a call that opens
or closes has open at each of its points, that there is one such call at most, and
that whoever holds the mutex is opening. The refinement rests on an `Ownership` like
the other writer's.

`StagedLoadProofs`, for any loads, clock readings and retries:

* `BucketTidy` (`Tidy`), for any number of Stagings;
* `LoadsKeepApart` (`OwnRows`) and `CleanupOwnObject` (an object leaves the bucket only
  by the cleanup of the attempt that uploaded it), for one Staging. The hypothesis
  `OneStaging` is part of both statements: two Stagings can choose one name, see above.

The invariant is about names. Every name in use was given out (`AllMinted`): its count
is not zero and not beyond the Staging's counter, so the next upload's name is new
whatever the clock reads. `Apart` follows, an object under the name of an attempt or of
a job holding that load's rows, and from it what a job appends. `Concluded` carries a
success from the end of the job past the deferred cleanup.

`SinkerProofs`, for any goroutines, Sinkers and batch sizes, over any RowsWriter:

* `TypeCorrect`, `OneStart` (`StartedOnce`), `WritesUnderOwnSchema` (`OwnSchema`),
  and `StartOutcomeFinal` (`StartFinal`): what a start came to, and the schema the writer
  is bound with, never change again.

`Settled` is what makes them inductive. It ties `once`, `startErr`, `migrations` and
`boundTo`, which different goroutines read and write at different moments: a Sinker
whose start is not over has neither failed nor bound, and one whose start is over and
did not fail is the one the writer is bound to. `Holding` says who is inside `Do` and
what that goroutine has left to do, `Admitted` that nobody is past a start that failed.

`PipelineProofs`, for any goroutines, Sinkers, rows, batches, FlushRows and retries:

* `WriterInPipeline` and `SinkerInPipeline`: the composition implements each of its
  components, so what is proved of either alone holds of the two together;
* `SinkIsTruthful` (`SinkTruthful`) and `JobsCarryOwnSchema` (`JobsUnderOwnSchema`).

`PInv` is the components' invariants, taken over as they are, and `Between`: a goroutine
is inside WriteRows only for a Sink at its write (`Nested`); the writer has a Sink's
rows from its write on and not before (`TakenAtWrite`); rows in a Sink's hands are its
alone (`InHand`); what WriteRows returned is true of them while the Sink waits and of
the answer afterwards (`OutcomeTrue`, `AnswerTrue`); and the writer has rows only of
Sinkers that have started (`TakenFromStarted`). Nothing that has happened is undone by a
step of anybody (`Steady`), so each action has only to be shown to be of one of six
kinds: a Sink begins, advances, arrives at the writer, is returned a result, ends, or is
not concerned. Sinker's lemmas are used through an instance of `SinkerProofs`.

`MigrationProofs`, for any finite fleet, any declarations, strategies and tables:

* `TypeCorrect`, `StartNotStarved` (`RetryBudget`) and `PatchesLoseNothing`
  (`NoLostUpdate`);
* `StartedKeepsFitting` (`StartedFits`), `AddsBeforeDrops` (`DropLeavesMore`) and
  `OnlyUnmanagedDropped` (`DropsOnlyUnmanaged`), with `ReconciledKept`;
* `DeploymentRetriesOnce` (`SameDeclarationRetriesOnce`).

The invariant `IInv` says that metadata read under the ETag that is still current is
the table's (`Current`), that a replica's conflicts are changes others made, all of
them before it last read the table when it is about to change it (`Charged`), and that
each retry was spent on a conflict or a fault (`Spent`). `NoLostUpdate` follows from
`Current` and what `mergeSchema` keeps, `RetryBudget` from the other two.

That a started replica can write takes `FInv`: whoever is about to patch or to drop goes
by a plan for the table it read (`Planned`), and a table reconciled with a declaration
keeps fitting it until somebody drops one of its columns (`Kept`). The lemmas under it
are about the operators of `SchemaDiff` on any schemas: a merged plan fits the
declaration it was made for (`MergeFits`), a table that keeps its columns or relaxes
them keeps fitting (`FitsKept`), and a table that fits needs no patch
(`FittingNeedsNoPatch`). The last one is why identical replicas change the table once
(`OneChange`): after the first change every plan made is empty, and the patches still
to come go by an ETag that is gone.

`FieldsProofs`, for any finite set of struct types and any declarations of them, in
which structs may embed one another in cycles and diamonds:

* `WalkBounded` (`DescentBounded`), and `WinnerIsTheRule`: of any finite set of
  candidates of one name, winnerFor's two counts leave the one the documented rule
  keeps, or none;
* `RuleFollowed` (`FollowsTheRule`) and `PromotedKept` (`NothingLost`): collectFields
  computes the documented rule;
* `OnlyTiesLeftStanding` (`NoneHidden`): what it keeps beyond the rule, where a struct is
  embedded twice at one depth, is a field the rule has in a tie and never one it hides.

The walk's invariant `WInv` says that a type still to be walked is in one place
(`Once`), that each level so far brought at least one type nobody had visited, so that
there are no more levels than types (`Levels`), and that every candidate is one of the
fields already looked at (`Counted`).

The rule is written over embedding paths and knows no visited set, so comparing the two
takes more: `RInv` adds that there is a place `w` where each type was met, at the end of
a path as long as the level is deep (`Origins`); that no path of at most the current depth
leads to a type not met or met deeper (`Nearest`); that of every field looked at the
embedded struct has been met (`Followed`) and the column is among the candidates, at the
place where its struct was met, with nothing else among them (`Recorded`). When the walk
ends the types met are closed under embedding, so every path leads to one of them
(`PathsMet`), and for every candidate of the rule one of its name was found that is no
deeper: itself, a shallower one, or in a diamond one as deep (`EndedFacts`). What the walk
skips therefore never decides a name. A candidate found has an index of its own
(`PathsApart`), `slices.Compare` orders indexes totally (`BeforeTotal` and its
neighbours), and a member's rank is then its place (`ByIndexSorts`), so that the columns come out in
declaration order (`KeptFacts`).

Two forms in `Fields` are there for these proofs. `ByIndex` gives a candidate the place
that counts those before it, where `SortSeq` has no definition a prover sees. And
`Reached` is a recursive function: that it satisfies its own equation
(`ReachedUnfolds`), and all else about paths of any length, is induction. The library's
induction theorems take an operator, which the installed provers cannot instantiate;
`WFMin`, that a non-empty set has a minimal element, takes a set. `LeastNatural` and
`SetInduction` come from it, and each induction here is on the set of the naturals for
which the claim holds.

The assumptions are the named ASSUMEs of the modules: finite sets, natural bounds,
`Unencodable` and `Unpreparable` sets of rows, tables and declarations made of columns
(`TablesAssumption`, `SettingsAssumption`), strategies the three the package has, and a
value that is no Sinker for "none". TLC evaluates them in every run.

Only model-checked: liveness under fairness (`EveryStartEnds`, `EveryCallReturns`,
`EveryCallEnds`, `ClosedMeansSettled`), and what the RECURSIVE operators of `MapRows` and
`RowPlan` compute, and so the properties of `Rows`: the provers take no RECURSIVE
operator, and these recur over Go values and types, which are in no one set that a
recursive function could have as its domain. With more than one Staging `OwnRows` does
not hold.

## Not modelled

The text of tags (how it is split), names and rendered values, logging, settings and
their validation. Of row filling there is `checkRowFiller` and whether a row can be
filled: the identifiers and times `IngestionMetadata` writes are read by nothing else.
FillRow writes through the caller's pointer, so two concurrent Sinks of one pointer
race; that is the caller's to avoid. Reflection's field indices are replaced by names,
and a tie between two columns' names is `Fields`' subject. BigQuery, Cloud Storage,
managedwriter and gax are environment: they do what the code relies on or fail.
Backoff times are a step that can be cancelled. Nothing here is persisted by the
process, so there is no restart to model: a crashed process loses its buffer.

## Plan

1. Done: the load jobs writer, the migration, the Storage Write transport, staging,
   the Sinker, field collection.
2. Done: the RowsWriter contract and the two refinements; Sinkers composed with the
   load jobs writer; declarations, row plans, layout, marshalers, struct and map rows.
3. Done: the theorems above, one for each safety property of the transports, staging,
   the Sinker, the migration, the composition and field collection, and what the contract
   gives a caller over time.
4. Left to TLC: liveness, and declarations and rows.
