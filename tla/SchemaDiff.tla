----------------------------- MODULE SchemaDiff -----------------------------
(***************************************************************************)
(* The pure half of migration.go: comparing a declared schema with a       *)
(* table's, the strategies that decide what to do about the difference,    *)
(* and merging a change into a schema.                                     *)
(*                                                                         *)
(* A schema is a function from column names to columns, and a column a     *)
(* record of its type, its modes and, for a RECORD, the nested schema.     *)
(* That makes sameNestedSchema, which compares names, types and modes      *)
(* recursively and not the order, the equality of two nested schemas.      *)
(***************************************************************************)
EXTENDS Naturals

IsColumn(g) ==
    g = [type |-> g.type, repeated |-> g.repeated, required |-> g.required, nested |-> g.nested]
IsSchema(schema) == \A n \in DOMAIN schema : IsColumn(schema[n])

NoColumns == {}
RecordFieldType == "RECORD"

sameNestedSchema(w, g) == w = g

\* A difference BigQuery or bqsink cannot reconcile.
conflictBetween(w, g) ==
    \/ w.type # g.type
    \/ w.repeated # g.repeated
    \/ w.required /\ ~g.required
    \/ w.type = RecordFieldType /\ ~sameNestedSchema(w.nested, g.nested)

\* The table requires a value where the declaration allows NULL.
Relaxes(w, g) == ~w.required /\ g.required

DiffSchema(want, got) ==
    LET both == DOMAIN want \cap DOMAIN got
        conflicts == {n \in both : conflictBetween(want[n], got[n])}
    IN  [Added     |-> DOMAIN want \ DOMAIN got,
         Removed   |-> DOMAIN got \ DOMAIN want,
         Relaxed   |-> {n \in both \ conflicts : Relaxes(want[n], got[n])},
         Conflicts |-> conflicts]

\* The diff with every mention of the named columns dropped.
WithoutMutant(d, names) == d
Without(d, names) ==
    [Added |-> d.Added \ names, Removed |-> d.Removed \ names,
     Relaxed |-> d.Relaxed \ names, Conflicts |-> d.Conflicts \ names]

\* A strategy's answer: the conflicts that make Plan return an error, or the
\* changes it asks for.
SchemaChange(conflicts, add, relax, drop) ==
    [conflicts |-> conflicts, AddColumns |-> add, RelaxColumns |-> relax,
     DropColumns |-> drop]
NoChange == SchemaChange({}, {}, {}, {})

MigrationNonePlan(diff) ==
    SchemaChange(diff.Conflicts, NoColumns, NoColumns, NoColumns)
AppendNewColumnsPlan(diff) ==
    SchemaChange(diff.Conflicts, diff.Added, diff.Relaxed, NoColumns)
SyncAllColumnsPlan(diff, ignore) ==
    LET d == Without(diff, ignore)
    IN  SchemaChange(d.Conflicts, d.Added, d.Relaxed, d.Removed)

Kinds == {"MigrationNone", "AppendNewColumns", "SyncAllColumns"}

\* What a strategy plans for an existing table.
Plan(strategy, diff) ==
    CASE strategy.kind = "MigrationNone" -> MigrationNonePlan(diff)
      [] strategy.kind = "AppendNewColumns" -> AppendNewColumnsPlan(diff)
      [] strategy.kind = "SyncAllColumns" -> SyncAllColumnsPlan(diff, strategy.IgnoreColumns)

\* got with the new columns appended and the relaxed ones turned NULLABLE.
relaxedMutant(g) == g
relaxed(g) == [g EXCEPT !.required = FALSE]
mergeSchema(want, got, change) ==
    [n \in DOMAIN got \cup change.AddColumns |->
        IF n \notin DOMAIN got THEN want[n]
        ELSE IF n \in change.RelaxColumns THEN relaxed(got[n])
        ELSE got[n]]

requiredNames(want, names) == {n \in names : want[n].required}

\* Rows of the declaration want can be written to a table with schema got: each
\* declared column is there, holds the declared kind of value, and does not
\* insist on a value the declaration may leave NULL.
Fits(want, got) ==
    \A n \in DOMAIN want :
        /\ n \in DOMAIN got
        /\ want[n].type = got[n].type
        /\ want[n].repeated = got[n].repeated
        /\ want[n].type = RecordFieldType => sameNestedSchema(want[n].nested, got[n].nested)
        /\ ~Relaxes(want[n], got[n])
=============================================================================
