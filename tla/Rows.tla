-------------------------------- MODULE Rows --------------------------------
(***************************************************************************)
(* A row's way from its declaration to the wire.  A Declaration is built   *)
(* from a struct type (DeclarationOf) or from table metadata               *)
(* (DeclarationFromMetadata); a row is handed to Sink; its plan converts   *)
(* it; and each transport renders the columns.                             *)
(***************************************************************************)
EXTENDS RowPlan

CONSTANTS
    Sources,    \* bound: what declarations are built from
    RowsOf(_)   \* bound: the rows tried for a source

VARIABLES
    source,       \* a struct type or table metadata, and marshalers; never changes
    declaration,  \* what it declares, or the error the Declaration carries
    phase,        \* how far the row has come
    row,          \* the row handed to Sink
    columns,      \* what marshalRow made of it
    rendered      \* what encodeRow made of the columns, by dialect

vars == <<source, declaration, phase, row, columns, rendered>>

NotYet == [ok |-> FALSE, v |-> [go |-> "notyet"]]

Init ==
    /\ source \in Sources
    /\ declaration = NotYet
    /\ phase = "new"
    /\ row = Null
    /\ columns = Null
    /\ rendered = [d \in Dialects |-> NotYet]

OfStruct == source.kind = "struct"

\* A Declaration carries its error to NewSinker, which returns it.
Declare ==
    /\ phase = "new"
    /\ declaration' = IF OfStruct THEN declarationOf(source.type, source.structs, source.marshalers)
                      ELSE DeclarationFromMetadata(source.metadata, source.marshalers)
    /\ phase' = IF declaration'.ok THEN "declared" ELSE "invalid"
    /\ UNCHANGED <<source, row, columns, rendered>>

Give(r) ==
    /\ phase = "declared"
    /\ row' = r
    /\ phase' = "given"
    /\ UNCHANGED <<source, declaration, columns, rendered>>

schema == declaration.v.schema
plan == declaration.v.plan[1]

\* A nil row is refused, of whichever kind.
marshalRow ==
    /\ phase = "given"
    /\ LET out == CASE row.go = "nil" -> Err
                    [] row.go # "nil" /\ OfStruct -> marshalStruct(plan, row)
                    [] OTHER -> marshalMap(schema, row.row, declaration.v.marshalers)
       IN  phase' = (IF out.ok THEN "converted" ELSE "refused") /\ columns' = out.v
    /\ UNCHANGED <<source, declaration, row, rendered>>

Encode(d) ==
    /\ phase = "converted" /\ rendered[d] = NotYet
    /\ rendered' = [rendered EXCEPT ![d] = encodeRow(columns.row, schema, d)]
    /\ UNCHANGED <<source, declaration, phase, row, columns>>

Next ==
    \/ Declare
    \/ \E r \in RowsOf(source) : Give(r)
    \/ marshalRow
    \/ \E d \in Dialects : Encode(d)

Spec == Init /\ [][Next]_vars

-----------------------------------------------------------------------------
(* Properties *)

Tried(d) == rendered[d] # NotYet
Declared == phase \in {"declared", "given", "converted", "refused"}

\* A number, as halves, where an INTEGER column could hold it.
Halves(v) == IF v.go = "float" THEN v.halves ELSE 2 * v.n
Whole(v) ==
    /\ v.go = "float" => v.class = "finite"
    /\ Halves(v) % 2 = 0
    /\ Halves(v) >= -2 * maxInt64Boundary /\ Halves(v) < 2 * maxInt64Boundary

\* A number the caller wrote into column n, where no marshaler claims it.
NumberIn(n) ==
    /\ phase \in {"converted", "refused"} /\ source.marshalers = <<>>
    /\ row.go # "nil" /\ n \in DOMAIN row.row /\ row.row[n].go \in {"int", "uint", "uint8", "float"}
    /\ ~schema[n].repeated

\* A column gets exactly the number the caller wrote.  A map row is refused for an
\* INTEGER column exactly when the number is not whole or does not fit, up to and
\* including the last float below the boundary and the first one on it; a struct's
\* uint64 arrives whole however large it is.
IntegersExact ==
    Declared => \A n \in DOMAIN schema :
        NumberIn(n) =>
            /\ ~OfStruct /\ schema[n].type = "INTEGER" /\ DOMAIN row.row = {n}
                    /\ (\A k \in DOMAIN schema \ {n} : ~schema[k].required)
                => (phase = "converted" <=> Whole(row.row[n]))
            /\ phase = "converted" /\ schema[n].type \in {"INTEGER", "NUMERIC"} /\ columns.row[n] # Null
                => Halves(columns.row[n]) = Halves(row.row[n])

\* The columns a row of this declaration writes: all of the schema's but where a
\* struct's schema is spelled out and has more.
Writes == IF OfStruct THEN schemaOf(plan) ELSE schema

\* Every object rendered has exactly the columns it should have.
RECURSIVE Complete(_, _)
Complete(v, s) ==
    /\ DOMAIN v.row = DOMAIN s
    /\ \A n \in DOMAIN s :
        s[n].type = "RECORD" /\ ~s[n].repeated /\ v.row[n].go = "map" => Complete(v.row[n], s[n].nested)

\* However little of it the caller filled in, a rendered row has every column its
\* declaration writes and no other, inside RECORD columns too: a column left out, or
\* behind a nil embedded pointer, is NULL and not missing.
RowsComplete == \A d \in Dialects : rendered[d].ok => Complete(rendered[d].v, Writes)

\* No REQUIRED column of a rendered object is NULL, at any depth, but where the
\* converted column is one of these texts.
RECURSIVE Filled(_, _, _, _)
Filled(v, converted, s, texts) ==
    \A n \in DOMAIN v.row :
        /\ s[n].required /\ v.row[n].go = "nil" =>
            converted.row[n].go \in Text /\ converted.row[n].text \in texts
        /\ s[n].type = "RECORD" /\ ~s[n].repeated /\ v.row[n].go = "map" =>
            Filled(v.row[n], converted.row[n], s[n].nested, texts)

\* A row with a NULL in a REQUIRED column is refused before it is sent, whoever made
\* the value NULL: the caller, a nil embedded pointer, a registered marshaler or the
\* value itself, at the top or inside a RECORD.  Empty JSON text and a nil []byte are
\* left out: they become NULL after jsonValue has looked for one.
RequiredRefused ==
    \A d \in Dialects : rendered[d].ok => Filled(rendered[d].v, columns, schema, {"nil", "empty"})

\* Where the two renderings of a row are NULL.
RECURSIVE SameNulls(_, _)
SameNulls(v, w) ==
    /\ v.go = "nil" <=> w.go = "nil"
    /\ v.go = "map" => \A n \in DOMAIN v.row : SameNulls(v.row[n], w.row[n])
    /\ v.go = "list" => \A i \in DOMAIN v.elems : SameNulls(v.elems[i], w.elems[i])

\* The two dialects of encodeRow agree on what a row says: a row that is rendered for a
\* load job is rendered for the Storage Write API too, NULL in the same places.
TransportsAgree ==
    Tried("loadJob") /\ Tried("storageWrite") /\ rendered["loadJob"].ok =>
        /\ rendered["storageWrite"].ok
        /\ SameNulls(rendered["loadJob"].v, rendered["storageWrite"].v)

\* The Go values BigQuery reads into a column of each type.
Reads == [Accepts EXCEPT !.INTEGER = {"int"}, !.JSON = {"string"}]

RECURSIVE Describes(_, _, _)
DescribesScalar(f, field, v) ==
    \/ v.go = "nil" \/ f.how = "marshal"
    \/ v.go \in Reads[field.type] /\ (f.how = "record" => Describes(f.nested[1], field.nested, v))
Describes(p, s, v) ==
    /\ DOMAIN v.row = DOMAIN s
    /\ \A n \in DOMAIN s :
        LET f == FieldPlan(p, n) IN
        IF s[n].repeated /\ v.row[n].go # "nil"
        THEN v.row[n].go = "list" /\ \A i \in DOMAIN v.row[n].elems : DescribesScalar(f, s[n], v.row[n].elems[i])
        ELSE DescribesScalar(f, s[n], v.row[n])

\* The schema a struct's tags declare describes the rows written: each column gets
\* values of its type, lists where it is REPEATED and objects where it is a RECORD,
\* whatever tags, pointers and marshalers led to it.  Schema inference and conversion
\* are two passes over one plan and nothing else holds them together.
SchemaDescribesRow ==
    phase = "converted" /\ OfStruct /\ tableMetadataOf(source.type, source.structs).schema = <<>> =>
        Describes(plan, schema, columns)

\* What the tags of column n say, as written.
Tag(n) ==
    LET fields == source.structs[deref(source.type).name].fields
    IN  fields[CHOOSE i \in DOMAIN fields : fields[i].name = n].tag

\* A struct's declaration that is accepted says all that was said, and no two places
\* contradict each other: the one tagged column partitions the table and is of a type,
\* by the struct's plan, that BigQuery partitions by, the clustering columns come in the
\* order of their positions with none missing, and nothing that BigQueryTableMetadata
\* set was overwritten.
LayoutSettled ==
    Declared /\ OfStruct =>
        LET out == declaration.v.metadata
            md == tableMetadataOf(source.type, source.structs)
            names == columnNames(plan)
        IN  /\ \A n \in names : Tag(n).partition # <<>> =>
                /\ Len(out.timePartitioning) = 1 /\ out.timePartitioning[1][1] = n
                /\ FieldPlan(plan, n).type \in {"TIMESTAMP", "DATE", "DATETIME"}
                /\ out.timePartitioning[1][2] = "hour" => FieldPlan(plan, n).type # "DATE"
                /\ out.rangePartitioning = <<>>
            /\ \A n \in names : Tag(n).cluster # <<>> =>
                /\ Tag(n).cluster[1] \in DOMAIN out.clustering[1]
                /\ out.clustering[1][Tag(n).cluster[1]] = n
            /\ out.clustering # md.clustering => \A i \in DOMAIN out.clustering[1] : out.clustering[1][i] \in names
            /\ \A k \in DOMAIN md \ {"requireFilter"} : md[k] # <<>> => out[k] = md[k]
            /\ md.requireFilter => out.requireFilter

\* doc.go says "a REQUIRED column cannot hold NULL", and jsonValue refuses one: no
\* row is rendered with a NULL in a REQUIRED column.
RequiredNeverNull ==
    \A d \in Dialects : rendered[d].ok => Filled(rendered[d].v, columns, schema, {})
=============================================================================
