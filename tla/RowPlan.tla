------------------------------- MODULE RowPlan -------------------------------
(***************************************************************************)
(* What DeclarationOf makes of a struct type, and how a row of that type   *)
(* becomes columns: the tags of schema.go, the marshalers of marshal.go,   *)
(* the rowPlan of plan.go, and the settling of schema and table metadata   *)
(* in bqsink.go.                                                           *)
(*                                                                         *)
(* A Go type is a record with a kind and a name; pointers, slices and      *)
(* arrays have an elem.  What a struct's name stands for is in structs:    *)
(* what collectFields (module Fields) leaves of it, the fields that are    *)
(* columns in order, with an embedded TableMeta and the type's methods.    *)
(* Optional things are sequences of at most one element.  No struct's      *)
(* RECORD columns lead back to it: buildRowPlanFor would not return.       *)
(***************************************************************************)
EXTENDS MapRows, SequencesExt

None == "none"

Pointer(t) == [kind |-> "pointer", name |-> None, elem |-> t]
Slice(t) == [kind |-> "slice", name |-> None, elem |-> t]
Named(kind, name) == [kind |-> kind, name |-> name]
typeRawMessage == [kind |-> "slice", name |-> "raw", elem |-> Named("uint8", "uint8")]

RECURSIVE deref(_)
deref(t) == IF t.kind = "pointer" THEN deref(t.elem) ELSE t

isByteSequence(t) == t.elem.kind = "uint8"
isRepeated(t) == t.kind \in {"slice", "array"} /\ ~isByteSequence(t)

\* The first of several results that is not Ok, or all of their values.
Collect(results) ==
    LET bad == {i \in DOMAIN results : ~results[i].ok}
    IN  IF bad = {} THEN Ok([i \in DOMAIN results |-> results[i].v])
        ELSE results[CHOOSE i \in bad : \A j \in bad : i <= j]

-----------------------------------------------------------------------------
(* Tags *)

timeColumnTypes == [date |-> "DATE", datetime |-> "DATETIME", time |-> "TIME"]
timeColumnValues == [date |-> "date", datetime |-> "datetime", time |-> "timeofday"]

parseTag(opts) ==
    LET times == SelectSeq(opts, LAMBDA o : o \in DOMAIN timeColumnTypes)
        given == ToSet(opts)
    IN  IF \/ given \ (DOMAIN timeColumnTypes \cup {"required", "nullifzero", "record"}) # {}
           \/ Len(times) > 1
           \/ {"required", "nullifzero"} \subseteq given
           \/ "record" \in given /\ times # <<>>
        THEN Err
        ELSE Ok([required |-> "required" \in given, nullIfZero |-> "nullifzero" \in given,
                 record |-> "record" \in given, timeType |-> times])

\* A granularity left out is day; the only option is require.
parsePartition(p) ==
    LET granularity == IF p.granularity = None THEN "day" ELSE p.granularity
    IN  IF granularity \in {"day", "hour", "month", "year"} /\ ToSet(p.opts) \subseteq {"require"}
        THEN Ok([partition |-> <<granularity>>, requireFilter |-> p.opts # <<>>]) ELSE Err

maxClusteringColumns == 4

parseFieldTags(tag) ==
    LET base == parseTag(tag.opts)
        partition ==
            IF tag.partition = <<>> THEN Ok([partition |-> <<>>, requireFilter |-> FALSE])
            ELSE parsePartition(tag.partition[1])
    IN  IF /\ base.ok /\ partition.ok
           /\ tag.cluster \in {<<>>} \cup {<<n>> : n \in 1..maxClusteringColumns}
        THEN Ok([options |-> base.v, layout |-> partition.v, cluster |-> tag.cluster])
        ELSE Err

\* A list of key=value pairs; one without a "=" has no value.
parseLabels(pairs) ==
    IF /\ \A i \in DOMAIN pairs : pairs[i].value # <<>> /\ pairs[i].key # None
       /\ \A i, j \in DOMAIN pairs : pairs[i].key = pairs[j].key => i = j
    THEN Ok({<<pairs[i].key, pairs[i].value[1]>> : i \in DOMAIN pairs}) ELSE Err

tableMetaOf(s) ==
    LET meta == s.meta[1]
        labels == parseLabels(meta.labels[1])
    IN  CASE s.meta = <<>> -> Ok([description |-> <<>>, labels |-> <<>>])
          [] s.meta # <<>> /\ meta.columnTag -> Err
          [] s.meta # <<>> /\ ~meta.columnTag /\ meta.labels = <<>> ->
                Ok([description |-> meta.description, labels |-> <<>>])
          [] OTHER ->
                IF labels.ok THEN Ok([description |-> meta.description, labels |-> <<labels.v>>]) ELSE Err

-----------------------------------------------------------------------------
(* Marshalers: a list of MarshalFunc results.  One given a pointer type or *)
(* no function has no claim.                                                *)

\* The mapping registered last is kept.
LastFor(list, name) ==
    CHOOSE i \in DOMAIN list :
        list[i].of = name /\ \A j \in DOMAIN list : list[j].of = name => j <= i

joinMarshalers(list) ==
    IF \E i \in DOMAIN list : list[i].claim = <<>> THEN Err
    ELSE Ok([name \in {list[i].of : i \in DOMAIN list} |-> list[LastFor(list, name)].claim[1]])

-----------------------------------------------------------------------------
(* The type of a column and how its values are converted *)

wellKnownTypes ==
    [time |-> "TIMESTAMP", date |-> "DATE", timeofday |-> "TIME", datetime |-> "DATETIME", rat |-> "NUMERIC"]

\* uint and uint64 become NUMERIC: INT64 has no room for their upper half.
UnsignedMutant == "INTEGER"
Unsigned == "NUMERIC"
kindTypes ==
    [string |-> "STRING", bool |-> "BOOLEAN", int |-> "INTEGER", uint8 |-> "INTEGER",
     uint |-> Unsigned, float |-> "FLOAT"]

Column(type, how, nested) == Ok([type |-> type, how |-> how, nested |-> nested])

resolveTimeType(t, option, ms) ==
    IF deref(t).name # "time" \/ lookup("time", ms) # <<>> THEN Err
    ELSE Column(timeColumnTypes[option], option, <<>>)

\* A map needs string keys.
resolveJSON(dt) ==
    IF \/ dt = typeRawMessage \/ dt.kind \in {"struct", "interface"}
       \/ dt.kind = "map" /\ dt.key = "string"
    THEN Column("JSON", IF dt = typeRawMessage THEN "raw" ELSE "json", <<>>) ELSE Err

RECURSIVE buildRowPlanFor(_, _, _)

resolveKind(dt) ==
    CASE dt.kind \in DOMAIN kindTypes -> Column(kindTypes[dt.kind], "scalar", <<>>)
      [] dt.kind \in {"slice", "array"} /\ isByteSequence(dt) /\ dt # typeRawMessage ->
            Column("BYTES", "scalar", <<>>)
      [] OTHER -> resolveJSON(dt)

\* The first of these that applies: a time option, a marshaler, a well-known type,
\* the record option, the type's kind.
resolveType(t, options, structs, ms) ==
    LET dt == deref(t)
        claims == Claims(dt.name, ms)
        nested == buildRowPlanFor(dt, structs, ms)
    IN  IF options.timeType # <<>> THEN resolveTimeType(t, options.timeType[1], ms)
        ELSE IF claims # <<>>
        THEN IF claims[1].type = "RECORD" THEN Err ELSE Column(claims[1].type, "marshal", <<claims[1].answer>>)
        ELSE IF dt.name \in DOMAIN wellKnownTypes THEN Column(wellKnownTypes[dt.name], "scalar", <<>>)
        ELSE IF options.record
        THEN CASE dt.kind # "struct" -> Err
               [] dt.kind = "struct" /\ nested.ok -> Column("RECORD", "record", <<nested.v>>)
               [] OTHER -> nested
        ELSE resolveKind(dt)

buildFieldPlan(field, options, structs, ms) ==
    LET t == deref(field.type)
        repeated == isRepeated(t)
        column == resolveType(IF repeated THEN t.elem ELSE t, options, structs, ms)
    IN  IF ~column.ok THEN column
        ELSE Ok([name |-> field.name, type |-> column.v.type, how |-> column.v.how, nested |-> column.v.nested,
                 repeated |-> repeated, required |-> options.required /\ ~repeated,
                 nullIfZero |-> options.nullIfZero])

-----------------------------------------------------------------------------
(* Layout *)

Hourly(f, granularity) == ~(granularity = "hour" /\ f.type = "DATE")
checkPartitionColumn(f, granularity) ==
    f.type \in {"TIMESTAMP", "DATE", "DATETIME"} /\ ~f.repeated /\ Hourly(f, granularity)

checkClusterColumn(f) == f.type \notin {"FLOAT", "JSON", "BYTES", "RECORD"} /\ ~f.repeated

\* The claimed positions run from 1 without a gap.
NoGap(positions) == positions = 1..Cardinality(positions)

resolveLayout(fields, tags) ==
    LET partitioned == {i \in DOMAIN fields : tags[i].layout.partition # <<>>}
        clustered == {i \in DOMAIN fields : tags[i].cluster # <<>>}
        At(p) == CHOOSE i \in clustered : tags[i].cluster = <<p>>
        positions == {tags[i].cluster[1] : i \in clustered}
    IN  IF /\ Cardinality(partitioned) <= 1
           /\ \A i \in partitioned : checkPartitionColumn(fields[i], tags[i].layout.partition[1])
           /\ \A i \in clustered : checkClusterColumn(fields[i])
           /\ Cardinality(positions) = Cardinality(clustered)
           /\ NoGap(positions)
        THEN Ok([timePartitioning |->
                    SetToSeq({<<fields[i].name, tags[i].layout.partition[1]>> : i \in partitioned}),
                 requireFilter |-> \E i \in partitioned : tags[i].layout.requireFilter,
                 clustering |->
                    IF clustered = {} THEN <<>>
                    ELSE <<[p \in 1..Cardinality(positions) |->
                            IF p \in positions THEN fields[At(p)].name ELSE None]>>])
        ELSE Err

-----------------------------------------------------------------------------
(* The plan, which calls itself for the struct of a RECORD column *)

buildRowPlanFor(t, structs, ms) ==
    LET s == structs[t.name]
        tags == Collect([i \in DOMAIN s.fields |-> parseFieldTags(s.fields[i].tag)])
        meta == tableMetaOf(s)
        fields == Collect([i \in DOMAIN s.fields |->
                            buildFieldPlan(s.fields[i], tags.v[i].options, structs, ms)])
        layout == resolveLayout(fields.v, tags.v)
    IN  IF t.kind # "struct" THEN Err
        ELSE IF ~tags.ok \/ ~meta.ok THEN Err
        ELSE IF ~fields.ok THEN fields
        ELSE IF fields.v = <<>> \/ ~layout.ok THEN Err
        ELSE Ok([fields |-> fields.v, layout |-> layout.v, meta |-> meta.v])

buildRowPlan(t, structs, joined) ==
    IF joined.ok THEN buildRowPlanFor(deref(t), structs, joined.v) ELSE Err

columnNames(plan) == {plan.fields[i].name : i \in DOMAIN plan.fields}
FieldPlan(plan, name) == plan.fields[CHOOSE i \in DOMAIN plan.fields : plan.fields[i].name = name]

RECURSIVE schemaOf(_)
schemaOf(plan) ==
    [name \in columnNames(plan) |->
        LET f == FieldPlan(plan, name)
        IN  [type |-> f.type, required |-> f.required, repeated |-> f.repeated, scale |-> 0,
             nested |-> IF f.how = "record" THEN schemaOf(f.nested[1]) ELSE <<>>]]

-----------------------------------------------------------------------------
(* Declarations *)

\* What may be said of a table, by tags or by BigQueryTableMetadata.
NoMetadata ==
    [schema |-> <<>>, timePartitioning |-> <<>>, rangePartitioning |-> <<>>, requireFilter |-> FALSE,
     clustering |-> <<>>, description |-> <<>>, labels |-> <<>>]
Settings == {"timePartitioning", "clustering", "description", "labels"}

checkPlanAgainstSchema(plan, schema) == columnNames(plan) \subseteq DOMAIN schema

resolveSchema(md, plan) ==
    CASE md.schema = <<>> -> Ok(schemaOf(plan))
      [] md.schema # <<>> /\ checkPlanAgainstSchema(plan, md.schema[1]) -> Ok(md.schema[1])
      [] OTHER -> Err

\* What the tags settle may not be settled by the metadata too.
ContradictsMutant(md, tagged) == FALSE
Contradicts(md, tagged) ==
    \/ \E k \in Settings : tagged[k] # <<>> /\ md[k] # <<>>
    \/ tagged.timePartitioning # <<>> /\ md.rangePartitioning # <<>>

resolveTableMetadata(md, plan) ==
    LET tagged == [timePartitioning |-> plan.layout.timePartitioning, clustering |-> plan.layout.clustering,
                   description |-> plan.meta.description, labels |-> plan.meta.labels]
    IN  IF Contradicts(md, tagged) THEN Err
        ELSE Ok([k \in DOMAIN md |->
                    CASE k \in Settings -> IF tagged[k] # <<>> THEN tagged[k] ELSE md[k]
                      [] k = "requireFilter" -> md[k] \/ plan.layout.requireFilter
                      [] OTHER -> md[k]])

\* The method is found with either receiver, on the type and through a pointer.
tableMetadataOf(t, structs) ==
    LET s == structs[deref(t).name] IN IF s.method = <<>> THEN NoMetadata ELSE s.method[1]

\* FillRow has to have a pointer receiver.
checkRowFiller(t, structs) == structs[deref(t).name].filler # "value"

declarationOf(t, structs, list) ==
    LET plan == buildRowPlan(t, structs, joinMarshalers(list))
        md == tableMetadataOf(t, structs)
        schema == resolveSchema(md, plan.v)
        metadata == resolveTableMetadata(md, plan.v)
    IN  IF ~plan.ok THEN plan
        ELSE IF schema.ok /\ metadata.ok /\ checkRowFiller(t, structs)
        THEN Ok([plan |-> <<plan.v>>, schema |-> schema.v, metadata |-> metadata.v, marshalers |-> <<>>])
        ELSE Err

DeclarationFromMetadata(md, list) ==
    LET joined == joinMarshalers(list)
    IN  IF md.schema # <<>> /\ md.schema # <<(<<>>)>> /\ joined.ok
        THEN Ok([plan |-> <<>>, schema |-> md.schema[1], metadata |-> md, marshalers |-> joined.v])
        ELSE Err

-----------------------------------------------------------------------------
(* rowPlan.marshalRow *)

RECURSIVE derefValue(_)
derefValue(v) == IF v.go = "pointer" THEN derefValue(v.to) ELSE v

isEmptySequence(v) == derefValue(v).go = "nil" \/ derefValue(v).elems = <<>>

\* reflect's IsZero: the zero Go value.  A field behind a nil embedded pointer is not
\* in a struct's row, and zero.
RECURSIVE IsZero(_)
IsZero(v) ==
    CASE v.go = "nil" -> TRUE
      [] v.go = "custom" -> IsZero(v.under)
      [] v.go = "struct" -> \A n \in DOMAIN v.row : IsZero(v.row[n])
      [] v.go \in DOMAIN wellKnownTypes -> v.zero
      [] v.go \in {"int", "uint", "uint8"} -> v.n = 0
      [] v.go = "float" -> v.class = "finite" /\ v.halves = 0
      [] v.go = "string" -> v.text = "empty"
      [] v.go = "bool" -> ~v.val
      [] v.go \in {"bytes", "raw"} -> v.text = "nil"
      [] OTHER -> FALSE

\* The type's own IsZero method where it has one, reached through a pointer too.
isZeroers == {"time", "date", "timeofday", "datetime"}
isZeroValue(v) ==
    LET to == IF v.go = "pointer" THEN v.to ELSE v
    IN  IF to.go \in isZeroers THEN to.zero ELSE IsZero(v)

scalarValue(v) ==
    CASE v.go = "uint8" -> Ok(Integer(v.n))
      [] v.go = "uint" -> Ok([go |-> "rat", n |-> v.n])
      [] v.go \in {"nil", "string", "bool", "int", "float", "bytes"} -> Ok(v)
      [] OTHER -> Err

\* A nil says NULL to every conversion but that of a struct.
RECURSIVE marshalStruct(_, _)
convert(f, v) ==
    CASE v.go = "nil" -> Ok(Null)
      [] v.go # "nil" /\ f.how = "marshal" -> f.nested[1]
      [] v.go # "nil" /\ f.how \in DOMAIN timeColumnValues -> Ok([go |-> timeColumnValues[f.how], zero |-> FALSE])
      [] v.go # "nil" /\ f.how = "raw" ->
            Ok(IF v.text \in {"nil", "empty"} THEN Null ELSE [go |-> "string", text |-> v.text])
      [] v.go # "nil" /\ f.how = "json" -> IF v.encodes THEN Ok([go |-> "string", text |-> "valid"]) ELSE Err
      [] v.go # "nil" /\ f.how = "record" -> marshalStruct(f.nested[1], v)
      [] OTHER -> IF v.go \in DOMAIN wellKnownTypes THEN Ok(v) ELSE scalarValue(Underlying(v))

marshalElement(f, v) ==
    IF f.how = "record" /\ v.go # "nil" /\ derefValue(v).go = "nil" THEN Err ELSE convert(f, derefValue(v))

\* nullifzero: NULL for a zero value, and on a repeated column for no elements.
Nulled(f, v) == f.nullIfZero /\ IF f.repeated THEN isEmptySequence(v) ELSE isZeroValue(v)

marshalValue(f, v) ==
    LET list == derefValue(v)
        out == Collect([i \in DOMAIN list.elems |-> marshalElement(f, list.elems[i])])
    IN  IF Nulled(f, v) \/ v.go = "nil" THEN Ok(Null)
        ELSE IF ~f.repeated THEN marshalElement(f, v)
        ELSE IF list.go = "nil" THEN Ok(Null)
        ELSE IF out.ok THEN Ok(List(out.v)) ELSE Err

\* A column behind a nil embedded pointer is not in the row and becomes NULL.
marshalStruct(plan, v) ==
    LET s == derefValue(v)
        out == [n \in columnNames(plan) |->
                    IF n \in DOMAIN s.row THEN marshalValue(FieldPlan(plan, n), s.row[n]) ELSE Ok(Null)]
    IN  IF s.go # "nil" /\ \A n \in DOMAIN out : out[n].ok
        THEN Ok(Map([n \in DOMAIN out |-> out[n].v])) ELSE Err
=============================================================================
