------------------------------- MODULE MCRows -------------------------------
(***************************************************************************)
(* Small instances of Rows: map rows against a column of every type and    *)
(* mode, alone, inside a RECORD and beside another one; struct rows with a *)
(* field of every Go type, behind pointers and in slices, under every tag  *)
(* option; and layouts of two columns with every combination of tags and   *)
(* table metadata.                                                         *)
(***************************************************************************)
EXTENDS Rows

Modes == {<<FALSE, FALSE>>, <<TRUE, FALSE>>, <<FALSE, TRUE>>}
Field(type, mode, nested, scale) ==
    [type |-> type, required |-> mode[1], repeated |-> mode[2], nested |-> nested, scale |-> scale]
Fields(types) == {Field(t, m, <<>>, 0) : t \in types, m \in Modes}

\* Marshalers: one type that has methods of its own, registered or not.
Registered(name, type, answer) == [of |-> name, claim |-> <<[type |-> type, answer |-> answer]>>]
MCFieldMarshalers == [Level |-> [type |-> "JSON", answer |-> Ok(Null)]]
JSONText == [go |-> "raw", text |-> "valid"]
Lists ==
    {<<>>, <<[of |-> "Level", claim |-> <<>>]>>, <<Registered("time", "STRING", Ok([go |-> "string", text |-> "empty"]))>>,
     <<Registered("Level", "RECORD", Err)>>,
     <<Registered("Level", "INTEGER", Err), Registered("Level", "INTEGER", Ok(Integer(1)))>>}
        \cup {<<Registered("Level", t, a)>> : t \in {"INTEGER", "JSON"}, a \in {Ok(Null), Err, Ok(JSONText)}}

-----------------------------------------------------------------------------
(* Map rows *)

Flat == Fields(DOMAIN Accepts \ {"RECORD"}) \cup {Field("NUMERIC", <<FALSE, FALSE>>, <<>>, 2)}
Nested == {Field("RECORD", m, [a |-> f], 0) : m \in Modes, f \in Fields({"INTEGER", "JSON", "TIMESTAMP"})}
Schemas == {<<>>} \cup {[a |-> f] : f \in Flat \cup Nested} \cup {[a |-> f, b |-> g] : f, g \in Fields({"INTEGER", "JSON"})}

Time(zero) == [go |-> "time", zero |-> zero]
Uint(n) == [go |-> "uint", n |-> n]
\* Floats of a two-bit mantissa, which skip the largest integer.
Float(class, halves) == [go |-> "float", class |-> class, halves |-> halves]
Finite == {Float("finite", s * m * 2^e) : s \in {-1, 1}, m \in 0..3, e \in 0..4}
Strings == {[go |-> "string", text |-> t] : t \in {"empty", "valid", "invalid"}}
Blobs == {[go |-> g, text |-> t] : g \in {"bytes", "raw"}, t \in {"nil", "empty", "valid", "invalid"}}
Bools == {[go |-> "bool", val |-> b] : b \in BOOLEAN}
Civil(g) == {[go |-> g, zero |-> z] : z \in BOOLEAN}
Rats == {[go |-> "rat", n |-> n, zero |-> n = 0] : n \in {0, 1}}

\* Values of named types, with marshalers (Level) or without, over those of any kind.
Custom(name, under) == [go |-> "custom", name |-> name, under |-> under]
Level == Custom("Level", Integer(1))
Renamed ==
    {Custom("Plain", v) :
        v \in {Integer(1), Uint(8), Float("finite", 3), Float("finite", 4), Time(FALSE), Map(<<>>), List(<<>>)}
                \cup Strings \cup Bools \cup Rats \cup Civil("date")
                \cup {[go |-> "bytes", text |-> t] : t \in {"nil", "empty", "valid"}}}

Scalars ==
    {Null} \cup {Integer(n) : n \in {-8, 0, 7}} \cup {Uint(n) : n \in {0, 7, 8, 15}} \cup Finite
        \cup {Float("nan", 0), Float("infinite", 0)} \cup Strings \cup Blobs
        \cup {Time(FALSE), Level, [go |-> "chan"]} \cup Rats \cup Bools \cup Renamed
        \cup UNION {Civil(g) : g \in {"date", "timeofday", "datetime"}}
Few == {Null, Integer(7), Uint(8), Time(FALSE), Level, JSONText, [go |-> "raw", text |-> "empty"]}
Values ==
    Scalars \cup {List(<<>>)} \cup {List(<<v>>) : v \in Few} \cup {List(<<Integer(7), v>>) : v \in Few}
        \cup {List(<<Map([a |-> v])>>) : v \in Few}
        \cup {Map(<<>>), Map([z |-> Null])} \cup {Map([a |-> v]) : v \in Scalars}

\* Rows leave columns out, give them any value, or name one that is not there.
MapRowsFor(s) ==
    {Null} \cup {Map(r) : r \in
        {<<>>, [undeclared |-> Null]}
            \cup UNION {{[m \in {n} |-> v] : v \in Values} : n \in DOMAIN s}
            \cup (IF Cardinality(DOMAIN s) > 1 THEN [DOMAIN s -> Few] ELSE {})}

MapSources ==
    {[kind |-> "map", metadata |-> [NoMetadata EXCEPT !.schema = <<s>>], marshalers |-> <<>>] : s \in Schemas}
        \cup {[kind |-> "map", metadata |-> NoMetadata, marshalers |-> <<>>]}
        \cup {[kind |-> "map", metadata |-> [NoMetadata EXCEPT !.schema = <<[a |-> f]>>], marshalers |-> l] :
                f \in Fields({"INTEGER", "JSON", "TIMESTAMP"}), l \in Lists}

-----------------------------------------------------------------------------
(* Struct rows *)

MapOf(key) == [kind |-> "map", name |-> "map", key |-> key]
Basic ==
    {Named(k, k) : k \in {"string", "bool", "int", "uint8", "uint", "float", "chan", "interface"}}
        \cup {Named("struct", n) : n \in {"time", "date", "rat", "N"}}
        \cup {MapOf("string"), MapOf("int")}
        \cup {Named("int", "Level"), Named("int", "Plain"), Named("string", "Plain"), typeRawMessage,
              Slice(Named("uint8", "uint8")), [Slice(Named("uint8", "uint8")) EXCEPT !.name = "Plain"]}
Types ==
    Basic \cup {Pointer(t) : t \in Basic} \cup {Slice(t) : t \in Basic} \cup {Slice(Pointer(t)) : t \in Basic}
        \cup {Pointer(Pointer(Named("int", "int"))), Pointer(Pointer(Named("struct", "N"))),
              Pointer(Slice(Named("int", "int"))), Slice(Slice(Named("int", "int")))}
Options ==
    {<<>>, <<"required">>, <<"nullifzero">>, <<"record">>, <<"nullifzero", "record">>, <<"required", "record">>, <<"date">>, <<"time">>,
     <<"required", "datetime">>, <<"date", "time">>, <<"required", "nullifzero">>, <<"record", "date">>, <<"bogus">>}

TagOf(opts, partition, cluster) == [opts |-> opts, partition |-> partition, cluster |-> cluster]
FieldOf(name, type, tag) == [name |-> name, type |-> type, tag |-> tag]
StructOf(fields) == [fields |-> fields, meta |-> <<>>, method |-> <<>>, filler |-> None]

\* A nested struct of a REQUIRED number and a time.
Inner == StructOf(<<FieldOf("n", Named("int", "int"), TagOf(<<"required">>, <<>>, <<>>)),
                    FieldOf("t", Pointer(Named("struct", "time")), TagOf(<<"date">>, <<>>, <<>>))>>)

Source(type, structs, list) == [kind |-> "struct", type |-> type, structs |-> structs, marshalers |-> list]
Root == Named("struct", "R")
OneColumn(t, opts) == [R |-> StructOf(<<FieldOf("a", t, TagOf(opts, <<>>, <<>>))>>), N |-> Inner]

\* The schema is the method's: as the tags would have it, wider, or lacking the column.
SpelledOut ==
    {[OneColumn(t, <<>>) EXCEPT !.R.method = <<[NoMetadata EXCEPT !.schema = <<s>>]>>] :
        t \in {Named("int", "int"), Slice(Named("uint8", "uint8"))},
        s \in {[a |-> f] : f \in Fields({"INTEGER", "BYTES"})} \cup {[b |-> Field("INTEGER", <<FALSE, FALSE>>, <<>>, 0)]}
            \cup {[a |-> Field("INTEGER", <<FALSE, FALSE>>, <<>>, 0), b |-> Field("INTEGER", <<TRUE, FALSE>>, <<>>, 0)]}}

StructSources ==
    {Source(Root, OneColumn(t, o), <<>>) : t \in Types, o \in Options}
        \cup {Source(Root, OneColumn(t, o), l) :
                t \in {Named("int", "Level"), Slice(Pointer(Named("int", "Level"))), Named("struct", "time")},
                o \in {<<>>, <<"required">>, <<"date">>}, l \in Lists}
        \cup {Source(Root, e, <<>>) : e \in SpelledOut}
        \cup {Source(Pointer(Root), [OneColumn(Named("int", "int"), <<>>) EXCEPT !.R.filler = f], <<>>) :
                f \in {None, "pointer", "value"}}
        \cup {Source(Named("int", "R"), OneColumn(Named("int", "int"), <<>>), <<>>),
              Source(Root, [R |-> StructOf(<<>>)], <<>>)}

Blob(g) == {[go |-> g, text |-> t] : t \in {"nil", "empty", "valid"}}
PointersTo(vs) == {Null} \cup {[go |-> "pointer", to |-> v] : v \in vs}
ValuesOfKind(t) ==
    CASE t.kind = "string" -> Strings
      [] t.kind = "bool" -> Bools
      [] t.kind = "int" -> {Integer(0), Integer(7)}
      [] t.kind \in {"uint8", "uint"} -> {[go |-> t.kind, n |-> n] : n \in {0, 7, 15}}
      [] t.kind = "float" -> {Float("finite", 0), Float("finite", 3), Float("nan", 0)}
      [] t.kind = "slice" -> Blob("bytes")
      [] OTHER -> {[go |-> t.kind]}
RECURSIVE GoValues(_)
GoValues(t) ==
    CASE t.kind = "pointer" -> PointersTo(GoValues(t.elem))
      [] t = typeRawMessage -> Blob("raw")
      [] t.kind = "slice" /\ t # typeRawMessage /\ ~isByteSequence(t) ->
            {List(<<>>)} \cup {List(<<v>>) : v \in GoValues(t.elem)}
      [] t.kind \in {"map", "interface"} -> {Null, [go |-> "any", encodes |-> TRUE], [go |-> "any", encodes |-> FALSE]}
      [] t.kind = "struct" ->
            (CASE t.name = "time" -> {Time(TRUE), Time(FALSE)}
               [] t.name = "date" -> Civil("date")
               [] t.name = "rat" -> Rats
               [] OTHER -> {[go |-> "struct", encodes |-> TRUE, row |-> r] :
                                r \in {[n |-> Integer(0), t |-> Null], [t |-> Null],
                                       [n |-> Integer(7), t |-> [go |-> "pointer", to |-> Time(FALSE)]],
                                       [n |-> Integer(0), t |-> [go |-> "pointer", to |-> Time(TRUE)]]}})
      [] OTHER ->
            IF t.name \in {"Level", "Plain"} THEN {Custom(t.name, v) : v \in ValuesOfKind(t)} ELSE ValuesOfKind(t)

\* A struct row has every field, or lacks those behind a nil embedded pointer.
StructRowsFor(fields) ==
    {Null} \cup
    IF Len(fields) = 1
    THEN {[go |-> "struct", row |-> r] : r \in {<<>>} \cup {[n \in {"a"} |-> v] : v \in GoValues(fields[1].type)}}
    ELSE {}

-----------------------------------------------------------------------------
(* Layout *)

Day == [granularity |-> None, opts |-> <<>>]
Hour == [granularity |-> "hour", opts |-> <<"require">>]
Week == [granularity |-> "week", opts |-> <<>>]
LayoutFields(name) ==
    {FieldOf(name, t, TagOf(o, p, c)) :
        t \in {Named("struct", "time"), Slice(Named("struct", "time")), Named("float", "float")},
        o \in {<<>>, <<"date">>}, p \in {<<>>, <<Day>>, <<Hour>>}, c \in {<<>>, <<1>>, <<2>>, <<3>>}}
Oddities ==
    {FieldOf("a", Named("struct", "time"), TagOf(<<>>, p, c)) :
        p \in {<<>>, <<Week>>, <<[Day EXCEPT !.opts = <<"always">>]>>}, c \in {<<>>, <<5>>, <<0>>}}
Layouts == {<<f, g>> : f \in LayoutFields("a"), g \in LayoutFields("b")} \cup {<<f>> : f \in Oddities}

\* What a TableMeta and the method say besides the tags of a partitioned, clustered column.
Pair(key, value) == [key |-> key, value |-> value]
Metas ==
    {<<>>} \cup {<<[columnTag |-> c, description |-> d, labels |-> l]>> :
        c \in BOOLEAN, d \in {<<>>, <<"said">>},
        l \in {<<>>, <<(<<Pair("k", <<"v">>)>>)>>, <<(<<Pair("k", <<>>)>>)>>, <<(<<Pair(None, <<"v">>)>>)>>,
               <<(<<Pair("k", <<"v">>), Pair("k", <<"w">>)>>)>>}}
Methods ==
    {[schema |-> <<>>, timePartitioning |-> p, rangePartitioning |-> r, requireFilter |-> q, clustering |-> c,
      description |-> d, labels |-> l] :
        p \in {<<>>, <<(<<"x", "day">>)>>}, r \in {<<>>, <<"range">>}, q \in BOOLEAN, c \in {<<>>, <<(<<"x">>)>>},
        d \in {<<>>, <<"method">>}, l \in {<<>>, <<{<<"m", "v">>}>>}}
LayoutSources ==
    {Source(Root, [R |-> StructOf(fs)], <<>>) : fs \in Layouts}
        \cup {Source(Root, [R |-> [StructOf(<<FieldOf("a", Named("struct", "time"), TagOf(<<>>, p, c))>>)
                                    EXCEPT !.meta = m, !.method = <<md>>]], <<>>) :
                p \in {<<>>, <<Hour>>}, c \in {<<>>, <<1>>}, m \in Metas, md \in Methods}

-----------------------------------------------------------------------------
(* The instances *)

AllSources == MapSources \cup StructSources \cup LayoutSources
MCRowsOf(s) ==
    IF s.kind = "map" THEN UNION {MapRowsFor(s.metadata.schema[i]) : i \in DOMAIN s.metadata.schema}
    ELSE StructRowsFor(s.structs[deref(s.type).name].fields)

\* One REQUIRED column of every type.
RequiredSources ==
    {Source(Root, OneColumn(t, <<"required">>), <<>>) : t \in Types}
=============================================================================
