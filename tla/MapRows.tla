------------------------------- MODULE MapRows -------------------------------
(***************************************************************************)
(* The conversions of a map[string]any row: mapPlan of maprow.go turns it  *)
(* into columns, encodeRow of jsonrow.go renders those for a load job or   *)
(* for the Storage Write API.  Rows takes rows through them.               *)
(*                                                                         *)
(* A value is a record whose go field says what Go type it has.  A nil     *)
(* pointer, map or interface is Null.  Of a text the model keeps whether   *)
(* it is empty, valid JSON or neither, and of a []byte whether it is nil;  *)
(* integers are IntBits wide; a float is not a number, is infinite, or is  *)
(* a whole number of halves.  A value of a named type has the name and the *)
(* underlying value.                                                       *)
(*                                                                         *)
(* A schema is a function from column names to columns.  A claim is what a *)
(* registered marshaler or a FieldMarshaler says of a type: the column     *)
(* type it declares and what it answers for a value.                       *)
(***************************************************************************)
EXTENDS Integers, Sequences, FiniteSets

CONSTANTS
    IntBits,         \* width of an INT64 column
    FieldMarshalers  \* the claims of types with methods of their own, by name

ASSUME MapRowsAssumption == IntBits \in Nat \ {0}

Null == [go |-> "nil"]
Map(f) == [go |-> "map", row |-> f]
List(s) == [go |-> "list", elems |-> s]
Integer(n) == [go |-> "int", n |-> n]

Ok(v) == [ok |-> TRUE, v |-> v]
Err == [ok |-> FALSE, v |-> Null]

Dialects == {"loadJob", "storageWrite"}

-----------------------------------------------------------------------------
(* marshalInteger *)

maxInt64Boundary == 2^(IntBits - 1)
Wrap(n) == ((n + maxInt64Boundary) % (2^IntBits)) - maxInt64Boundary

int64FromUint64(n) == IF n > maxInt64Boundary - 1 THEN Err ELSE Ok(Integer(Wrap(n)))

\* Comparing with float64(math.MaxInt64), which rounds up to 2^63.
OverflowsMutant(halves) == halves > 2 * maxInt64Boundary \/ halves < -2 * maxInt64Boundary
Overflows(halves) == halves >= 2 * maxInt64Boundary \/ halves < -2 * maxInt64Boundary
int64FromFloat(v) ==
    IF v.class # "finite" \/ Overflows(v.halves) \/ v.halves % 2 # 0
    THEN Err ELSE Ok(Integer(Wrap(v.halves \div 2)))

marshalInteger(v) ==
    CASE v.go = "int" -> Ok(Integer(v.n))
      [] v.go = "uint" -> int64FromUint64(v.n)
      [] v.go = "float" -> int64FromFloat(v)

-----------------------------------------------------------------------------
(* marshalRow *)

Text == {"string", "bytes", "raw"}

\* The Go types a column takes once no marshaler has claimed the value.
Accepts ==
    [STRING |-> {"string"}, GEOGRAPHY |-> {"string"}, INTEGER |-> {"int", "uint", "float"},
     FLOAT |-> {"float"}, NUMERIC |-> {"rat"}, BIGNUMERIC |-> {"rat"}, BOOLEAN |-> {"bool"},
     TIMESTAMP |-> {"time"}, DATE |-> {"date"}, TIME |-> {"timeofday"}, DATETIME |-> {"datetime"},
     BYTES |-> {"bytes", "raw"}, JSON |-> Text, RECORD |-> {"map"}, INTERVAL |-> {}]

\* The claims on a type: a registered marshaler's, and its own.
lookup(name, ms) == IF name \in DOMAIN ms THEN <<ms[name]>> ELSE <<>>
fieldMarshalerOf(name) == lookup(name, FieldMarshalers)

\* A registered marshaler comes before the type's own.
Claims(name, ms) == lookup(name, ms) \o fieldMarshalerOf(name)
TypeName(v) == IF v.go = "custom" THEN v.name ELSE v.go

RECURSIVE marshalMap(_, _, _)

\* The table goes by a value's kind for these columns, and a string's for JSON: a named
\* integer is an integer.  Elsewhere it asks for the very type, and a named one is not it.
ByKind == {"STRING", "GEOGRAPHY", "INTEGER", "FLOAT", "BOOLEAN", "BYTES"}
Underlying(v) == IF v.go = "custom" THEN v.under ELSE v
TakenAs(type, v) ==
    IF type \in ByKind \/ (type = "JSON" /\ Underlying(v).go = "string") THEN Underlying(v) ELSE v

marshalAccepted(field, v, ms) ==
    CASE v.go \notin Accepts[field.type] -> Err
      [] v.go \in Accepts[field.type] /\ field.type = "INTEGER" -> marshalInteger(v)
      [] v.go \in Accepts[field.type] /\ field.type = "BYTES" -> Ok([go |-> "bytes", text |-> v.text])
      [] v.go \in Accepts[field.type] /\ field.type = "RECORD" -> marshalMap(field.nested, v.row, ms)
      [] OTHER -> Ok(v)

marshalScalar(field, v, ms) ==
    LET claims == Claims(TypeName(v), ms)
    IN  CASE claims = <<>> -> marshalAccepted(field, TakenAs(field.type, v), ms)
          [] claims # <<>> /\ claims[1].type = field.type -> claims[1].answer
          [] OTHER -> Err

\* isNilAny: a nil of any type counts, a nil []byte too, under whatever name.
isNil(v) ==
    LET u == Underlying(v) IN u.go = "nil" \/ (u.go \in {"bytes", "raw"} /\ u.text = "nil")

marshalRepeated(field, v, ms) ==
    IF v.go # "list" \/ \E i \in DOMAIN v.elems : isNil(v.elems[i])
    THEN Err
    ELSE LET out == [i \in DOMAIN v.elems |-> marshalScalar(field, v.elems[i], ms)]
         IN  IF \A i \in DOMAIN out : out[i].ok
             THEN Ok(List([i \in DOMAIN out |-> out[i].v])) ELSE Err

marshalField(field, name, r, ms) ==
    CASE name \notin DOMAIN r \/ isNil(r[name]) -> IF field.required THEN Err ELSE Ok(Null)
      [] name \in DOMAIN r /\ ~isNil(r[name]) /\ field.repeated -> marshalRepeated(field, r[name], ms)
      [] OTHER -> marshalScalar(field, r[name], ms)

\* The columns a converted row has: all the schema declares.
OutMutant(s, r) == DOMAIN s \cap DOMAIN r
Out(s, r) == DOMAIN s

marshalMap(s, r, ms) ==
    LET out == [n \in Out(s, r) |-> marshalField(s[n], n, r, ms)]
    IN  IF DOMAIN r \subseteq DOMAIN s /\ \A n \in DOMAIN out : out[n].ok
        THEN Ok(Map([n \in DOMAIN out |-> out[n].v])) ELSE Err

-----------------------------------------------------------------------------
(* encodeRow *)

decimalScale(field) ==
    IF field.scale > 0 THEN field.scale ELSE IF field.type = "BIGNUMERIC" THEN 38 ELSE 9

\* The text of a JSON column counts as none.
EmptyTextMutant(v, dialect) == v.text \in {"nil", "empty"} /\ dialect = "loadJob"
EmptyText(v, dialect) == v.text \in {"nil", "empty"}
jsonColumnValue(v, dialect) ==
    CASE v.go \notin Text -> Err
      [] v.go \in Text /\ EmptyText(v, dialect) -> Ok(Null)
      [] v.go \in Text /\ ~EmptyText(v, dialect) /\ dialect = "storageWrite" ->
            Ok([go |-> "string", text |-> v.text])
      [] OTHER -> IF v.text = "valid" THEN Ok([go |-> "raw", text |-> v.text]) ELSE Err

RECURSIVE jsonObject(_, _, _)

\* encoding/json writes a nil []byte as null.
jsonElement(v, field, dialect) ==
    CASE v.go = "nil" -> Ok(Null)
      [] v.go # "nil" /\ field.type = "RECORD" ->
            IF v.go = "map" THEN jsonObject(v.row, field.nested, dialect) ELSE Err
      [] v.go # "nil" /\ field.type = "JSON" -> jsonColumnValue(v, dialect)
      [] OTHER ->
            CASE v.go = "time" -> Ok([go |-> IF dialect = "storageWrite" THEN "micros" ELSE "rfc3339"])
              [] v.go \in {"date", "timeofday", "datetime"} -> Ok([go |-> "civil"])
              [] v.go = "rat" -> Ok([go |-> "decimal", n |-> decimalScale(field)])
              [] v.go = "bytes" /\ v.text = "nil" -> Ok(Null)
              [] OTHER -> Ok(v)

\* NULL is refused for a REQUIRED column, whoever made it NULL.
RequiredMutant(field) == FALSE
Required(field) == field.required
jsonValue(v, field, dialect) ==
    CASE v.go = "nil" -> IF Required(field) THEN Err ELSE Ok(Null)
      [] v.go # "nil" /\ field.repeated ->
            IF v.go # "list" THEN Err
            ELSE LET out == [i \in DOMAIN v.elems |-> jsonElement(v.elems[i], field, dialect)]
                 IN  IF \A i \in DOMAIN out : out[i].ok
                     THEN Ok(List([i \in DOMAIN out |-> out[i].v])) ELSE Err
      [] OTHER -> jsonElement(v, field, dialect)

jsonObject(r, s, dialect) ==
    IF ~(DOMAIN r \subseteq DOMAIN s) THEN Err
    ELSE LET out == [n \in DOMAIN r |-> jsonValue(r[n], s[n], dialect)]
         IN  IF \A n \in DOMAIN out : out[n].ok
             THEN Ok(Map([n \in DOMAIN out |-> out[n].v])) ELSE Err

\* encoding/json has no text for a float that is not finite.
RECURSIVE Encodes(_)
Encodes(v) ==
    CASE v.go = "float" -> v.class = "finite"
      [] v.go = "list" -> \A i \in DOMAIN v.elems : Encodes(v.elems[i])
      [] v.go = "map" -> \A n \in DOMAIN v.row : Encodes(v.row[n])
      [] OTHER -> TRUE

encodeRow(r, s, dialect) ==
    LET object == jsonObject(r, s, dialect)
    IN  IF object.ok /\ Encodes(object.v) THEN object ELSE Err
=============================================================================
