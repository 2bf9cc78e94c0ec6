-------------------------- MODULE ValueConversions --------------------------
(***************************************************************************)
(* How a value changes on its way between GraphQL, Python, Postgres and    *)
(* JSON: graphql/puff_schema.rs (arguments), graphql/row_return.rs         *)
(* (results and rows), python/postgres.rs (parameters and columns) and     *)
(* json/mod.rs.                                                            *)
(*                                                                         *)
(* A value is a tagged tuple; the tags of the three sides are              *)
(*   GraphQL   null string boolean number float list object                *)
(*   Python    none str bool int float nan list tuple dict instance bytes  *)
(*             datetime                                                    *)
(*   Postgres  NULL and the column's type with its value                   *)
(* A string is one of the texts the conversions tell apart: plain, a UUID, *)
(* a date, base64.  A GraphQL object is a function of its names, a dict a  *)
(* sequence of entries.                                                    *)
(*                                                                         *)
(* Machine integers are scaled down: a signed integer of 2, 4 or 8 bytes   *)
(* lies in -Half2..Half2-1, -Half4..Half4-1 or -Half8..Half8-1.            *)
(***************************************************************************)
EXTENDS Integers, Sequences, SequencesExt

CONSTANTS Half2, Half4, Half8

ASSUME WidthsAreOrdered ==
  /\ Half2 \in Nat \ {0} /\ Half4 \in Nat /\ Half8 \in Nat
  /\ Half2 < Half4 /\ Half4 < Half8

Signed(half) == -half..(half - 1)
Wrap(n, half) == ((n + half) % (2 * half)) - half

Error == <<"error">>
GNull == <<"null">>
None == <<"none">>
NULL == <<"NULL">>

\* A list of results, or the error one of them is.
Collected(tag, s) == IF \E i \in DOMAIN s : s[i] = Error THEN Error ELSE <<tag, s>>

Names(entries) == {entries[i].key : i \in DOMAIN entries}
\* The last entry of a name counts.
LastOf(entries, k) ==
  entries[Max({i \in DOMAIN entries : entries[i].key = k})].val

-----------------------------------------------------------------------------
(* Arguments: input_value_to_python.  A type is                            *)
(* [kind, optional, of], `of' the fields of an input object or the one     *)
(* element type of a list, as [name, type].                                *)

RECURSIVE ToPython(_, _)

FieldOf(t, n) == CHOOSE i \in DOMAIN t.of : t.of[i].name = n
ObjectToPython(t, fields) ==
  LET declared == {t.of[i].name : i \in DOMAIN t.of}
      required == {t.of[i].name : i \in {j \in DOMAIN t.of : ~t.of[j].type.optional}}
      given == SetToSeq(DOMAIN fields \cap declared)
      vals == [i \in DOMAIN given |->
                 ToPython(fields[given[i]], t.of[FieldOf(t, given[i])].type)]
  IN IF required \subseteq DOMAIN fields /\ \A i \in DOMAIN vals : vals[i] # Error
     THEN <<"dict", [i \in DOMAIN given |-> [key |-> <<"str", given[i]>>, val |-> vals[i]]]>>
     ELSE Error

\* An Any inside an Any has the type of the outer one, its nullability included.
AnyToPython(v, t) ==
  CASE v[1] = "boolean" -> <<"bool", v[2]>>
    [] v[1] = "number"  -> IF v[2] \in Signed(Half8) THEN <<"int", v[2]>> ELSE <<"float", v[2]>>
    [] v[1] = "float"   -> v
    [] v[1] = "string"  -> <<"str", v[2]>>
    [] v[1] = "list"    -> Collected("list", [i \in DOMAIN v[2] |-> ToPython(v[2][i], t)])
    [] v[1] = "object"  ->
         LET names == SetToSeq(DOMAIN v[2])
             vals == [i \in DOMAIN names |-> ToPython(v[2][names[i]], t)]
         IN IF \E i \in DOMAIN vals : vals[i] = Error THEN Error
            ELSE <<"dict", [i \in DOMAIN names |->
                              [key |-> <<"str", names[i]>>, val |-> vals[i]]]>>

ToPython(v, t) ==
  CASE v = GNull -> IF t.optional THEN None ELSE Error
    [] v # GNull /\ t.kind = "Any" -> AnyToPython(v, t)
    [] v[1] = "list" /\ t.kind = "List" ->
         Collected("list", [i \in DOMAIN v[2] |-> ToPython(v[2][i], t.of[1].type)])
    [] v[1] = "object" /\ t.kind = "Object" -> ObjectToPython(t, v[2])
    [] v[1] = "number" /\ t.kind = "Int" /\ v[2] \in Signed(Half8) -> <<"int", v[2]>>
    [] v[1] \in {"number", "float"} /\ t.kind = "Float" -> <<"float", v[2]>>
    [] v[1] = "string" /\ t.kind = "String" -> <<"str", v[2]>>
    [] v[1] = "string" /\ t.kind = "Binary" /\ v[2] = "base64" -> <<"bytes", v[2]>>
    [] v[1] = "string" /\ t.kind = "Datetime" /\ v[2] = "date" -> <<"datetime", v[2]>>
    [] v[1] = "string" /\ t.kind = "Uuid" /\ v[2] = "uuid" -> <<"str", v[2]>>
    [] v[1] = "boolean" /\ t.kind = "Boolean" -> <<"bool", v[2]>>
    [] OTHER -> Error

-----------------------------------------------------------------------------
(* Results: convert_pyany_to_value.                                        *)

\* The attributes of a datetime include datetimes, without end.
Endless == <<"endless">>
Hidden(name) == name = "__private"
KeyText(k) ==
  CASE k[1] = "str" -> k[2] [] k = None -> "None" [] OTHER -> ToString(k[2])

RECURSIVE ToValue(_)
ObjectOf(entries) ==
  LET texts == [i \in DOMAIN entries |-> [key |-> KeyText(entries[i].key),
                                          val |-> ToValue(entries[i].val)]]
  IN IF \E i \in DOMAIN texts : texts[i].val = Endless THEN Endless
     ELSE <<"object", [k \in Names(texts) |-> LastOf(texts, k)]>>

ToValue(p) ==
  CASE p = None -> GNull
    [] p[1] = "str" -> <<"string", p[2]>>
    [] p[1] = "bool" -> <<"boolean", p[2]>>
    [] p[1] = "int" -> IF p[2] \in Signed(Half8) THEN <<"number", p[2]>> ELSE <<"float", p[2]>>
    [] p[1] = "float" -> p
    [] p[1] = "nan" -> GNull
    [] p[1] = "list" -> LET vals == [i \in DOMAIN p[2] |-> ToValue(p[2][i])]
                        IN IF \E i \in DOMAIN vals : vals[i] = Endless THEN Endless
                           ELSE <<"list", vals>>
    [] p[1] = "dict" -> ObjectOf(p[2])
    [] p[1] = "instance" -> ObjectOf(SelectSeq(p[2], LAMBDA e : ~Hidden(e.key[2])))
    [] p[1] = "datetime" -> Endless
    \* no attributes but methods
    [] p[1] \in {"tuple", "bytes"} -> <<"object", << >> >>

-----------------------------------------------------------------------------
(* Columns: convert_postgres_to_value for GraphQL, column_to_python for    *)
(* cursors and producers.  A column is [type, val].                        *)

Panic == <<"panic">>
AnyOptional == [kind |-> "Any", optional |-> TRUE, of |-> << >>]

\* A two-byte integer is asked for as one of four, a four-byte float as one of
\* eight: the driver panics.
GraphqlColumn(c) ==
  CASE c.type \in {"INT2", "FLOAT4"} -> Panic
    [] c.type \notin {"INT2", "FLOAT4", "BOOL", "INT4", "INT8", "BYTEA", "TIMESTAMP", "UUID",
                      "FLOAT8", "TEXT", "VARCHAR"} -> Error
    [] OTHER ->
         CASE c.val[1] \in {"NULL", "nan"} -> GNull
           [] c.val[1] = "int"   -> <<"number", c.val[2]>>
           [] c.val[1] = "bool"  -> <<"boolean", c.val[2]>>
           [] c.val[1] = "float" -> c.val
           [] c.val[1] \in {"text", "uuid", "bytes", "timestamp"} -> <<"string", c.val[2]>>

\* An array of UUIDs is asked for as if it could not be NULL.
RECURSIVE PythonColumn(_)
PythonColumn(c) ==
  CASE c.val = NULL -> IF c.type = "UUID_ARRAY" THEN Panic ELSE None
    [] c.val[1] \in {"int", "bool", "float", "nan", "bytes"} -> c.val
    [] c.val[1] \in {"text", "uuid"} -> <<"str", c.val[2]>>
    [] c.val[1] = "timestamp" -> <<"datetime", c.val[2]>>
    [] c.val[1] = "json" -> ToPython(c.val[2], AnyOptional)
    [] c.val[1] = "array" ->
         <<"list", [i \in DOMAIN c.val[2] |-> PythonColumn([type |-> "", val |-> c.val[2][i]])]>>

-----------------------------------------------------------------------------
(* Parameters.  The producer of a field hands Python values to the driver  *)
(* (PythonSqlValue), the static SQL of a field GraphQL values              *)
(* (gql_value_to_rust_sql and RustSqlValue).                               *)

IsInt(v) == v[1] = "number" /\ v[2] \in Signed(Half8)
FitsFour(v) == v = GNull \/ (IsInt(v) /\ v[2] \in Signed(Half4))

\* The first element that is not null decides; what is not of its kind becomes
\* the zero of that kind, nulls included.
RustArray(v) ==
  LET items == v[2]
      typed == SelectSeq(items, LAMBDA i : i # GNull)
      ints == [i \in DOMAIN items |-> IF IsInt(items[i]) THEN <<"int", items[i][2]>> ELSE <<"int", 0>>]
      texts == [i \in DOMAIN items |->
                  IF items[i][1] = "string" THEN <<"text", items[i][2]>> ELSE <<"text", "">>]
  IN CASE typed # << >> /\ IsInt(typed[1]) ->
            <<IF \A i \in DOMAIN items : FitsFour(items[i]) THEN "IntArray" ELSE "LongArray", ints>>
       [] typed # << >> /\ typed[1][1] = "string" -> <<"TextArray", texts>>
       [] OTHER -> <<"Json", v>>

RustSql(v) ==
  CASE v = GNull -> <<"Null">>
    [] v[1] = "boolean" -> <<"Bool", v[2]>>
    [] v[1] = "number" -> IF v[2] \in Signed(Half4) THEN <<"Int", v[2]>> ELSE <<"Long", v[2]>>
    [] v[1] = "float" -> <<"Float", v[2]>>
    [] v[1] = "string" -> <<IF v[2] = "uuid" THEN "Uuid" ELSE "Text", v[2]>>
    [] v[1] = "list" -> RustArray(v)
    [] v[1] = "object" -> <<"Json", v>>

\* What arrives in a column of type ty.  Bytes of another type are Garbled: the
\* server refuses them, or reads something else.
Garbled == <<"garbled">>

\* Mutant: eight bytes are cut to four for every column.
IntInCut(n, ty) == IF ty = "INT2" THEN Wrap(n, Half2) ELSE Wrap(n, Half4)

\* `as i16', `as i32', `as i64'
IntIn(n, ty) ==
  CASE ty = "INT2" -> Wrap(n, Half2) [] ty = "INT4" -> Wrap(n, Half4) [] ty = "INT8" -> n

Encoded(r, ty) ==
  CASE r[1] = "Null" -> NULL
    [] r[1] \in {"Int", "Long"} /\ ty \in {"INT2", "INT4", "INT8"} -> <<"int", IntIn(r[2], ty)>>
    [] r[1] = "Bool" /\ ty = "BOOL" -> <<"bool", r[2]>>
    [] r[1] = "Float" /\ ty = "FLOAT8" -> <<"float", r[2]>>
    [] r[1] = "Text" /\ ty \in {"TEXT", "VARCHAR"} -> <<"text", r[2]>>
    [] r[1] = "Uuid" /\ ty = "UUID" -> <<"uuid", r[2]>>
    [] r[1] = "Json" /\ ty = "JSON" -> <<"json", r[2]>>
    [] r[1] = "IntArray" /\ ty = "INT4_ARRAY" -> <<"array", r[2]>>
    [] r[1] = "LongArray" /\ ty = "INT8_ARRAY" -> <<"array", r[2]>>
    [] r[1] = "TextArray" /\ ty = "TEXT_ARRAY" -> <<"array", r[2]>>
    [] OTHER -> Garbled

StaticParam(p, ty) == Encoded(RustSql(ToValue(p)), ty)

HalfOf(ty) == CASE ty = "INT2" -> Half2 [] ty = "INT4" -> Half4 [] ty = "INT8" -> Half8
ElementType(ty) ==
  CASE ty = "INT4_ARRAY" -> "INT4" [] ty = "INT8_ARRAY" -> "INT8" [] ty = "TEXT_ARRAY" -> "VARCHAR"
Number(p) == IF p[1] = "bool" THEN IF p[2] THEN 1 ELSE 0 ELSE p[2]

\* PythonSqlValue::to_sql; an array cannot hold a None, a UUID has no case.
RECURSIVE PythonParam(_, _)
PythonParam(p, ty) ==
  CASE ty = "UUID" -> Error
    [] ty # "UUID" /\ p = None -> NULL
    [] p[1] \in {"int", "bool"} /\ ty \in {"INT2", "INT4", "INT8"} ->
         IF Number(p) \in Signed(HalfOf(ty)) THEN <<"int", Number(p)>> ELSE Error
    [] p[1] \in {"int", "bool", "float"} /\ ty = "FLOAT8" -> <<"float", Number(p)>>
    [] p[1] = "nan" /\ ty = "FLOAT8" -> p
    [] p[1] = "bool" /\ ty = "BOOL" -> p
    [] p[1] = "str" /\ ty \in {"TEXT", "VARCHAR"} -> <<"text", p[2]>>
    [] p[1] \in {"int", "bool"} /\ ty = "TEXT" -> <<"text", ToString(p[2])>>
    [] p[1] \in {"str", "int", "bool", "float", "list"} /\ ty = "JSON" -> <<"json", ToValue(p)>>
    [] p[1] = "list" /\ ty \in {"INT4_ARRAY", "INT8_ARRAY", "TEXT_ARRAY"} ->
         LET vals == [i \in DOMAIN p[2] |-> PythonParam(p[2][i], ElementType(ty))]
         IN IF NULL \in {vals[i] : i \in DOMAIN vals} THEN Error ELSE Collected("array", vals)
    [] OTHER -> Error

-----------------------------------------------------------------------------
(* JSON: SerializePyObject and HyperJsonValue.  A text is null, bool, int, *)
(* float, str, array or object, the object a sequence of entries.          *)

JsonKey(k) ==
  CASE k = None -> "null"
    [] k[1] = "bool" -> IF k[2] THEN "true" ELSE "false"
    [] k[1] = "str" -> k[2]
    [] OTHER -> ToString(k[2])

\* Mutant: the map keeps the first entry of a key.
SortedFirst(entries) ==
  LET keys == SetToSeq(Names(entries))
      First(k) == Min({i \in DOMAIN entries : entries[i].key = k})
  IN [i \in DOMAIN keys |-> [key |-> keys[i], val |-> entries[First(keys[i])].val]]

\* Keys sorted: each object passes through a map that keeps the last entry.
Sorted(entries) ==
  LET keys == SetToSeq(Names(entries))
  IN [i \in DOMAIN keys |-> [key |-> keys[i], val |-> LastOf(entries, keys[i])]]

RECURSIVE Dumps(_, _)
Dumps(p, sort) ==
  CASE p[1] = "dict" ->
         LET es == [i \in DOMAIN p[2] |-> [key |-> JsonKey(p[2][i].key),
                                           val |-> Dumps(p[2][i].val, sort)]]
         IN IF \E i \in DOMAIN es : es[i].val = Error THEN Error
            ELSE <<"object", IF sort THEN Sorted(es) ELSE es>>
    [] p[1] \in {"list", "tuple"} ->
         Collected("array", [i \in DOMAIN p[2] |-> Dumps(p[2][i], sort)])
    [] p[1] \in {"str", "bool", "float"} -> p
    [] p[1] = "int" /\ p[2] \in -Half8..(2 * Half8 - 1) -> p
    [] p[1] \in {"none", "nan"} -> <<"null">>
    [] OTHER -> Error

RECURSIVE Loads(_)
Loads(j) ==
  CASE j[1] = "null" -> None
    [] j[1] = "array" -> <<"list", [i \in DOMAIN j[2] |-> Loads(j[2][i])]>>
    [] j[1] = "object" ->
         LET es == Sorted([i \in DOMAIN j[2] |-> [key |-> j[2][i].key, val |-> Loads(j[2][i].val)]])
         IN <<"dict", [i \in DOMAIN es |-> [key |-> <<"str", es[i].key>>, val |-> es[i].val]]>>
    [] OTHER -> j

-----------------------------------------------------------------------------
(* What the conversions are for.                                           *)

RECURSIVE Holds(_, _)
\* A value of one of these kinds is p or is inside it.
Holds(p, kinds) ==
  \/ p[1] \in kinds
  \/ p[1] \in {"list", "tuple"} /\ \E i \in DOMAIN p[2] : Holds(p[2][i], kinds)
  \/ p[1] \in {"dict", "instance"} /\ \E i \in DOMAIN p[2] : Holds(p[2][i].val, kinds)

RECURSIVE Client(_, _)
\* An argument as the client reads it again: fields the type does not declare
\* are gone, a Float is a float.
Client(v, t) ==
  CASE v[1] = "object" /\ t.kind = "Object" ->
         <<"object", [n \in DOMAIN v[2] \cap {t.of[i].name : i \in DOMAIN t.of} |->
                        Client(v[2][n], t.of[FieldOf(t, n)].type)]>>
    [] v[1] = "object" /\ t.kind = "Any" -> <<"object", [n \in DOMAIN v[2] |-> Client(v[2][n], t)]>>
    [] v[1] = "list" -> <<"list", [i \in DOMAIN v[2] |->
                             Client(v[2][i], IF t.kind = "Any" THEN t ELSE t.of[1].type)]>>
    [] v[1] = "number" /\ (t.kind = "Float" \/ v[2] \notin Signed(Half8)) -> <<"float", v[2]>>
    [] OTHER -> v

\* A resolver that returns its argument returns what the client sent; dates and
\* bytes, which have no way back, excepted.
EchoesAlike(v, t) ==
  LET p == ToPython(v, t)
  IN p # Error /\ ~Holds(p, {"datetime", "bytes"}) => ToValue(p) = Client(v, t)

\* A row shows the same value through GraphQL and through a Python producer.
ColumnsReadAlike(c) ==
  LET g == GraphqlColumn(c)
  IN g \notin {Panic, Error} /\ c.val[1] \notin {"bytes", "timestamp"}
       => g = ToValue(PythonColumn(c))

RECURSIVE Plain(_)
Plain(p) ==
  CASE p[1] = "nan" -> None
    [] p[1] \in {"list", "tuple"} -> <<"list", [i \in DOMAIN p[2] |-> Plain(p[2][i])]>>
    [] p[1] = "dict" ->
         LET Texts(k) == {i \in DOMAIN p[2] : JsonKey(p[2][i].key) = k}
             keys == SetToSeq({JsonKey(p[2][i].key) : i \in DOMAIN p[2]})
         IN <<"dict", [i \in DOMAIN keys |->
                         [key |-> <<"str", keys[i]>>, val |-> Plain(p[2][Max(Texts(keys[i]))].val)]]>>
    [] OTHER -> p

\* What was written is read back, sorted or not, up to what JSON cannot say.
JsonReadsBack(p) ==
  \A sort \in BOOLEAN :
    /\ Dumps(p, sort) = Error <=> Dumps(p, ~sort) = Error
    /\ Dumps(p, sort) # Error => Loads(Dumps(p, sort)) = Plain(p)

\* The value of type ty that p stands for.
RECURSIVE Meaning(_, _)
Meaning(p, ty) ==
  CASE p = None -> NULL
    [] p[1] = "str" /\ ty = "UUID" /\ p[2] = "uuid" -> <<"uuid", "uuid">>
    [] p[1] = "list" /\ ty \in {"INT4_ARRAY", "INT8_ARRAY", "TEXT_ARRAY"} ->
         Collected("array", [i \in DOMAIN p[2] |-> Meaning(p[2][i], ElementType(ty))])
    [] p[1] \in {"dict"} /\ ty = "JSON" -> <<"json", ToValue(p)>>
    [] OTHER -> PythonParam(p, ty)

\* Where static SQL is known to store another value: an integer wider than the
\* column wraps around, a NaN is NULL, and what is not of the first element's
\* kind is 0 or "" in an array.
Replaced(p, ty) ==
  \/ p[1] = "int" /\ ty \in {"INT2", "INT4"} /\ p[2] \notin Signed(HalfOf(ty))
  \/ Holds(p, {"nan"})
  \/ p[1] = "list" /\ \E i, j \in DOMAIN p[2] : p[2][i][1] # p[2][j][1]
  \/ p[1] = "list" /\ \E i \in DOMAIN p[2] : p[2][i][1] = "int" /\ p[2][i][2] \notin Signed(Half8)

\* A parameter arrives with its meaning or not at all, by either way.
ParamArrives(p, ty) ==
  /\ PythonParam(p, ty) \in {Error, Meaning(p, ty)}
  /\ Holds(p, {"datetime", "bytes", "tuple", "instance"}) \/ Replaced(p, ty)
       \/ StaticParam(p, ty) \in {Garbled, Meaning(p, ty)}
=============================================================================
