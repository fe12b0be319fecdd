----------------------------- MODULE MetaSchema -----------------------------
(***************************************************************************)
(* The columns scripts/generate_meta_schemas.py derives from the rows of a *)
(* provider's export, and what dfe_schemas/loader.py and the renderer make *)
(* of them.                                                                *)
(*                                                                         *)
(* Data.  A JSON value is its kind and what the typing rules look at: the  *)
(* class of a string and whether it is longer than --text-min-length, the  *)
(* kinds of a list's elements; id tells values of one shape apart.  What   *)
(* no rule looks at is in_range: an int, or each int of a list, is within  *)
(* 64 bits, an address has no zone (ipaddress takes fe80::1%eth0), a       *)
(* timestamp is one of DateTime64, a UUID has no newline after it.  A row  *)
(* gives every key a value, "absent" where the row lacks the key.  The     *)
(* wording of comments, the codec, the expression and the order of columns *)
(* are left out.                                                           *)
(***************************************************************************)
EXTENDS Naturals, Sequences, FiniteSets

CONSTANTS
    Keys,       \* top-level keys of a store's rows
    RowKey,     \* the key named by --row-key
    BadNames,   \* keys that cannot be column names
    Reserved,   \* --reserved: names a key may not take
    Header      \* columns of the common header and of the snapshot envelope

Kinds == {"bool", "int", "float", "str", "list", "dict"}
Classes == {"none", "empty", "uuid", "ip", "rfc3339", "multiline", "plain"}

Values == [kind : Kinds \cup {"null", "absent"}, class : Classes, long : BOOLEAN,
           in_range : BOOLEAN, elements : SUBSET (Kinds \cup {"null"}), id : Nat]

\* A string has one class, and only a string.
Rows == {row \in [Keys -> Values] :
            \A k \in Keys : (row[k].kind = "str") = (row[k].class # "none")}

Primitives == {"string", "text", "integer", "float", "boolean", "datetime",
               "ip", "uuid", "json"}

\* array: ch_override holds Array of the primitive's ClickHouse type.
Columns == [name : Keys, type : Primitives, array : BOOLEAN,
            attribute : SUBSET {"nullable", "not_null", "lowcardinality"},
            use_case : {"none", "dimension", "range", "exact_match"}]

ASSUME KeysAssumption ==
    /\ RowKey \in Keys
    /\ Header \subseteq Reserved

-----------------------------------------------------------------------------
\* profile: what the rows show of one key.

KeysOf(rows) == {k \in Keys : \E i \in 1..Len(rows) : rows[i][k].kind # "absent"}

Seen(rows, k) == {rows[i][k] : i \in 1..Len(rows)}
Observed(rows, k) == {v \in Seen(rows, k) : v.kind \in Kinds}
Optional(rows, k) == \E v \in Seen(rows, k) : v.kind \in {"absent", "null"}

KindsOf(seen) == {v.kind : v \in seen}
ClassesOf(seen) == {v.class : v \in {w \in seen : w.kind = "str"}}
ElementsOf(seen) == UNION {v.elements : v \in {w \in seen : w.kind = "list"}}

-----------------------------------------------------------------------------
\* derive_column.

\* Slip: a shape is taken from the strings that are not empty.
ShapeDespiteEmpty(seen) ==
    LET classes == ClassesOf(seen) \ {"empty"} IN
    CASE classes = {"uuid"} -> "uuid"
      [] classes = {"ip"} -> "ip"
      [] classes = {"rfc3339"} -> "datetime"
      [] "multiline" \in classes \/ \E v \in seen : v.long -> "text"
      [] OTHER -> "string"

\* _string_shape.  Nothing but empty strings, or a shape mixed with them, stays
\* a string whatever its length.
StringShape(seen) ==
    LET classes == ClassesOf(seen) IN
    CASE classes = {"uuid"} -> "uuid"
      [] classes = {"ip"} -> "ip"
      [] classes = {"rfc3339"} -> "datetime"
      [] "empty" \in classes /\ classes \subseteq {"empty", "uuid", "ip", "rfc3339"} -> "string"
      [] "multiline" \in classes \/ \E v \in seen : v.long -> "text"
      [] OTHER -> "string"

\* _array_type.
ArrayType(seen) ==
    LET elements == ElementsOf(seen) IN
    CASE elements = {"dict"} -> "json"
      [] elements = {"int"} -> "integer"
      [] elements # {} /\ elements \subseteq {"int", "float"} -> "float"
      [] elements = {"bool"} -> "boolean"
      [] OTHER -> "string"

\* A key that is null on every row, and kinds that conflict, become strings.
Primitive(seen) ==
    LET kinds == KindsOf(seen) IN
    CASE kinds = {"bool"} -> "boolean"
      [] kinds = {"int"} -> "integer"
      [] kinds # {} /\ kinds \subseteq {"int", "float"} -> "float"
      [] kinds = {"str"} -> StringShape(seen)
      [] kinds = {"dict"} -> "json"
      [] kinds = {"list"} -> ArrayType(seen)
      [] OTHER -> "string"

IsArray(seen) == KindsOf(seen) = {"list"}

UseCase(seen, rows) ==
    CASE KindsOf(seen) = {"bool"} -> "dimension"
      [] KindsOf(seen) # {} /\ KindsOf(seen) \subseteq {"int", "float"} -> "range"
      [] KindsOf(seen) = {"str"} /\ Primitive(seen) = "uuid" ->
            IF Cardinality(seen) * 2 >= rows THEN "exact_match" ELSE "dimension"
      [] KindsOf(seen) = {"str"} /\ Primitive(seen) \in {"ip", "datetime"} -> "range"
      [] KindsOf(seen) = {"str"} /\ Primitive(seen) = "string" -> "dimension"
      [] OTHER -> "none"

LowCardinality(seen, rows) ==
    KindsOf(seen) = {"str"} /\ Primitive(seen) = "string" /\ Cardinality(seen) * 2 < rows

\* Slip: nullable wherever some row lacks the key.
NullableWhereOptional(seen, optional) ==
    (IF optional THEN {"nullable"} ELSE {})
    \cup (IF Primitive(seen) = "json" /\ ~IsArray(seen) THEN {"not_null"} ELSE {})

\* An absent list lands as [], an absent object as {}.
NullAttribute(seen, optional) ==
    CASE IsArray(seen) -> {}
      [] ~IsArray(seen) /\ Primitive(seen) = "json" -> {"not_null"}
      [] OTHER -> IF optional THEN {"nullable"} ELSE {}

DeriveColumn(rows, k) ==
    LET seen == Observed(rows, k) IN
    [name |-> k, type |-> Primitive(seen), array |-> IsArray(seen),
     attribute |-> NullAttribute(seen, Optional(rows, k))
                   \cup IF LowCardinality(seen, Len(rows)) /\ k # RowKey
                        THEN {"lowcardinality"} ELSE {},
     use_case |-> IF k = RowKey THEN "exact_match" ELSE UseCase(seen, Len(rows))]

-----------------------------------------------------------------------------
\* derive_store.

Derives(rows) ==
    /\ Len(rows) > 0
    /\ RowKey \in KeysOf(rows)
    /\ KeysOf(rows) \cap BadNames = {}
    /\ KeysOf(rows) \cap Reserved = {}
    /\ Primitive(Observed(rows, RowKey)) \in {"string", "uuid"}

DeriveStore(rows) == {DeriveColumn(rows, k) : k \in KeysOf(rows)}

-----------------------------------------------------------------------------
\* The loader and the renderer over such a column.

\* registries/types.yaml, and the exact type of ch_override.
NotNullable == {"boolean"}
ClickHouseType(c) ==
    CASE c.array -> "Array"
      [] c.type \in {"string", "text"} /\ ~c.array -> "String"
      [] c.type = "integer" /\ ~c.array -> "Int64"
      [] c.type = "float" /\ ~c.array -> "Float64"
      [] c.type = "boolean" /\ ~c.array -> "Bool"
      [] c.type = "datetime" /\ ~c.array -> "DateTime64"
      [] c.type = "ip" /\ ~c.array -> "IPv6"
      [] c.type = "uuid" /\ ~c.array -> "UUID"
      [] c.type = "json" /\ ~c.array -> "JSON"

\* _cardinality: the attribute says low, and nothing else does.
IsLow(c) == "lowcardinality" \in c.attribute

\* _wrap: an exact type is not nullable unless an attribute says so.
IsNullable(c) ==
    /\ "not_null" \notin c.attribute
    /\ "nullable" \in c.attribute \/ (~c.array /\ c.type \notin NotNullable)

\* What _wrap refuses: a dictionary over a type ClickHouse does not encode.
Wraps(c) == IsLow(c) => ClickHouseType(c) \in {"String", "Int64", "Float64"}

\* _index_defs: exact_match holds every value of a low column, else a bounded filter.
IndexOf(c) ==
    CASE c.use_case = "dimension" -> "set"
      [] c.use_case = "range" -> "minmax"
      [] c.use_case = "exact_match" -> IF IsLow(c) THEN "set" ELSE "bloom_filter"
      [] OTHER -> "none"

\* compose: the header wins over a column of its name.
Composed(columns) == {c \in columns : c.name \notin Header}

-----------------------------------------------------------------------------
\* What a column holds of a JSON value.  A Float64 rounds a wide int.

HoldsElement(type, kind, in_range) ==
    CASE type = "string" -> TRUE
      [] type = "integer" -> kind = "int" /\ in_range
      [] type = "float" -> kind \in {"int", "float"}
      [] type = "boolean" -> kind = "bool"
      [] type = "json" -> kind = "dict"
      [] OTHER -> FALSE

Holds(c, v) ==
    CASE v.kind \in {"absent", "null"} -> c.array \/ c.type = "json" \/ IsNullable(c)
      [] v.kind \in Kinds /\ c.array ->
            v.kind = "list" /\ \A e \in v.elements : HoldsElement(c.type, e, v.in_range)
      [] v.kind \in Kinds /\ ~c.array /\ c.type \in {"uuid", "ip"} ->
            v.class = c.type /\ v.in_range
      [] v.kind \in Kinds /\ ~c.array /\ c.type = "datetime" ->
            v.class = "rfc3339" /\ v.in_range
      [] v.kind \in Kinds /\ ~c.array /\ c.type = "text" -> v.kind = "str"
      [] OTHER -> HoldsElement(c.type, v.kind, v.in_range)

\* The types that do not hold every value of the form they are derived from.
Bounded == {"integer", "uuid", "ip", "datetime"}
PastRange(c, v) == c.type \in Bounded /\ ~v.in_range
=============================================================================
