---------------------------- MODULE MCMetaStore ----------------------------
(***************************************************************************)
(* MetaStore for TLC: exports of at most three rows over one key of every  *)
(* shape, and some whose keys or row key the generator refuses.            *)
(***************************************************************************)
EXTENDS MetaStore

MCKeys == {"id", "field", "a b", "seq", "_uuid"}

Value(kind, class, elements, id) ==
    [kind |-> kind, class |-> class, long |-> FALSE, in_range |-> TRUE,
     elements |-> elements, id |-> id]
Absent == Value("absent", "none", {}, 0)
Null == Value("null", "none", {}, 0)
Text(class, id) == Value("str", class, {}, id)
Whole == Value("int", "none", {}, 0)

Scalars == <<"bool", "float", "dict">>
Strings == <<"empty", "uuid", "ip", "rfc3339", "multiline", "plain">>
Lists == <<{}, {"int"}, {"int", "float"}, {"str"}, {"dict"}, {"bool"}, {"null", "int"}>>

\* An int, a list of them, an address, a timestamp and a UUID past what their
\* ClickHouse types hold.
Beyond ==
    [i \in 1..5 |->
        [<<Whole, Value("list", "none", {"int"}, 0),
           Text("ip", 0), Text("rfc3339", 0), Text("uuid", 0)>>[i] EXCEPT !.in_range = FALSE]]

Shapes ==
    <<Absent, Null, Whole, [Text("plain", 1) EXCEPT !.long = TRUE]>>
    \o [i \in 1..Len(Scalars) |-> Value(Scalars[i], "none", {}, 0)]
    \o [i \in 1..Len(Strings) |-> Text(Strings[i], 0)]
    \o [i \in 1..Len(Lists) |-> Value("list", "none", Lists[i], 0)]
    \o Beyond

Row(id, key, v) == [k \in MCKeys |-> IF k = "id" THEN id ELSE IF k = key THEN v ELSE Absent]

\* Two rows of any two shapes, and three of one.
FieldExports ==
    {<<Row(Text("plain", 1), "field", Shapes[p[1]]), Row(Text("plain", 2), "field", Shapes[p[2]])>> :
        p \in {q \in (1..Len(Shapes)) \X (1..Len(Shapes)) : q[1] <= q[2]}}
    \cup {[i \in 1..3 |-> Row(Text("plain", i), "field", Shapes[s])] : s \in 1..Len(Shapes)}

\* Three rows that share a value of the row key, rows without it, row keys of
\* another type, and keys that no column may be named after.
OtherExports ==
    {<<>>, [i \in 1..3 |-> Row(Text("plain", 1), "field", Absent)]}
    \cup {<<Row(v, "field", Whole)>> : v \in {Absent, Null, Whole, Text("uuid", 1)}}
    \cup {<<Row(Text("plain", 1), k, Whole)>> : k \in {"a b", "seq", "_uuid"}}

MCExports == FieldExports \cup OtherExports
MCChanges ==
    {<<Row(Text("plain", 1), "field", Whole), Row(Text("plain", 2), "field", v)>> :
        v \in {Absent, Text("empty", 0)}}
    \cup {<<>>}
=============================================================================
