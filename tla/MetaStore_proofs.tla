-------------------------- MODULE MetaStore_proofs --------------------------
(***************************************************************************)
(* Proofs about MetaStore, for every set of keys and versions and exports  *)
(* of any length.                                                          *)
(***************************************************************************)
EXTENDS MetaStore, TLAPS

-----------------------------------------------------------------------------
\* What a key's values look like.

LEMMA SeenTyped ==
    ASSUME NEW rows \in Seq(Rows), NEW k \in Keys
    PROVE  /\ \A v \in Seen(rows, k) : v \in Values /\ ((v.kind = "str") = (v.class # "none"))
           /\ \A v \in Observed(rows, k) : v \in Seen(rows, k) /\ v.kind \in Kinds
<1>1. \A i \in 1..Len(rows) : rows[i] \in Rows
  OBVIOUS
<1>2. \A i \in 1..Len(rows) : /\ rows[i][k] \in Values
                              /\ (rows[i][k].kind = "str") = (rows[i][k].class # "none")
  BY <1>1 DEF Rows
<1>3. QED
  BY <1>2 DEF Seen, Observed

\* Every value of a string column with a shape has the class of the shape.
LEMMA ShapeHolds ==
    ASSUME NEW rows \in Seq(Rows), NEW k \in Keys,
           KindsOf(Observed(rows, k)) = {"str"}, NEW v \in Observed(rows, k)
    PROVE  LET type == StringShape(Observed(rows, k)) IN
           /\ type \in {"uuid", "ip", "datetime", "string", "text"}
           /\ type \in {"uuid", "ip"} => v.class = type
           /\ type = "datetime" => v.class = "rfc3339"
<1> DEFINE seen == Observed(rows, k)
<1>1. v.kind = "str"
  BY DEF KindsOf
<1>2. v.class \in ClassesOf(seen)
  BY <1>1 DEF ClassesOf
<1> HIDE DEF seen
<1>3. /\ StringShape(seen) \in {"uuid", "ip", "datetime", "string", "text"}
      /\ StringShape(seen) = "uuid" => ClassesOf(seen) = {"uuid"}
      /\ StringShape(seen) = "ip" => ClassesOf(seen) = {"ip"}
      /\ StringShape(seen) = "datetime" => ClassesOf(seen) = {"rfc3339"}
  BY DEF StringShape
<1>4. QED
  BY <1>2, <1>3 DEF seen

\* Every element of a list column is of the element type, given its range.
LEMMA ElementsHold ==
    ASSUME NEW seen, NEW v \in seen, v.kind = "list", NEW e \in v.elements,
           ArrayType(seen) = "integer" => v.in_range
    PROVE  HoldsElement(ArrayType(seen), e, v.in_range)
<1>1. e \in ElementsOf(seen)
  BY DEF ElementsOf
<1>2. QED
  BY <1>1 DEF ArrayType, HoldsElement

LEMMA ArrayTyped == \A seen : ArrayType(seen) \in {"json", "integer", "float", "boolean", "string"}
  BY DEF ArrayType

LEMMA PrimitiveTyped ==
    ASSUME NEW rows \in Seq(Rows), NEW k \in Keys
    PROVE  Primitive(Observed(rows, k)) \in Primitives
<1> DEFINE seen == Observed(rows, k)
<1>1. StringShape(seen) \in Primitives
  BY DEF StringShape, Primitives
<1>2. ArrayType(seen) \in Primitives
  BY ArrayTyped DEF Primitives
<1> HIDE DEF seen
<1>3. Primitive(seen) \in Primitives
  BY <1>1, <1>2 DEF Primitive, Primitives
<1>4. QED
  BY <1>3 DEF seen

-----------------------------------------------------------------------------
\* The derived column holds whatever the rows show of its key.

LEMMA AbsentHolds ==
    ASSUME NEW rows \in Seq(Rows), NEW k \in Keys, NEW i \in 1..Len(rows),
           rows[i][k].kind \in {"absent", "null"}
    PROVE  Holds(DeriveColumn(rows, k), rows[i][k])
<1> DEFINE seen == Observed(rows, k)
           c == DeriveColumn(rows, k)
<1>1. Optional(rows, k)
  BY DEF Optional, Seen
<1>2. /\ c.array = IsArray(seen)
      /\ c.type = Primitive(seen)
      /\ NullAttribute(seen, Optional(rows, k)) \subseteq c.attribute
      /\ c.attribute \subseteq NullAttribute(seen, Optional(rows, k)) \cup {"lowcardinality"}
  BY DEF DeriveColumn
<1>3. c.array \/ c.type = "json" \/ IsNullable(c)
  <2>1. CASE ~IsArray(seen) /\ Primitive(seen) # "json"
    <3>1. NullAttribute(seen, Optional(rows, k)) = {"nullable"}
      BY <1>1, <2>1 DEF NullAttribute
    <3>2. "nullable" \in c.attribute /\ "not_null" \notin c.attribute
      BY <1>2, <3>1
    <3>3. QED
      BY <3>2 DEF IsNullable
  <2>2. QED
    BY <1>2, <2>1
<1> HIDE DEF c
<1>4. Holds(c, rows[i][k])
  BY <1>3 DEF Holds, Kinds
<1>5. QED
  BY <1>4 DEF c

LEMMA PresentHolds ==
    ASSUME NEW rows \in Seq(Rows), NEW k \in Keys, NEW v \in Observed(rows, k),
           ~PastRange(DeriveColumn(rows, k), v)
    PROVE  Holds(DeriveColumn(rows, k), v)
<1> DEFINE seen == Observed(rows, k)
           c == DeriveColumn(rows, k)
           kinds == KindsOf(seen)
<1>1. c.array = (kinds = {"list"}) /\ c.type = Primitive(seen)
  BY DEF DeriveColumn, IsArray
<1>2. v \in seen /\ v.kind \in kinds /\ v.kind \in Kinds
  BY SeenTyped DEF KindsOf
<1>3. v.kind \notin {"absent", "null"}
  BY <1>2 DEF Kinds
<1>a. kinds = {"str"} => LET type == StringShape(seen) IN
           /\ type \in {"uuid", "ip", "datetime", "string", "text"}
           /\ type \in {"uuid", "ip"} => v.class = type
           /\ type = "datetime" => v.class = "rfc3339"
  BY ShapeHolds
<1>b. v.kind = "list" /\ (ArrayType(seen) = "integer" => v.in_range) =>
          \A e \in v.elements : HoldsElement(ArrayType(seen), e, v.in_range)
  BY ElementsHold
<1>c. c.type \in {"integer", "uuid", "ip", "datetime"} => v.in_range
  BY DEF PastRange, Bounded
<1> HIDE DEF seen, c, kinds
<1>4. CASE kinds = {"list"}
  <2>1. c.array /\ c.type = ArrayType(seen) /\ v.kind = "list"
    BY <1>1, <1>2, <1>4 DEF Primitive, kinds
  <2>2. QED
    BY <1>2, <1>3, <1>b, <1>c, <2>1 DEF Holds, c
<1>5. CASE kinds = {"str"}
  <2>1. ~c.array /\ c.type = StringShape(seen) /\ v.kind = "str"
    BY <1>1, <1>2, <1>5 DEF Primitive, kinds
  <2>2. QED
    BY <1>2, <1>3, <1>5, <1>a, <1>c, <2>1 DEF Holds, HoldsElement, c
<1>6. CASE kinds # {"list"} /\ kinds # {"str"}
  <2>1. /\ ~c.array
        /\ \/ c.type = "boolean" /\ kinds = {"bool"}
           \/ c.type = "integer" /\ kinds = {"int"}
           \/ c.type = "float" /\ kinds \subseteq {"int", "float"}
           \/ c.type = "json" /\ kinds = {"dict"}
           \/ c.type = "string"
    BY <1>1, <1>6 DEF Primitive, kinds
  <2>2. QED
    BY <1>2, <1>3, <1>c, <2>1 DEF Holds, HoldsElement, c
<1>7. QED
  BY <1>4, <1>5, <1>6

\* Of an export a schema comes of, every value has a column that the header does not
\* hide and that holds it, whatever the other rows have of its key (other kinds,
\* nulls, no key at all, values past a range) and however many they are; unless it is
\* itself past the range of an Int64, UUID, IPv6 or DateTime64 column.
THEOREM StoreFits ==
    ASSUME NEW rows \in Seq(Rows), Derives(rows), NEW k \in KeysOf(rows),
           NEW i \in 1..Len(rows)
    PROVE  \E c \in Composed(DeriveStore(rows)) :
               c.name = k /\ (Holds(c, rows[i][k]) \/ PastRange(c, rows[i][k]))
<1> DEFINE c == DeriveColumn(rows, k)
<1>1. k \in Keys /\ k \notin Reserved
  BY DEF KeysOf, Derives
<1>2. c.name = k /\ c \in DeriveStore(rows)
  BY DEF DeriveColumn, DeriveStore
<1>3. c \in Composed(DeriveStore(rows))
  BY <1>1, <1>2, KeysAssumption DEF Composed
<1>4. Holds(c, rows[i][k]) \/ PastRange(c, rows[i][k])
  <2>1. CASE rows[i][k].kind \in {"absent", "null"}
    BY <1>1, <2>1, AbsentHolds
  <2>2. CASE rows[i][k].kind \in Kinds
    <3>1. rows[i][k] \in Observed(rows, k)
      BY <2>2 DEF Observed, Seen
    <3>2. QED
      BY <1>1, <3>1, PresentHolds
  <2>3. rows[i][k] \in Values
    BY <1>1, SeenTyped DEF Seen
  <2>4. QED
    BY <2>1, <2>2, <2>3 DEF Values
<1>5. QED
  BY <1>2, <1>3, <1>4

-----------------------------------------------------------------------------
\* The derived column is one the loader takes.

LEMMA ColumnTyped ==
    ASSUME NEW rows \in Seq(Rows), NEW k \in Keys
    PROVE  DeriveColumn(rows, k) \in Columns
<1> DEFINE seen == Observed(rows, k)
<1>1. Primitive(seen) \in Primitives /\ IsArray(seen) \in BOOLEAN
  BY PrimitiveTyped DEF IsArray
<1>2. NullAttribute(seen, Optional(rows, k)) \subseteq {"nullable", "not_null", "lowcardinality"}
  BY DEF NullAttribute
<1>3. UseCase(seen, Len(rows)) \in {"none", "dimension", "range", "exact_match"}
  BY DEF UseCase
<1>4. QED
  BY <1>1, <1>2, <1>3 DEF DeriveColumn, Columns

LEMMA ColumnCreates ==
    ASSUME NEW rows \in Seq(Rows), NEW k \in Keys
    PROVE  LET c == DeriveColumn(rows, k) IN
           /\ Wraps(c)
           /\ IsNullable(c) => ClickHouseType(c) \notin {"Array", "JSON"}
           /\ c.use_case = "exact_match" => IndexOf(c) = "bloom_filter"
<1> DEFINE seen == Observed(rows, k)
           c == DeriveColumn(rows, k)
           null == NullAttribute(seen, Optional(rows, k))
<1>1. /\ c.array = IsArray(seen) /\ c.type = Primitive(seen) /\ c.type \in Primitives
      /\ null \subseteq c.attribute /\ c.attribute \subseteq null \cup {"lowcardinality"}
      /\ IsLow(c) => LowCardinality(seen, Len(rows)) /\ k # RowKey
      /\ c.use_case = IF k = RowKey THEN "exact_match" ELSE UseCase(seen, Len(rows))
  BY PrimitiveTyped DEF DeriveColumn, IsLow, NullAttribute
<1>2. IsArray(seen) => null = {}
  BY DEF NullAttribute
<1>3. ~IsArray(seen) /\ Primitive(seen) = "json" => null = {"not_null"}
  BY DEF NullAttribute
<1>4. LowCardinality(seen, Len(rows)) =>
          ~IsArray(seen) /\ Primitive(seen) = "string" /\ UseCase(seen, Len(rows)) = "dimension"
  BY DEF LowCardinality, IsArray, UseCase
<1> HIDE DEF seen, c, null
<1>5. ClickHouseType(c) \in {"Array", "JSON"} => c.array \/ c.type = "json"
  BY <1>1 DEF ClickHouseType, Primitives
<1>6. IsLow(c) => ClickHouseType(c) = "String"
  BY <1>1, <1>4 DEF ClickHouseType
<1>7. IsNullable(c) => ClickHouseType(c) \notin {"Array", "JSON"}
  BY <1>1, <1>2, <1>3, <1>5 DEF IsNullable
<1>8. c.use_case = "exact_match" => IndexOf(c) = "bloom_filter"
  BY <1>1, <1>4 DEF IndexOf
<1>9. QED
  BY <1>6, <1>7, <1>8 DEF Wraps, c

LEMMA StoreTyped ==
    ASSUME NEW rows \in Seq(Rows)
    PROVE  DeriveStore(rows) \subseteq Columns
  BY ColumnTyped DEF DeriveStore, KeysOf

-----------------------------------------------------------------------------
\* The invariant.

LEMMA ExportTyped == \A rows \in Exports \cup Changes : rows \in Seq(Rows)
  BY ExportsAssumption

LEMMA InitIInv == Init => IInv
<1> SUFFICES ASSUME Init PROVE IInv
  OBVIOUS
<1>1. /\ export \in Exports /\ today = 0 /\ file = NoFile
      /\ released = <<>> /\ origin = <<>> /\ written = None
  BY DEF Init
<1>2. DOMAIN released = {} /\ DOMAIN origin = {} /\ Held = {}
  BY <1>1 DEF Held, NoFile
<1>3. file.current = None /\ file.resource_type = FALSE /\ file.versions = <<>>
  BY <1>1 DEF NoFile
<1>4. file = [current |-> file.current, resource_type |-> file.resource_type,
              versions |-> file.versions]
  BY <1>1 DEF NoFile
<1>5. <<>> = [v \in DOMAIN <<>> |-> <<>>[v]]
  OBVIOUS
<1>6. IsVersionMap(<<>>)
  BY <1>5 DEF IsVersionMap
<1>7. TypeOK
  <2>1. today \in Days
    BY <1>1, ExportsAssumption DEF Days
  <2>2. IsVersionMap(file.versions) /\ IsVersionMap(released)
    BY <1>1, <1>3, <1>6
  <2>3. DOMAIN origin = DOMAIN file.versions /\ \A v \in DOMAIN origin : FALSE
    BY <1>2 DEF Held
  <2>4. QED
    BY <1>1, <1>3, <1>4, <2>1, <2>2, <2>3 DEF TypeOK
<1>8. QED
  BY <1>1, <1>2, <1>7 DEF IInv, OriginInv, WrittenInv, PinnedStays

\* What a version of TypeOK gives of a file's entries.
LEMMA EntryFields ==
    ASSUME NEW f, IsVersionMap(f), NEW v \in DOMAIN f
    PROVE  /\ v \in Versions
           /\ v # None
           /\ f[v] \in Entries
           /\ f[v] = [date |-> f[v].date, columns |-> f[v].columns, annotated |-> f[v].annotated]
           /\ f[v].date \in Days /\ f[v].columns \subseteq Columns /\ f[v].annotated \in BOOLEAN
  BY ExportsAssumption DEF IsVersionMap, Entries

\* A pin reads the entry of its version.
LEMMA PinReads ==
    ASSUME NEW v \in Versions
    PROVE  LoadVersionEntry(v) = file.versions[v]
  BY ExportsAssumption DEF LoadVersionEntry, Selected

LEMMA PinReadsNext ==
    ASSUME NEW v \in Versions
    PROVE  LoadVersionEntry(v)' = file'.versions[v]
  BY ExportsAssumption DEF LoadVersionEntry, Selected

\* While the file is as a run wrote it, its entry has the date the run gave it,
\* whatever day it is.
LEMMA RenderedAs ==
    ASSUME NEW v, NEW d, NEW rows, v \in Held
    PROVE  Rendered(v, d, rows) =
             [current |-> v, resource_type |-> TRUE,
              versions |-> [x \in {v} |->
                [date |-> IF d # None THEN d ELSE file.versions[v].date,
                 columns |-> DeriveStore(rows), annotated |-> TRUE]]]
  BY DEF Rendered, DateOf

-----------------------------------------------------------------------------
\* One run of the generator.

\* A run that changes the file finds none.
LEMMA GenerateFindsNone ==
    ASSUME NEW v, NEW d, Generate(v, d)
    PROVE  Held = {} /\ Derives(export)
<1>1. ~Refuses(v, d) /\ file # Rendered(v, d, export)
  BY DEF Generate, Changed
<1>2. Derives(export) /\ Held \ {v} = {} /\ v \notin Held
  BY <1>1 DEF Refuses
<1>3. QED
  BY <1>2

LEMMA GenerateStep ==
    ASSUME IInv, NEW v \in Versions, NEW d \in Days \cup {None}, Generate(v, d)
    PROVE  IInv'
<1> DEFINE date == DateOf(v, d)
           entry == [date |-> date, columns |-> DeriveStore(export), annotated |-> TRUE]
<1>1. Held = {} /\ Derives(export)
  BY GenerateFindsNone
<1>2. /\ file' = [current |-> v, resource_type |-> TRUE, versions |-> [x \in {v} |-> entry]]
      /\ origin' = [x \in {v} |-> export]
      /\ written' = [version |-> v, date |-> d]
      /\ export' = export /\ today' = today /\ released' = released
  BY DEF Generate, Rendered
<1>3. TypeOK /\ PinnedStays
  BY DEF IInv
<1>4. date \in Days /\ (d # None => date = d)
  BY <1>1, <1>3 DEF DateOf, TypeOK
<1>5. DeriveStore(export) \subseteq Columns
  BY <1>3, ExportTyped, StoreTyped DEF TypeOK
<1>6. entry \in Entries
  BY <1>4, <1>5 DEF Entries
<1>7. DOMAIN released = {}
  BY <1>1, <1>3 DEF PinnedStays
<1> HIDE DEF date, entry
<1>8. /\ file'.current = v /\ file'.resource_type = TRUE
      /\ file'.versions = [x \in {v} |-> entry]
      /\ DOMAIN file'.versions = {v} /\ file'.versions[v] = entry
      /\ DOMAIN origin' = {v} /\ origin'[v] = export
  BY <1>2
<1>9. IsVersionMap(file'.versions)
  BY <1>6, <1>8 DEF IsVersionMap
<1>10. TypeOK'
  <2>1. file' = [current |-> file'.current, resource_type |-> file'.resource_type,
                 versions |-> file'.versions]
    BY <1>2, <1>8
  <2>2. export' \in Exports \cup Changes /\ today' \in Days /\ IsVersionMap(released')
    BY <1>2, <1>3 DEF TypeOK
  <2>3. written' \in [version : Versions, date : Days \cup {None}]
    BY <1>2
  <2>4. \A x \in DOMAIN origin' : origin'[x] \in Exports \cup Changes
    BY <1>3, <1>8 DEF TypeOK
  <2>5. QED
    BY <1>8, <1>9, <2>1, <2>2, <2>3, <2>4 DEF TypeOK, IsVersionMap
<1>11. OriginInv'
  <2>1. entry.columns = DeriveStore(export)
    BY DEF entry
  <2>2. QED
    BY <1>1, <1>8, <2>1 DEF OriginInv, Held
<1>12. WrittenInv'
  <2>1. written'.version = v /\ written'.date = d
    BY <1>2
  <2>2. entry = [date |-> IF d # None THEN d ELSE entry.date,
                 columns |-> DeriveStore(export), annotated |-> TRUE]
    BY <1>4 DEF entry
  <2>3. Rendered(v, d, export)' = file'
    BY <1>2, <1>8, <2>2 DEF Rendered, DateOf, Held
  <2>4. QED
    BY <1>2, <1>8, <2>1, <2>3 DEF WrittenInv, Held, Rendered, DateOf
<1>13. PinnedStays'
  BY <1>2, <1>7 DEF PinnedStays
<1>14. QED
  BY <1>10, <1>11, <1>12, <1>13 DEF IInv

-----------------------------------------------------------------------------
\* What people do to the file.

LEMMA SpliceStep ==
    ASSUME IInv, NEW v \in Versions, NEW annotated \in BOOLEAN, Splice(v, annotated)
    PROVE  IInv'
<1> DEFINE entry == [date |-> today, columns |-> DeriveStore(export), annotated |-> annotated]
           type == file.resource_type \/ (Held = {} /\ annotated)
<1>1. /\ Derives(export) /\ v \notin Held
      /\ file' = [current |-> v, resource_type |-> type, versions |-> Put(file.versions, v, entry)]
      /\ origin' = Put(origin, v, export)
      /\ written' = None
      /\ export' = export /\ today' = today /\ released' = released
  BY DEF Splice
<1>2. TypeOK /\ PinnedStays /\ OriginInv
  BY DEF IInv
<1>3. entry \in Entries /\ entry.columns = DeriveStore(export)
  BY <1>2, ExportTyped, StoreTyped DEF TypeOK, Entries
<1>4. type \in BOOLEAN
  BY <1>2 DEF TypeOK
<1> HIDE DEF entry, type
<1>5. /\ file'.current = v /\ file'.resource_type = type
      /\ DOMAIN file'.versions = Held \cup {v}
      /\ file'.versions[v] = entry
      /\ \A x \in Held : x # v /\ file'.versions[x] = file.versions[x]
      /\ file'.versions = [x \in DOMAIN file'.versions |-> file'.versions[x]]
  BY <1>1 DEF Put, Held
<1>6. /\ DOMAIN origin' = Held \cup {v}
      /\ origin'[v] = export
      /\ \A x \in Held : origin'[x] = origin[x]
  BY <1>1, <1>2 DEF Put, Held, TypeOK
<1>7. TypeOK'
  <2>1. file' = [current |-> file'.current, resource_type |-> file'.resource_type,
                 versions |-> file'.versions]
    BY <1>1, <1>5
  <2>2. IsVersionMap(file'.versions)
    BY <1>2, <1>3, <1>5 DEF TypeOK, IsVersionMap, Held
  <2>3. export' \in Exports \cup Changes /\ today' \in Days /\ IsVersionMap(released')
    BY <1>1, <1>2 DEF TypeOK
  <2>4. \A x \in DOMAIN origin' : origin'[x] \in Exports \cup Changes
    BY <1>2, <1>6 DEF TypeOK, Held
  <2>5. QED
    BY <1>1, <1>4, <1>5, <1>6, <2>1, <2>2, <2>3, <2>4 DEF TypeOK, IsVersionMap
<1>8. OriginInv'
  BY <1>1, <1>2, <1>3, <1>5, <1>6 DEF OriginInv, Held
<1>9. WrittenInv'
  BY <1>1 DEF WrittenInv
<1>10. PinnedStays'
  <2> SUFFICES ASSUME NEW x \in DOMAIN released
               PROVE  /\ x \in DOMAIN file'.versions
                      /\ LoadVersionEntry(x)'.date = released[x].date
                      /\ LoadVersionEntry(x)'.columns = released[x].columns
    BY <1>1 DEF PinnedStays, Held
  <2>1. x \in Held /\ x \in Versions
    BY <1>2 DEF PinnedStays, TypeOK, IsVersionMap
  <2>2. LoadVersionEntry(x)' = LoadVersionEntry(x)
    BY <1>5, <2>1, PinReads, PinReadsNext
  <2>3. QED
    BY <1>2, <1>5, <2>1, <2>2 DEF PinnedStays
<1>11. QED
  BY <1>7, <1>8, <1>9, <1>10 DEF IInv

LEMMA AnnotatedIs ==
    ASSUME NEW e, e.date \in Days, e.columns \subseteq Columns
    PROVE  /\ Annotated(e) \in Entries
           /\ Annotated(e).date = e.date
           /\ Annotated(e).columns = e.columns
           /\ Annotated(e) = [date |-> e.date, columns |-> e.columns, annotated |-> TRUE]
  BY DEF Annotated, Entries

\* The annotator leaves a file that a run wrote as it is, and the date and the
\* columns of every entry.
LEMMA AnnotateStep ==
    ASSUME IInv, Annotate
    PROVE  IInv'
<1> DEFINE versions == [v \in Held |-> Annotated(file.versions[v])]
<1>1. /\ file' = [file EXCEPT !.resource_type = TRUE, !.versions = versions]
      /\ UNCHANGED <<export, today, released, origin, written>>
  BY DEF Annotate
<1>2. TypeOK /\ PinnedStays /\ OriginInv /\ WrittenInv
  BY DEF IInv
<1>3. file' = [current |-> file.current, resource_type |-> TRUE, versions |-> versions]
  BY <1>1, <1>2 DEF TypeOK
<1>4. DOMAIN versions = Held /\ versions = [v \in DOMAIN versions |-> versions[v]]
  OBVIOUS
<1>5. \A v \in Held : versions[v] = Annotated(file.versions[v])
  OBVIOUS
<1> HIDE DEF versions
<1>6. \A v \in Held : /\ v \in Versions /\ file.versions[v].date \in Days
                      /\ file.versions[v].columns \subseteq Columns
  BY <1>2, EntryFields DEF TypeOK, Held
<1>a. \A v \in Held :
          /\ v \in Versions
          /\ versions[v] \in Entries
          /\ versions[v].date = file.versions[v].date
          /\ versions[v].columns = file.versions[v].columns
          /\ versions[v] = [date |-> file.versions[v].date,
                            columns |-> file.versions[v].columns, annotated |-> TRUE]
  BY <1>5, <1>6, AnnotatedIs
<1>7. file'.current = file.current /\ file'.resource_type = TRUE /\ file'.versions = versions
  BY <1>3
<1>8. TypeOK'
  <2>1. file' = [current |-> file'.current, resource_type |-> file'.resource_type,
                 versions |-> file'.versions]
    BY <1>3, <1>7
  <2>2. IsVersionMap(file'.versions)
    BY <1>4, <1>7, <1>a DEF IsVersionMap
  <2>3. QED
    BY <1>1, <1>2, <1>4, <1>7, <2>1, <2>2 DEF TypeOK, Held, IsVersionMap
<1>9. OriginInv'
  BY <1>1, <1>2, <1>4, <1>7, <1>a DEF OriginInv, Held
<1>10. WrittenInv'
  <2> SUFFICES ASSUME written # None PROVE WrittenInv'
    BY <1>1 DEF WrittenInv
  <2> DEFINE v == written.version
             date == IF written.date # None THEN written.date ELSE file.versions[v].date
             entry == [date |-> date, columns |-> DeriveStore(origin[v]), annotated |-> TRUE]
  <2>1. Held = {v} /\ file = Rendered(v, written.date, origin[v])
    BY <1>2 DEF WrittenInv
  <2>2. file = [current |-> v, resource_type |-> TRUE, versions |-> [x \in {v} |-> entry]]
    BY <2>1, RenderedAs
  <2> HIDE DEF v, entry
  <2>3. file.versions[v] = entry /\ file.current = v
    BY <2>2
  <2>4. versions[v] = entry
    <3>1. versions[v] = [date |-> entry.date, columns |-> entry.columns, annotated |-> TRUE]
      BY <1>a, <2>1, <2>3
    <3>2. QED
      BY <3>1 DEF entry
  <2>5. versions = [x \in {v} |-> entry]
    BY <1>4, <2>1, <2>4
  <2>6. file' = file
    BY <1>3, <2>2, <2>3, <2>5
  <2>7. QED
    BY <1>1, <1>2, <2>6 DEF WrittenInv, Rendered, DateOf, Held
<1>11. PinnedStays'
  <2> SUFFICES ASSUME NEW x \in DOMAIN released
               PROVE  /\ x \in DOMAIN file'.versions
                      /\ LoadVersionEntry(x)'.date = released[x].date
                      /\ LoadVersionEntry(x)'.columns = released[x].columns
    BY <1>1 DEF PinnedStays, Held
  <2>1. x \in Held /\ x \in Versions
    BY <1>2 DEF PinnedStays, TypeOK, IsVersionMap
  <2>2. /\ LoadVersionEntry(x)'.date = LoadVersionEntry(x).date
        /\ LoadVersionEntry(x)'.columns = LoadVersionEntry(x).columns
    BY <1>7, <1>a, <2>1, PinReads, PinReadsNext
  <2>3. QED
    BY <1>2, <1>4, <1>7, <2>1, <2>2 DEF PinnedStays
<1>12. QED
  BY <1>8, <1>9, <1>10, <1>11 DEF IInv

LEMMA ReleaseStep ==
    ASSUME IInv, Release
    PROVE  IInv'
<1>1. /\ released' = [v \in Held |->
            IF v \in DOMAIN released THEN released[v] ELSE file.versions[v]]
      /\ UNCHANGED <<export, today, file, origin, written>>
  BY DEF Release
<1>2. TypeOK /\ PinnedStays /\ OriginInv /\ WrittenInv
  BY DEF IInv
<1>3. DOMAIN released' = Held /\ released' = [v \in DOMAIN released' |-> released'[v]]
  BY <1>1
<1>4. \A v \in Held : released'[v] =
            IF v \in DOMAIN released THEN released[v] ELSE file.versions[v]
  BY <1>1
<1>5. IsVersionMap(released')
  BY <1>2, <1>3, <1>4 DEF TypeOK, IsVersionMap, Held
<1>6. TypeOK'
  BY <1>1, <1>2, <1>5 DEF TypeOK, IsVersionMap
<1>7. OriginInv' /\ WrittenInv'
  BY <1>1, <1>2 DEF OriginInv, WrittenInv, Held, Rendered, DateOf
<1>8. PinnedStays'
  <2> SUFFICES ASSUME NEW x \in Held
               PROVE  /\ LoadVersionEntry(x).date = released'[x].date
                      /\ LoadVersionEntry(x).columns = released'[x].columns
    BY <1>1, <1>3 DEF PinnedStays, Held, LoadVersionEntry, Selected
  <2>1. x \in Versions
    BY <1>2 DEF TypeOK, IsVersionMap, Held
  <2>2. LoadVersionEntry(x) = file.versions[x]
    BY <2>1, PinReads
  <2>3. QED
    BY <1>2, <1>4, <2>2 DEF PinnedStays
<1>9. QED
  BY <1>6, <1>7, <1>8 DEF IInv

\* Only a file without a released version is deleted.
LEMMA DeleteStep ==
    ASSUME IInv, Delete
    PROVE  IInv'
<1>1. /\ file' = NoFile /\ origin' = <<>> /\ written' = None
      /\ UNCHANGED <<export, today, released>>
      /\ Held \cap DOMAIN released = {}
  BY DEF Delete
<1>2. TypeOK /\ PinnedStays
  BY DEF IInv
<1>3. DOMAIN released = {}
  BY <1>1, <1>2 DEF PinnedStays
<1>4. /\ file'.current = None /\ file'.resource_type = FALSE /\ file'.versions = <<>>
      /\ file' = [current |-> None, resource_type |-> FALSE, versions |-> <<>>]
  BY <1>1 DEF NoFile
<1>5. DOMAIN <<>> = {} /\ <<>> = [v \in DOMAIN <<>> |-> <<>>[v]]
  OBVIOUS
<1>6. IsVersionMap(<<>>)
  BY <1>5 DEF IsVersionMap
<1>7. TypeOK'
  <2>1. export' \in Exports \cup Changes /\ today' \in Days /\ IsVersionMap(released')
    BY <1>1, <1>2 DEF TypeOK
  <2>2. DOMAIN origin' = DOMAIN file'.versions /\ \A v \in DOMAIN origin' : FALSE
    BY <1>1, <1>4, <1>5
  <2>3. IsVersionMap(file'.versions)
    BY <1>4, <1>6
  <2>4. file' = [current |-> file'.current, resource_type |-> file'.resource_type,
                 versions |-> file'.versions]
    BY <1>4
  <2>5. QED
    BY <1>1, <1>4, <2>1, <2>2, <2>3, <2>4 DEF TypeOK, IsVersionMap
<1>8. OriginInv' /\ WrittenInv' /\ PinnedStays'
  BY <1>1, <1>3, <1>4, <1>5 DEF OriginInv, WrittenInv, PinnedStays, Held
<1>9. QED
  BY <1>7, <1>8 DEF IInv

\* A later day changes nothing of a file that a run wrote: its date is kept.
LEMMA OtherStep ==
    ASSUME IInv, \/ \E rows \in Changes : NewExport(rows)
                 \/ NextDay
                 \/ UNCHANGED vars
    PROVE  IInv'
<1>1. UNCHANGED <<file, released, origin, written>>
  BY DEF NewExport, NextDay, vars
<1>2. TypeOK /\ PinnedStays /\ OriginInv /\ WrittenInv
  BY DEF IInv
<1>3. export' \in Exports \cup Changes
  BY <1>2 DEF NewExport, NextDay, vars, TypeOK
<1>4. today' \in Days
  BY <1>2, ExportsAssumption DEF NewExport, NextDay, vars, TypeOK, Days
<1>5. TypeOK'
  BY <1>1, <1>2, <1>3, <1>4 DEF TypeOK, IsVersionMap
<1>6. OriginInv'
  BY <1>1, <1>2 DEF OriginInv, Held
<1>7. WrittenInv'
  <2> SUFFICES ASSUME written # None PROVE WrittenInv'
    BY <1>1 DEF WrittenInv
  <2> DEFINE v == written.version
  <2>1. Held = {v} /\ Held' = {v} /\ file = Rendered(v, written.date, origin[v])
    BY <1>1, <1>2 DEF WrittenInv, Held
  <2>2. Rendered(v, written.date, origin[v])' = Rendered(v, written.date, origin[v])
    BY <1>1, <2>1 DEF Rendered, DateOf
  <2>3. QED
    BY <1>1, <2>1, <2>2 DEF WrittenInv
<1>8. PinnedStays'
  BY <1>1, <1>2 DEF PinnedStays, Held, LoadVersionEntry, Selected
<1>9. QED
  BY <1>5, <1>6, <1>7, <1>8 DEF IInv

LEMMA StepIInv == IInv /\ [Next]_vars => IInv'
  BY GenerateStep, SpliceStep, AnnotateStep, ReleaseStep, DeleteStep, OtherStep DEF Next

\* The inductive invariant: each entry is what the export it came from derives
\* to, and a file a run wrote is what that run would write again.
THEOREM Inductive == Spec => []IInv
<1>1. Init => IInv
  BY InitIInv
<1>2. IInv /\ [Next]_vars => IInv'
  BY StepIInv
<1>3. QED
  BY <1>1, <1>2, PTL DEF Spec

-----------------------------------------------------------------------------
\* What it gives.

LEMMA OriginFits == IInv => RowsFit
<1> SUFFICES ASSUME IInv, NEW v \in Held, NEW k \in Keys, NEW i \in 1..Len(origin[v]),
                    k \in KeysOf(origin[v])
             PROVE  \E c \in Composed(file.versions[v].columns) :
                        c.name = k /\ (Holds(c, origin[v][i][k]) \/ PastRange(c, origin[v][i][k]))
  BY DEF RowsFit, HasColumn
<1>1. origin[v] \in Seq(Rows)
  BY ExportTyped DEF IInv, TypeOK, Held
<1>2. Derives(origin[v]) /\ file.versions[v].columns = DeriveStore(origin[v])
  BY DEF IInv, OriginInv
<1>3. \E c \in Composed(DeriveStore(origin[v])) :
          c.name = k /\ (Holds(c, origin[v][i][k]) \/ PastRange(c, origin[v][i][k]))
  BY <1>1, <1>2, StoreFits
<1>4. QED
  BY <1>2, <1>3

LEMMA OriginCreates == IInv => ColumnsCreate
<1> SUFFICES ASSUME IInv, NEW v \in Held, NEW c \in file.versions[v].columns
             PROVE  /\ Wraps(c)
                    /\ IsNullable(c) => ClickHouseType(c) \notin {"Array", "JSON"}
                    /\ c.use_case = "exact_match" => IndexOf(c) = "bloom_filter"
  BY DEF ColumnsCreate
<1>1. origin[v] \in Seq(Rows)
  BY ExportTyped DEF IInv, TypeOK, Held
<1>2. PICK k \in Keys : c = DeriveColumn(origin[v], k)
  BY DEF IInv, OriginInv, DeriveStore, KeysOf
<1>3. QED
  BY <1>1, <1>2, ColumnCreates

LEMMA WrittenReruns == IInv => RerunIsNoOp
<1> SUFFICES ASSUME IInv, written # None, export = origin[written.version],
                    NEW date \in {written.date, None}
             PROVE  /\ ~Refuses(written.version, date)
                    /\ ~Changed(written.version, date)
  BY DEF RerunIsNoOp
<1> DEFINE v == written.version
<1>1. Held = {v}
  BY DEF IInv, WrittenInv
<1>2. file = Rendered(v, date, export)
  <2>1. file = Rendered(v, written.date, export)
    BY DEF IInv, WrittenInv
  <2>2. CASE date = written.date
    BY <2>1, <2>2
  <2>3. CASE date = None /\ written.date # None
    <3>1. file.versions[v].date = written.date
      BY <1>1, <2>1, <2>3 DEF Rendered, DateOf
    <3>2. DateOf(v, date) = DateOf(v, written.date)
      BY <1>1, <2>3, <3>1 DEF DateOf
    <3>3. QED
      BY <2>1, <3>2 DEF Rendered
  <2>4. QED
    BY <2>2, <2>3
<1>3. Derives(export)
  BY <1>1 DEF IInv, OriginInv
<1>4. QED
  BY <1>1, <1>2, <1>3 DEF Refuses, Changed

\* Every value of the export a version came from, a missing one included, is held by a
\* column of its name that the header leaves in place, or past the range of that
\* column's type.
THEOREM RowsFitHolds == Spec => []RowsFit
  BY Inductive, OriginFits, PTL

\* The registry, the type wrapping and the index choice take every generated column.
THEOREM ColumnsCreateHolds == Spec => []ColumnsCreate
  BY Inductive, OriginCreates, PTL

\* A run repeated with its export and arguments, or without its date, changes
\* nothing, on any later day and after releases and annotations.
THEOREM RerunHolds == Spec => []RerunIsNoOp
  BY Inductive, WrittenReruns, PTL

\* What a pin reads of a released version never changes.
THEOREM PinnedHolds == Spec => []PinnedStays
<1>1. IInv => PinnedStays
  BY DEF IInv
<1>2. QED
  BY Inductive, <1>1, PTL

=============================================================================
