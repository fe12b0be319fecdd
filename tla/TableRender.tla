---------------------------- MODULE TableRender ----------------------------
(***************************************************************************)
(* What the renderer makes of a table's definition: the columns that       *)
(* dfe_schemas/loader.py composes and types, the clauses and settings that *)
(* Renderer._render_table writes, what it refuses, and the checksum.       *)
(*                                                                         *)
(* Data.  A column's name is a constant, and Inside says which names occur *)
(* in the text of which: the renderer looks for one in a partition         *)
(* expression.  An expression is the set of columns it names.  A table's   *)
(* name, codecs, comments, projection and indexes are left out, and so are *)
(* the GRANT SELECT that a table with reader_grant renders beside its      *)
(* CREATE TABLE, which the checksum covers too, and the order of columns,  *)
(* of keys and of settings, which nothing here reads but that              *)
(* index_granularity comes first.                                          *)
(***************************************************************************)
EXTENDS Naturals, Sequences

CONSTANTS
    Names,              \* names of columns
    Inside,             \* <<a, b>>: the text of a occurs in that of b
    Header,             \* the columns of the common header
    JsonSettings,       \* JSON_TABLE_SETTINGS, a set of <<name, value>>
    PlatformSettings,   \* json_table_settings of sql/platform.sql
    None                \* what a definition or a deployment leaves out

Platforms == {"cloud", "self_hosted"}
Types == {"string", "timestamp", "date", "json"}

\* exact: the column names a ClickHouse type, not a primitive of the registry.
Columns == [name : Names, type : Types, exact : BOOLEAN,
            attribute : SUBSET {"nullable", "not_null"}, order : Nat \cup {None}]

Definitions ==
    [engine : {"MergeTree", "Merge"}, header : BOOLEAN, exclude : SUBSET Names,
     extra : Seq(Columns), ttl_days : Nat \cup {None}, ttl_columns : SUBSET Names,
     partition_by : SUBSET Names, partition_column : Names, order_by : SUBSET Names]

Pairs == SUBSET (STRING \X Nat)

ASSUME RenderAssumption ==
    /\ Inside \subseteq Names \X Names
    /\ \A n \in Names : <<n, n>> \in Inside
    /\ Header \in Seq(Columns)
    /\ JsonSettings \in Pairs
    /\ PlatformSettings \in [Platforms -> Pairs]
    /\ None \notin Nat

-----------------------------------------------------------------------------
\* Columns.

NamesOf(columns) == {columns[i].name : i \in DOMAIN columns}

\* The header first, less what the profile excludes; it wins over the rest.
Compose(header, extra, exclude) ==
    LET kept == SelectSeq(header, LAMBDA c : c.name \notin exclude)
    IN kept \o SelectSeq(extra, LAMBDA c : c.name \notin NamesOf(kept))

ColumnsOf(d) == IF d.header THEN Compose(Header, d.extra, d.exclude) ELSE d.extra

\* registries/types.yaml: which primitives are nullable unless a column objects.
RegistryNullable == {"string", "date", "json"}

Nullable(c) ==
    /\ "not_null" \notin c.attribute
    /\ "nullable" \in c.attribute \/ (~c.exact /\ c.type \in RegistryNullable)

Resolved(columns) ==
    {[name |-> c.name, type |-> c.type, nullable |-> Nullable(c)] :
        c \in {columns[i] : i \in DOMAIN columns}}

-----------------------------------------------------------------------------
\* Clauses.

Dataless(d) == d.engine = "Merge"

\* Slip: the deployment's retention over the one a definition declares.
DefaultFirst(d, default) ==
    IF default = None \/ d.ttl_columns = {} THEN d.ttl_days ELSE default

WithDefaultTTL(d, default) ==
    IF default = None \/ d.ttl_days # None \/ d.ttl_columns = {}
        THEN d.ttl_days ELSE default

HasTTL(d, default) == WithDefaultTTL(d, default) \notin {None, 0}

Partition(d) ==
    IF d.partition_by # {} THEN d.partition_by
    ELSE {d.partition_column} \cap NamesOf(ColumnsOf(d))

KeyColumns(d) ==
    {c \in {ColumnsOf(d)[i] : i \in DOMAIN ColumnsOf(d)} : c.order # None}

SortingKey(d) == IF d.order_by # {} THEN d.order_by ELSE {c.name : c \in KeyColumns(d)}

\* Slip: parts drop whole when one of the TTL columns agrees with the partition.
SomeAligned(d) == \E c \in d.ttl_columns, e \in Partition(d) : <<c, e>> \in Inside

\* Every TTL column's name occurs in the text of the partition expression.
Aligned(d) ==
    /\ Partition(d) # {}
    /\ \A c \in d.ttl_columns : \E e \in Partition(d) : <<c, e>> \in Inside

\* json_table_settings: a platform's own setting wins.
JsonTableSettings(platform) ==
    LET own == PlatformSettings[platform]
    IN own \cup {s \in JsonSettings : \A q \in own : q[1] # s[1]}

FirstSetting == <<"index_granularity", 2048>>

Settings(d, platform, default) ==
    {FirstSetting}
    \cup (IF HasTTL(d, default)
          THEN {<<"ttl_only_drop_parts", IF Aligned(d) THEN 1 ELSE 0>>} ELSE {})
    \cup (IF \E c \in Resolved(ColumnsOf(d)) : c.type = "json"
          THEN JsonTableSettings(platform) ELSE {})

-----------------------------------------------------------------------------
\* What the renderer refuses.

\* A clause only a MergeTree takes, over an engine that stores no rows.
StrayClauses(d) ==
    /\ Dataless(d)
    /\ \/ d.ttl_days \notin {None, 0}
       \/ d.ttl_columns # {} \/ d.partition_by # {} \/ d.order_by # {}

NullableKey(d) == d.order_by = {} /\ \E c \in KeyColumns(d) : Nullable(c)

\* Slip: a TTL over whatever columns the definition names.
NoTTLColumns(d, default) == HasTTL(d, default) /\ d.ttl_columns = {}

BadTTL(d, default) ==
    /\ HasTTL(d, default)
    /\ d.ttl_columns = {} \/ ~(d.ttl_columns \subseteq NamesOf(ColumnsOf(d)))

Renders(d, default) ==
    IF Dataless(d) THEN ~StrayClauses(d) ELSE ~NullableKey(d) /\ ~BadTTL(d, default)

-----------------------------------------------------------------------------
\* The statement, and its checksum.

Render(d, platform, default) ==
    IF Dataless(d)
    THEN [engine |-> d.engine, replicated |-> FALSE, columns |-> Resolved(ColumnsOf(d)),
          key |-> {}, partition |-> {}, ttl_columns |-> {}, ttl_days |-> 0,
          settings |-> {}]
    ELSE [engine |-> d.engine, replicated |-> TRUE, columns |-> Resolved(ColumnsOf(d)),
          key |-> SortingKey(d), partition |-> Partition(d),
          ttl_columns |-> IF HasTTL(d, default) THEN d.ttl_columns ELSE {},
          ttl_days |-> IF HasTTL(d, default) THEN WithDefaultTTL(d, default) ELSE 0,
          settings |-> Settings(d, platform, default)]

PlatformOnly ==
    UNION {{s[1] : s \in PlatformSettings[p]} : p \in Platforms}

\* Slip: the platform's settings left in.
RawChecksum(t) == [t EXCEPT !.replicated = FALSE]

\* The Replicated prefix and the platform's settings out.  A setting goes with
\* the comma before it, so the first one stays.
Checksum(t) ==
    [t EXCEPT !.replicated = FALSE,
              !.settings = {s \in @ : s = FirstSetting \/ s[1] \notin PlatformOnly}]
=============================================================================
