----------------------------- MODULE TableLife -----------------------------
(***************************************************************************)
(* A table from its definition to the last row that leaves it: releases    *)
(* edit the definition, a deployment moves between platforms and changes   *)
(* its default retention, a pass renders the table (TableRender) and       *)
(* creates, alters or leaves it, and ClickHouse stores its rows in parts   *)
(* that merge and expire.                                                  *)
(*                                                                         *)
(* The pass is dfe-engine's and the parts are ClickHouse's, both outside   *)
(* this repository.  What they do here is what manifest.yaml               *)
(* (additive) and Renderer._create_table (ttl_only_drop_parts) count on.   *)
(*                                                                         *)
(* Data.  A row is the day in each of its time columns.  Times before 1970 *)
(* are left out.                                                           *)
(***************************************************************************)
EXTENDS TableRender, FiniteSets

CONSTANTS
    Candidates,     \* the definitions releases carry, checked or not
    Defaults,       \* the values of the default_ttl_days setting
    GateDefault,    \* the one render_manifest renders with
    LoadColumn,     \* the time column that says when a row was inserted
    EventDays,      \* the days that the other time columns may hold
    MaxNow,         \* days run from 0 to MaxNow
    MaxRows         \* rows in the table at any time

ASSUME LifeAssumption ==
    /\ Candidates \subseteq Definitions
    /\ Defaults \subseteq Nat \cup {None}
    /\ GateDefault \in Nat \ {0}

VARIABLES
    release,    \* the definition that the running release carries
    platform,   \* the platform the deployment is on
    default,    \* its default retention in days, or None
    table,      \* the table that exists, or NoTable
    origin,     \* the definition and the default it was created with
    ledger,     \* the checksum schema_migrations holds for it
    now,        \* the day
    parts       \* the parts, each a set of rows

deployment == <<release, platform, default>>
vars == <<release, platform, default, table, origin, ledger, now, parts>>

NoTable == [engine |-> None]
NoOrigin == [definition |-> None]
Exists == table # NoTable
Stored == UNION parts

\* The columns that time rows, and the rows there can be.
TimeNames == UNION {d.ttl_columns \cup Partition(d) : d \in Candidates} \cup {LoadColumn}
Rows ==
    {row \in [TimeNames -> 0..MaxNow \cup EventDays] :
        /\ row[LoadColumn] \in 0..MaxNow
        /\ \A c \in TimeNames \ {LoadColumn} : row[c] \in EventDays}

\* scripts/render_manifest.py lets a definition ship.
Shipped == {d \in Candidates : Renders(d, GateDefault)}

Rendered == Render(release, platform, default)

-----------------------------------------------------------------------------
Init ==
    /\ release \in Shipped
    /\ platform \in Platforms
    /\ default \in Defaults
    /\ table = NoTable
    /\ origin = NoOrigin
    /\ ledger = NoTable
    /\ now = 0
    /\ parts = {}

\* The deployment changes between passes.
Release(d) == release' = d /\ UNCHANGED <<platform, default, table, origin, ledger, now, parts>>
Move(p) == platform' = p /\ UNCHANGED <<release, default, table, origin, ledger, now, parts>>
SetDefault(n) == default' = n /\ UNCHANGED <<release, platform, table, origin, ledger, now, parts>>

\* A pass over a definition that renders finds no table.
Create ==
    /\ ~Exists
    /\ Renders(release, default)
    /\ table' = Rendered
    /\ origin' = [definition |-> release, default |-> default]
    /\ ledger' = Checksum(Rendered)
    /\ UNCHANGED <<deployment, now, parts>>

\* Only columns are added.  A changed type, ORDER BY, PARTITION BY or TTL is drift.
Additive(t, r) ==
    /\ t.columns \subseteq r.columns
    /\ <<t.engine, t.key, t.partition, t.ttl_columns, t.ttl_days>>
         = <<r.engine, r.key, r.partition, r.ttl_columns, r.ttl_days>>

\* A pass finds another checksum than the ledger's.  Drift it refuses, an equal
\* checksum it passes over; either way nothing changes.
Alter ==
    /\ Exists
    /\ Renders(release, default)
    /\ ledger # Checksum(Rendered)
    /\ Additive(table, Rendered)
    /\ table' = Rendered
    /\ ledger' = Checksum(Rendered)
    /\ UNCHANGED <<deployment, origin, now, parts>>

Tick ==
    /\ now < MaxNow
    /\ now' = now + 1
    /\ UNCHANGED <<deployment, table, origin, ledger, parts>>

Insert(row) ==
    /\ Exists
    /\ table.replicated
    /\ row[LoadColumn] = now
    /\ row \notin Stored
    /\ Cardinality(Stored) < MaxRows
    /\ parts' = parts \cup {{row}}
    /\ UNCHANGED <<deployment, table, origin, ledger, now>>

SamePartition(p, q) ==
    \A a \in p, b \in q, c \in table.partition : a[c] = b[c]

Merge(p, q) ==
    /\ p # q
    /\ SamePartition(p, q)
    /\ parts' = (parts \ {p, q}) \cup {p \cup q}
    /\ UNCHANGED <<deployment, table, origin, ledger, now>>

Expired(row) == \E c \in table.ttl_columns : row[c] + table.ttl_days <= now

DropsParts == <<"ttl_only_drop_parts", 1>> \in table.settings

\* A part goes when all its rows have expired, or the rows that have go.
Clean(p) ==
    LET left == {row \in p : ~Expired(row)}
    IN /\ left # p
       /\ DropsParts => left = {}
       /\ parts' = (parts \ {p}) \cup (IF left = {} THEN {} ELSE {left})
       /\ UNCHANGED <<deployment, table, origin, ledger, now>>

Next ==
    \/ \E d \in Shipped : Release(d)
    \/ \E p \in Platforms : Move(p)
    \/ \E n \in Defaults : SetDefault(n)
    \/ Create
    \/ Alter
    \/ Tick
    \/ \E row \in Rows : Insert(row)
    \/ \E p, q \in parts : Merge(p, q)
    \/ \E p \in parts : Clean(p)

Spec == Init /\ [][Next]_vars

\* ClickHouse comes to every part in time, whichever row it is looked at from.
CleanRow(row) == \E p \in parts : row \in p /\ Clean(p)
Fairness == \A row \in Rows : WF_vars(CleanRow(row))
FairSpec == Spec /\ Fairness

-----------------------------------------------------------------------------
(***************************************************************************)
(* Properties.                                                             *)
(***************************************************************************)

\* What the manifest says of retention: the days a definition declares, else the
\* deployment's default for a table with TTL columns; none is for ever.
DeclaredDays ==
    LET d == origin.definition
    IN IF d.ttl_days # None THEN d.ttl_days
       ELSE IF origin.default = None THEN 0 ELSE origin.default

Due(row) ==
    /\ Exists
    /\ DeclaredDays # 0
    /\ \E c \in origin.definition.ttl_columns : row[c] + DeclaredDays <= now

\* No TTL column's name occurs in the name of another column of the partition.
NamesApart(d) ==
    \A c \in d.ttl_columns, e \in Partition(d) : <<c, e>> \in Inside => c = e

\* A row of its part holds it back.
Waits(row) == \E p \in parts : row \in p /\ \E other \in p : ~Due(other)

\* render.py 629-631: "a table whose TTL is not aligned to its partition would
\* silently retain data forever; those need the row-level delete instead": whatever
\* rows share its part, a row that is due leaves.  Only where one name occurs in
\* another does it wait, and then for no longer than the part has a row not due.
RowsExpire ==
    \A row \in Rows :
        row \in Stored /\ Due(row) ~>
            row \notin Stored \/ (~NamesApart(origin.definition) /\ Waits(row))

\* render.py _with_default_ttl: "a declared ttl_days always wins": no row leaves
\* before it is due, by the definition and the default its table was created with.
KeptAsDeclared == [][\A row \in Stored \ Stored' : Due(row)]_vars

\* What the renderer leaves to a definition's author: the columns named in a raw
\* ORDER BY or PARTITION BY, the types of TTL columns, and that a json column, which
\* the registry makes nullable, says not_null and is no sorting key.
Column(t, n) == {c \in t.columns : c.name = n}
Sortable(t, n) == \E c \in Column(t, n) : ~c.nullable /\ c.type # "json"
Timed(t, n) == \A c \in Column(t, n) : c.type \in {"timestamp", "date"} /\ ~c.nullable
BareJson(t) == \A c \in t.columns : c.type = "json" => ~c.nullable

WellWritten(t, d) ==
    /\ \A n \in d.order_by : Sortable(t, n)
    /\ \A n \in d.partition_by : Column(t, n) # {}
    /\ \A n \in d.ttl_columns : Timed(t, n)
    /\ \A c \in t.columns : c.name \in t.key => c.type # "json"
    /\ BareJson(t)

\* ClickHouse takes a CREATE TABLE.  The strictest the repository speaks of: 24.8
\* "rejects JSON inside Nullable" (common-header/minimal.yaml).
Accepts(t) ==
    /\ \A n \in t.key : Sortable(t, n)
    /\ \A n \in t.partition : Column(t, n) # {}
    /\ \A n \in t.ttl_columns : Column(t, n) # {} /\ Timed(t, n)
    /\ t.ttl_days # 0 <=> t.ttl_columns # {}
    /\ ~t.replicated => t.key \cup t.partition \cup t.ttl_columns = {}
    /\ BareJson(t)

\* A definition that shipped renders, for whatever platform and default retention
\* a deployment has, to a table ClickHouse takes, if its author did their part.
ShippedCreates ==
    WellWritten(Rendered, release) => Renders(release, default) /\ Accepts(Rendered)

\* A table but for what a platform alone sets.
Setting(t, n) == {s[2] : s \in {q \in t.settings : q[1] = n}}
SettingNames(t) == {s[1] : s \in t.settings}
SameTable(t, r) ==
    /\ <<t.columns, t.replicated>> = <<r.columns, r.replicated>>
    /\ Additive(t, r)
    /\ \A n \in (SettingNames(t) \cup SettingNames(r)) \ PlatformOnly :
           Setting(t, n) = Setting(r, n)

\* dfe_schemas/render.py: the ledger "can answer 'has this object changed' rather
\* than 'was it applied somewhere else'": the checksum it holds is the one a pass
\* computes exactly while the table is as rendered, the platform's settings aside.
LedgerAnswers ==
    Exists => (ledger = Checksum(Rendered) <=> SameTable(table, Rendered))

-----------------------------------------------------------------------------
\* For the proofs: the TTL in force is the one the table was created with, only a
\* table has rows, and the ledger holds the checksum of a table as it was rendered.
TableInv ==
    Exists => LET d == origin.definition
                  default0 == origin.default
                  keeps == ~Dataless(d) /\ HasTTL(d, default0)
              IN /\ table.ttl_columns = IF keeps THEN d.ttl_columns ELSE {}
                 /\ table.ttl_days = IF keeps THEN WithDefaultTTL(d, default0) ELSE 0

DeploymentInv == release \in Shipped /\ platform \in Platforms /\ default \in Defaults

StoredInv == ~Exists => parts = {}

LedgerInv ==
    Exists => /\ ledger = Checksum(table)
              /\ \E d \in Shipped, p \in Platforms, n \in Defaults : table = Render(d, p, n)

IInv == DeploymentInv /\ TableInv /\ StoredInv /\ LedgerInv
=============================================================================
