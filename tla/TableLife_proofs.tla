-------------------------- MODULE TableLife_proofs --------------------------
(***************************************************************************)
(* Proofs about TableLife: what a table was declared to keep it keeps,     *)
(* what ships is created, and the ledger's checksum tells a changed table. *)
(* RowsExpire is liveness and stays with TLC.                              *)
(***************************************************************************)
EXTENDS TableLife, TLAPS

\* A table that exists is none that does not.
LEMMA RenderedExists ==
    ASSUME NEW d, NEW p, NEW n
    PROVE  /\ Render(d, p, n) # NoTable
           /\ LET keeps == ~Dataless(d) /\ HasTTL(d, n)
              IN /\ Render(d, p, n).ttl_columns = IF keeps THEN d.ttl_columns ELSE {}
                 /\ Render(d, p, n).ttl_days = IF keeps THEN WithDefaultTTL(d, n) ELSE 0
  <1>1. CASE Dataless(d)
    BY <1>1 DEF Render, NoTable
  <1>2. CASE ~Dataless(d)
    BY <1>2 DEF Render, NoTable
  <1> QED BY <1>1, <1>2

\* The TTL in force is the one the table was created with: inductive.
THEOREM Inductive == Spec => []IInv
  <1>1. Init => IInv
    BY DEF Init, IInv, DeploymentInv, TableInv, StoredInv, LedgerInv, Exists
  <1>2. IInv /\ [Next]_vars => IInv'
    <2> SUFFICES ASSUME IInv, [Next]_vars PROVE IInv'
      OBVIOUS
    <2> USE DEF IInv
    <2>1. ASSUME NEW d \in Shipped, Release(d) PROVE IInv'
      BY <2>1 DEF Release, DeploymentInv, TableInv, StoredInv, LedgerInv, Exists
    <2>2. ASSUME NEW p \in Platforms, Move(p) PROVE IInv'
      BY <2>2 DEF Move, DeploymentInv, TableInv, StoredInv, LedgerInv, Exists
    <2>3. ASSUME NEW n \in Defaults, SetDefault(n) PROVE IInv'
      BY <2>3 DEF SetDefault, DeploymentInv, TableInv, StoredInv, LedgerInv, Exists
    <2>4. CASE Create
      <3>1. DeploymentInv'
        BY <2>4 DEF Create, DeploymentInv, deployment
      <3>2. TableInv'
        <4>1. origin' = [definition |-> release, default |-> default]
          BY <2>4 DEF Create
        <4>2. table' = Render(release, platform, default)
          BY <2>4 DEF Create, Rendered
        <4> QED BY <4>1, <4>2, RenderedExists DEF TableInv
      <3>3. StoredInv'
        BY <2>4, RenderedExists DEF Create, StoredInv, Exists, Rendered
      <3>4. LedgerInv'
        <4>1. table' = Render(release, platform, default) /\ ledger' = Checksum(table')
          BY <2>4 DEF Create, Rendered
        <4> QED BY <4>1 DEF LedgerInv, DeploymentInv, Shipped
      <3> QED BY <3>1, <3>2, <3>3, <3>4
    <2>5. CASE Alter
      <3>1. DeploymentInv'
        BY <2>5 DEF Alter, DeploymentInv, deployment
      <3>2. TableInv'
        <4>1. /\ table'.ttl_columns = table.ttl_columns
              /\ table'.ttl_days = table.ttl_days
          BY <2>5 DEF Alter, Additive
        <4>2. origin' = origin /\ Exists
          BY <2>5 DEF Alter
        <4> QED BY <4>1, <4>2 DEF TableInv
      <3>3. StoredInv'
        BY <2>5, RenderedExists DEF Alter, StoredInv, Exists, Rendered
      <3>4. LedgerInv'
        <4>1. table' = Render(release, platform, default) /\ ledger' = Checksum(table')
          BY <2>5 DEF Alter, Rendered
        <4> QED BY <4>1 DEF LedgerInv, DeploymentInv, Shipped
      <3> QED BY <3>1, <3>2, <3>3, <3>4
    <2>6. CASE Tick
      BY <2>6 DEF Tick, DeploymentInv, TableInv, StoredInv, LedgerInv, Exists, deployment
    <2>7. ASSUME NEW row \in Rows, Insert(row) PROVE IInv'
      BY <2>7 DEF Insert, DeploymentInv, TableInv, StoredInv, LedgerInv, Exists, deployment
    <2>8. ASSUME NEW p \in parts, NEW q \in parts, Merge(p, q) PROVE IInv'
      BY <2>8 DEF Merge, DeploymentInv, TableInv, StoredInv, LedgerInv, Exists, deployment
    <2>9. ASSUME NEW p \in parts, Clean(p) PROVE IInv'
      BY <2>9 DEF Clean, DeploymentInv, TableInv, StoredInv, LedgerInv, Exists, deployment
    <2>10. CASE UNCHANGED vars
      BY <2>10 DEF vars, DeploymentInv, TableInv, StoredInv, LedgerInv, Exists
    <2> QED
      BY <2>1, <2>2, <2>3, <2>4, <2>5, <2>6, <2>7, <2>8, <2>9, <2>10 DEF Next
  <1> QED BY <1>1, <1>2, PTL DEF Spec

\* A row the server holds to be expired is due by the definition.
LEMMA ExpiredIsDue ==
    ASSUME IInv, NEW row, Exists, Expired(row)
    PROVE  Due(row)
  <1> DEFINE d == origin.definition
  <1> DEFINE days == WithDefaultTTL(d, origin.default)
  <1>1. PICK c \in table.ttl_columns : row[c] + table.ttl_days <= now
    BY DEF Expired
  <1>2. /\ ~Dataless(d) /\ HasTTL(d, origin.default)
        /\ table.ttl_columns = d.ttl_columns
        /\ table.ttl_days = days
    BY <1>1 DEF IInv, TableInv
  <1>3. d.ttl_columns # {}
    BY <1>1, <1>2
  <1>4. days \notin {None, 0}
    BY <1>2 DEF HasTTL
  <1>5. days = DeclaredDays
    BY <1>3, <1>4 DEF WithDefaultTTL, DeclaredDays
  <1> QED BY <1>1, <1>2, <1>4, <1>5 DEF Due

\* No row leaves a table before it is due, for every set of definitions, defaults
\* and days.
THEOREM KeptAsDeclaredHolds == Spec => KeptAsDeclared
  <1>1. IInv /\ [Next]_vars => [\A row \in Stored \ Stored' : Due(row)]_vars
    <2> SUFFICES ASSUME IInv, Next, NEW row \in Stored \ Stored' PROVE Due(row)
      BY DEF vars, Stored
    <2> PICK p0 \in parts : row \in p0
      BY DEF Stored
    <2> Exists
      BY DEF IInv, StoredInv
    <2>1. ASSUME UNCHANGED parts PROVE FALSE
      BY <2>1 DEF Stored
    <2>2. ASSUME NEW r \in Rows, Insert(r) PROVE FALSE
      BY <2>2 DEF Insert, Stored
    <2>3. ASSUME NEW p \in parts, NEW q \in parts, Merge(p, q) PROVE FALSE
      <3>1. parts' = (parts \ {p, q}) \cup {p \cup q}
        BY <2>3 DEF Merge
      <3>2. CASE p0 \in {p, q}
        <4>1. p \cup q \in parts' /\ row \in p \cup q
          BY <3>1, <3>2
        <4> QED BY <4>1 DEF Stored
      <3>3. CASE p0 \notin {p, q}
        <4>1. p0 \in parts'
          BY <3>1, <3>3
        <4> QED BY <4>1 DEF Stored
      <3> QED BY <3>2, <3>3
    <2>4. ASSUME NEW p \in parts, Clean(p) PROVE Due(row)
      <3> DEFINE left == {x \in p : ~Expired(x)}
      <3>1. parts' = (parts \ {p}) \cup (IF left = {} THEN {} ELSE {left})
        BY <2>4 DEF Clean
      <3>2. p0 = p
        BY <3>1 DEF Stored
      <3>3. row \notin left
        BY <3>1 DEF Stored
      <3> QED BY <3>2, <3>3, ExpiredIsDue
    <2>5. ASSUME NEW d \in Shipped, Release(d) PROVE FALSE
      BY <2>5, <2>1 DEF Release
    <2>6. ASSUME NEW p \in Platforms, Move(p) PROVE FALSE
      BY <2>6, <2>1 DEF Move
    <2>7. ASSUME NEW n \in Defaults, SetDefault(n) PROVE FALSE
      BY <2>7, <2>1 DEF SetDefault
    <2>8. CASE Create \/ Alter \/ Tick
      BY <2>8, <2>1 DEF Create, Alter, Tick
    <2> QED
      BY <2>2, <2>3, <2>4, <2>5, <2>6, <2>7, <2>8 DEF Next
  <1> QED BY <1>1, Inductive, PTL DEF Spec, KeptAsDeclared

\* A name among the columns is among the columns of the statement.
LEMMA ResolvedHasNames ==
    ASSUME NEW columns, NEW n \in NamesOf(columns)
    PROVE  \E c \in Resolved(columns) : c.name = n
  <1> DEFINE resolved(c) == [name |-> c.name, type |-> c.type, nullable |-> Nullable(c)]
  <1>1. PICK i \in DOMAIN columns : n = columns[i].name
    BY DEF NamesOf
  <1>2. resolved(columns[i]) \in Resolved(columns)
    BY DEF Resolved
  <1>3. resolved(columns[i]).name = n
    BY <1>1
  <1> QED BY <1>2, <1>3

\* What ships renders whatever default the deployment has.
LEMMA RendersForEvery ==
    ASSUME NEW d \in Shipped, NEW n \in Nat \cup {None}
    PROVE  Renders(d, n)
  <1>1. Renders(d, GateDefault)
    BY DEF Shipped
  <1>2. CASE Dataless(d)
    BY <1>1, <1>2 DEF Renders
  <1>3. CASE ~Dataless(d)
    <2>1. ~NullableKey(d) /\ ~BadTTL(d, GateDefault)
      BY <1>1, <1>3 DEF Renders
    <2>2. HasTTL(d, n) => d.ttl_columns = {} \/ HasTTL(d, GateDefault)
      BY LifeAssumption, RenderAssumption DEF HasTTL, WithDefaultTTL
    <2>3. HasTTL(d, n) /\ d.ttl_columns = {} => HasTTL(d, GateDefault)
      BY DEF HasTTL, WithDefaultTTL
    <2>4. ~BadTTL(d, n)
      BY <2>1, <2>2, <2>3 DEF BadTTL
    <2> QED BY <1>3, <2>1, <2>4 DEF Renders
  <1> QED BY <1>2, <1>3

\* A definition that shipped renders everywhere to a table ClickHouse takes, if
\* its author did their part, for every set of definitions and every deployment.
THEOREM ShippedCreatesHolds == Spec => []ShippedCreates
  <1>1. IInv => ShippedCreates
    <2> SUFFICES ASSUME IInv, WellWritten(Rendered, release)
                 PROVE  Renders(release, default) /\ Accepts(Rendered)
      BY DEF ShippedCreates
    <2> DEFINE cs == ColumnsOf(release)
    <2>1. Renders(release, default)
      BY RendersForEvery, LifeAssumption DEF IInv, DeploymentInv
    <2>2. CASE Dataless(release)
      BY <2>1, <2>2 DEF Accepts, Rendered, Render, WellWritten
    <2>3. CASE ~Dataless(release)
      <3>1. /\ Rendered.replicated
            /\ Rendered.columns = Resolved(cs)
            /\ Rendered.key = SortingKey(release)
            /\ Rendered.partition = Partition(release)
        BY <2>3 DEF Rendered, Render
      <3>2. /\ Rendered.ttl_columns = IF HasTTL(release, default)
                                      THEN release.ttl_columns ELSE {}
            /\ Rendered.ttl_days = IF HasTTL(release, default)
                                   THEN WithDefaultTTL(release, default) ELSE 0
        BY <2>3 DEF Rendered, Render
      <3>3. ~NullableKey(release) /\ ~BadTTL(release, default)
        BY <2>1, <2>3 DEF Renders
      <3>4. ASSUME NEW n \in Rendered.key PROVE Sortable(Rendered, n)
        <4>1. CASE release.order_by # {}
          BY <3>1, <3>4, <4>1 DEF SortingKey, WellWritten
        <4>2. CASE release.order_by = {}
          <5>1. PICK c \in KeyColumns(release) : n = c.name
            BY <3>1, <3>4, <4>2 DEF SortingKey
          <5>2. ~Nullable(c)
            BY <3>3, <4>2 DEF NullableKey
          <5>3. [name |-> c.name, type |-> c.type, nullable |-> Nullable(c)]
                  \in Rendered.columns
            BY <3>1 DEF KeyColumns, Resolved
          <5>4. c.type # "json"
            BY <3>4, <5>1, <5>3 DEF WellWritten
          <5> QED BY <5>1, <5>2, <5>3, <5>4 DEF Sortable, Column
        <4> QED BY <4>1, <4>2
      <3>5. ASSUME NEW n \in Rendered.partition PROVE Column(Rendered, n) # {}
        <4>1. CASE release.partition_by # {}
          BY <3>1, <3>5, <4>1 DEF Partition, WellWritten
        <4>2. CASE release.partition_by = {}
          BY <3>1, <3>5, <4>2, ResolvedHasNames DEF Partition, Column
        <4> QED BY <4>1, <4>2
      <3>6. ASSUME NEW n \in Rendered.ttl_columns
            PROVE  Column(Rendered, n) # {} /\ Timed(Rendered, n)
        <4>1. HasTTL(release, default) /\ n \in release.ttl_columns
          BY <3>2, <3>6
        <4>2. n \in NamesOf(cs)
          BY <3>3, <4>1 DEF BadTTL
        <4> QED BY <3>1, <4>1, <4>2, ResolvedHasNames DEF Column, WellWritten
      <3>7. Rendered.ttl_days # 0 <=> Rendered.ttl_columns # {}
        BY <3>2, <3>3 DEF HasTTL, BadTTL
      <3> QED BY <2>1, <3>1, <3>4, <3>5, <3>6, <3>7 DEF Accepts, WellWritten
    <2> QED BY <2>1, <2>2, <2>3
  <1> QED BY <1>1, Inductive, PTL

\* A setting is a name and a value.
ArePairs(settings) == \A s \in settings : s = <<s[1], s[2]>>

LEMMA SettingsArePairs ==
    ASSUME NEW d, NEW p \in Platforms, NEW n
    PROVE  ArePairs(Render(d, p, n).settings)
  <1>1. ArePairs(JsonSettings) /\ ArePairs(PlatformSettings[p])
    <2>1. JsonSettings \subseteq STRING \X Nat /\ PlatformSettings[p] \subseteq STRING \X Nat
      BY RenderAssumption DEF Pairs
    <2> QED BY <2>1 DEF ArePairs
  <1>2. ArePairs(JsonTableSettings(p))
    BY <1>1 DEF JsonTableSettings, ArePairs
  <1>3. ArePairs({FirstSetting})
    BY DEF FirstSetting, ArePairs
  <1>4. ASSUME NEW v PROVE ArePairs({<<"ttl_only_drop_parts", v>>})
    BY DEF ArePairs
  <1>5. ArePairs(Settings(d, p, n))
    BY <1>2, <1>3, <1>4 DEF Settings, ArePairs
  <1>6. ArePairs({})
    BY DEF ArePairs
  <1>7. Render(d, p, n).settings \in {{}, Settings(d, p, n)}
    BY DEF Render
  <1> QED BY <1>5, <1>6, <1>7

\* A table has the first setting exactly if it has rows.
LEMMA FirstOfEach ==
    ASSUME NEW d, NEW p, NEW n
    PROVE  LET t == Render(d, p, n)
           IN /\ t.engine = d.engine
              /\ t.replicated = (d.engine # "Merge")
              /\ FirstSetting \in t.settings <=> d.engine # "Merge"
  <1>1. CASE Dataless(d)
    BY <1>1 DEF Render, Dataless
  <1>2. CASE ~Dataless(d)
    BY <1>2 DEF Render, Dataless, Settings
  <1> QED BY <1>1, <1>2

\* Settings that agree by name outside the platforms' are the same settings.
LEMMA KeptAgree ==
    ASSUME NEW t, NEW r,
           ArePairs(t.settings), ArePairs(r.settings),
           \A n \in (SettingNames(t) \cup SettingNames(r)) \ PlatformOnly :
               Setting(t, n) = Setting(r, n)
    PROVE  \A s \in t.settings : s[1] \notin PlatformOnly => s \in r.settings
  <1> SUFFICES ASSUME NEW s \in t.settings, s[1] \notin PlatformOnly PROVE s \in r.settings
    OBVIOUS
  <1>1. s[1] \in SettingNames(t)
    BY DEF SettingNames
  <1>2. s[2] \in Setting(t, s[1])
    BY DEF Setting
  <1>3. s[2] \in Setting(r, s[1])
    BY <1>1, <1>2
  <1>4. PICK q \in r.settings : q[1] = s[1] /\ q[2] = s[2]
    BY <1>3 DEF Setting
  <1>5. q = s
    BY <1>4 DEF ArePairs
  <1> QED BY <1>5

\* What the checksum keeps of a table's settings.
Kept(t) == {s \in t.settings : s = FirstSetting \/ s[1] \notin PlatformOnly}

LEMMA ChecksumOf ==
    ASSUME NEW d, NEW p, NEW n
    PROVE  LET t == Render(d, p, n)
           IN Checksum(t) = [engine |-> t.engine, replicated |-> FALSE, columns |-> t.columns,
                             key |-> t.key, partition |-> t.partition,
                             ttl_columns |-> t.ttl_columns, ttl_days |-> t.ttl_days,
                             settings |-> Kept(t)]
  <1> DEFINE t == Render(d, p, n)
  <1>1. t = [engine |-> t.engine, replicated |-> t.replicated, columns |-> t.columns,
             key |-> t.key, partition |-> t.partition, ttl_columns |-> t.ttl_columns,
             ttl_days |-> t.ttl_days, settings |-> t.settings]
    <2>1. CASE Dataless(d)
      BY <2>1 DEF Render
    <2>2. CASE ~Dataless(d)
      BY <2>2 DEF Render
    <2> QED BY <2>1, <2>2
  <1> HIDE DEF t
  <1>2. Checksum(t) = [[t EXCEPT !.replicated = FALSE] EXCEPT !.settings = Kept(t)]
    BY <1>1 DEF Checksum, Kept
  <1> QED BY <1>1, <1>2 DEF t

\* Two tables have one checksum exactly if they are the same table but for what a
\* platform alone sets.
LEMMA ChecksumAnswers ==
    ASSUME NEW d \in Definitions, NEW e \in Definitions,
           NEW p \in Platforms, NEW q \in Platforms, NEW m, NEW n
    PROVE  Checksum(Render(d, p, m)) = Checksum(Render(e, q, n))
             <=> SameTable(Render(d, p, m), Render(e, q, n))
  <1> DEFINE t == Render(d, p, m)
  <1> DEFINE r == Render(e, q, n)
  <1> HIDE DEF t, r
  <1>1. ArePairs(t.settings) /\ ArePairs(r.settings)
    BY SettingsArePairs DEF t, r
  <1>2. /\ t.replicated = (t.engine # "Merge")
        /\ FirstSetting \in t.settings <=> t.engine # "Merge"
        /\ r.replicated = (r.engine # "Merge")
        /\ FirstSetting \in r.settings <=> r.engine # "Merge"
    BY FirstOfEach DEF t, r
  <1>3. Checksum(t) = Checksum(r)
          <=> /\ <<t.engine, t.columns, t.key>> = <<r.engine, r.columns, r.key>>
              /\ t.partition = r.partition
              /\ <<t.ttl_columns, t.ttl_days>> = <<r.ttl_columns, r.ttl_days>>
              /\ Kept(t) = Kept(r)
    <2> DEFINE c(x) == [engine |-> x.engine, replicated |-> FALSE, columns |-> x.columns,
                        key |-> x.key, partition |-> x.partition,
                        ttl_columns |-> x.ttl_columns, ttl_days |-> x.ttl_days,
                        settings |-> Kept(x)]
    <2>1. Checksum(t) = c(t) /\ Checksum(r) = c(r)
      BY ChecksumOf DEF t, r
    <2>2. c(t) = c(r) => /\ <<t.engine, t.columns, t.key>> = <<r.engine, r.columns, r.key>>
                         /\ t.partition = r.partition
                         /\ <<t.ttl_columns, t.ttl_days>> = <<r.ttl_columns, r.ttl_days>>
                         /\ Kept(t) = Kept(r)
      <3> SUFFICES ASSUME c(t) = c(r) PROVE
              /\ c(t).engine = c(r).engine /\ c(t).columns = c(r).columns
              /\ c(t).key = c(r).key /\ c(t).partition = c(r).partition
              /\ c(t).ttl_columns = c(r).ttl_columns /\ c(t).ttl_days = c(r).ttl_days
              /\ c(t).settings = c(r).settings
        OBVIOUS
      <3> HIDE DEF c
      <3> QED OBVIOUS
    <2>3. ASSUME /\ <<t.engine, t.columns, t.key>> = <<r.engine, r.columns, r.key>>
                 /\ t.partition = r.partition
                 /\ <<t.ttl_columns, t.ttl_days>> = <<r.ttl_columns, r.ttl_days>>
                 /\ Kept(t) = Kept(r)
          PROVE  c(t) = c(r)
      BY <2>3
    <2> QED BY <2>1, <2>2, <2>3
  <1>4. ASSUME Kept(t) = Kept(r), NEW k, k \notin PlatformOnly
        PROVE  Setting(t, k) = Setting(r, k)
    <2>1. \A s : s \in t.settings /\ s[1] = k <=> s \in r.settings /\ s[1] = k
      BY <1>4 DEF Kept
    <2> QED BY <2>1 DEF Setting
  <1>5. ASSUME t.engine = r.engine,
               \A k \in (SettingNames(t) \cup SettingNames(r)) \ PlatformOnly :
                   Setting(t, k) = Setting(r, k)
        PROVE  Kept(t) = Kept(r)
    <2>1. \A s \in t.settings : s[1] \notin PlatformOnly => s \in r.settings
      BY <1>1, <1>5, KeptAgree
    <2>2. \A s \in r.settings : s[1] \notin PlatformOnly => s \in t.settings
      <3>1. \A k \in (SettingNames(r) \cup SettingNames(t)) \ PlatformOnly :
                Setting(r, k) = Setting(t, k)
        BY <1>5
      <3> QED BY <1>1, <3>1, KeptAgree
    <2> QED BY <1>2, <1>5, <2>1, <2>2 DEF Kept
  <1>6. Checksum(t) = Checksum(r) => SameTable(t, r)
    BY <1>2, <1>3, <1>4 DEF SameTable, Additive
  <1>7. SameTable(t, r) => Checksum(t) = Checksum(r)
    BY <1>3, <1>5 DEF SameTable, Additive
  <1> QED BY <1>6, <1>7 DEF t, r

\* The checksum the ledger holds is the one a pass computes exactly while the table
\* is as rendered, the platform's settings aside, for every set of definitions,
\* settings, defaults and moves.
THEOREM LedgerAnswersHolds == Spec => []LedgerAnswers
  <1>1. IInv => LedgerAnswers
    <2> SUFFICES ASSUME IInv, Exists
                 PROVE  ledger = Checksum(Rendered) <=> SameTable(table, Rendered)
      BY DEF LedgerAnswers
    <2>1. ledger = Checksum(table)
      BY DEF IInv, LedgerInv
    <2>2. PICK d \in Shipped, p \in Platforms, n \in Defaults : table = Render(d, p, n)
      BY DEF IInv, LedgerInv
    <2>3. d \in Definitions /\ release \in Definitions /\ platform \in Platforms
      BY LifeAssumption DEF IInv, DeploymentInv, Shipped
    <2>4. Checksum(Render(d, p, n)) = Checksum(Render(release, platform, default))
            <=> SameTable(Render(d, p, n), Render(release, platform, default))
      BY <2>3, ChecksumAnswers
    <2> QED BY <2>1, <2>2, <2>4 DEF Rendered
  <1> QED BY <1>1, Inductive, PTL
=============================================================================
