# dfe-schemas: a TLA+ model of what the schemas promise

`dfe-schemas` is the one place where a DFE deployment's ClickHouse databases,
tables, views, materialised views and roles, and its Kafka topics, are
defined. It holds no running service. Its Python package reads the definitions
(`dfe_schemas/loader.py`, `manifest.py`, `topics.py`) and renders them to SQL
(`render.py`, `clickhouse.py`); `dfe-engine`, in another repository, applies the
SQL at boot. What runs after that is the SQL itself, inside ClickHouse: four
refreshable materialised views turn counters into the usage numbers a deployment
is licensed on.

So the behaviour worth verifying is in three places:

* **the SQL that runs for years**: the usage rollup, whose views refresh, stall,
  fail, overlap and recompute one another's rows;
* **the scripts that are applied release after release**, one statement at a
  time with no transaction, by an applier that may die between any two, on a
  server that someone else also changes;
* **the schema files that scripts, authors and releases write in turns**: what is
  generated from a provider's rows must hold those rows, and what is released must
  stay what it was.

This directory models all three, model-checks them with TLC and proves the main
properties with TLAPS for every value of the constants.

## Inventory

| Component | State | Operations | Hard part | Model |
|---|---|---|---|---|
| usage rollup (`views/usage_*_recent.sql`, `views/usage_daily_rollup.sql`, `tables/usage/*.yaml`) | `usage_minute`, `usage_daily`, refreshes under way | four scheduled refreshes, TTL drops, recompute by hand | windows derived from what was written; refreshes that read early and insert late; stalls; partitions that expire; versions that replace | `UsageRollup`, `UsageLedger` |
| ingest counters (`views/usage_minute_ingest.sql`) | `otel_metrics_sum`, ingest rows | increase of a sample over the one before it | late, reordered and repeated samples, counter resets, a bounded read | `IngestCounter` |
| role catalogue (`roles/clickhouse.yaml`, `render.py` 860-964) | a role, its profile, quota and grants on the server | a rendered script per role | scripts half run, edited entries | `RoleApply` |
| apply manifest (`manifest.yaml`, `manifest.py`, `scripts/render_manifest.py`) | the objects on the server, the position of a pass | checks, a pass in order | crash, skip, another release over what is left | `ManifestApply` |
| ClickHouse platform (`clickhouse.py`, `deploy_defaults.py`, `sql/platform.sql`) | resolved platform, live settings | probe, replication check, CREATE DATABASE, realign | moves between Cloud and self-hosted, releases with other settings, failed probes, hand edits, boots that die | `Platform` |
| table renderer (`render.py` 245-260, 356-391, 502-786) | none; the table it describes, its ledger row, its parts | definition to statement and checksum; create, alter, insert, merge, expire | defaults and edits whose effect shows days later; decisions that must agree across platforms | `TableRender`, `TableLife` |
| authoring scripts (`scripts/generate_meta_schemas.py`, `annotate_meta_schemas.py`) | a schema file: its current, its version entries | derive from an export, refuse, write; annotate; by hand: splice, release, delete | typing rules over mixed rows; two scripts and an author over one file; released versions | `MetaSchema`, `MetaStore` |
| schema loader (`loader.py`) | none | versions, composition, types | what one declaration does to a type, an index and a key | composition and nullability in `TableRender`; versions, cardinality and wrapping in `MetaSchema`, `MetaStore` |
| renderer, the rest (search indexes, views' text, quoting) | none | text | none between calls | not modelled |
| Kafka topics (`topics.py`) | none | a topic's spec | one minimum | not modelled |
| SQL variants (`variants.py`), compatibility profiles (`compat.py`) | none | selection from one file | none between calls | not modelled |
| other usage metrics (cores, events) | none | an aggregate of one minute's readings | none between minutes | not modelled |
| applier tables (`schema_lock`, `schema_migrations`, `hunt_*`) | tables only | none here | the protocols over them are dfe-engine's | not modelled |
| data (`additional/`, `meta/`, `sources/`, ...), `scripts/validate_schemas.py` | none | none | none; the script runs dfe-engine's loader | not modelled |

How they interact: the manifest orders the objects; the renderer turns each into
statements for the platform that the probe resolved; the applier runs them. The
role scripts and the usage views are two of the kinds of object in the manifest, and
`TableRender` says what the renderer makes of a third, the tables.
The ingest view is the source of one of the three minute views of the rollup: the
rollup counts the readings of a minute that a refresh saw, and `IngestCounter`
says how such readings become bytes. The columns `MetaSchema` derives are read back by
the loader and take their types, nullability and indexes from the registry and the
renderer, which `MetaSchema` also carries as far as these columns need them.

## Modules

One module per component, a `MC...` module with the definitions TLC's
configurations need, and a `..._proofs` module; `SumLemmas` holds the facts about
finite sums that the proofs share. Every variable and action carries
the name the code uses where there is one. In a module, a definition under a
comment that begins `Slip:` is not part of the specification: it is a mistake
somebody could make in the definition after it, kept to confirm that a property
notices.

### UsageRollup, UsageLedger

`usage_minute[v][m]` is the row of minute `m` that view `v` wrote last (value and
`computed_at`), `usage_daily[v][m]` what minute `m` adds to its day's row, with
`daily_at` the version of that row. A refresh is two steps: `StartMinute` or
`StartDaily` computes the window and reads the sources, `CommitMinute` or
`CommitDaily` inserts. Anything may happen in between. The windows are translated
from the `*_recent` views (`InMinuteWindow`, `InDailyWindow`), the TTL from the
table (`Expire`, which drops any part of an expired day, so both whole partitions
and single parts are covered), and `HandRecompute` is the recipe in the comment of
`usage_minute.yaml`. The floor of the daily window moves a whole day at UTC midnight, so
a minute row written just before it can belong to a day that no daily refresh reads
again. Such rows are lost to their day; `MissesOnlyTheLatest` bounds which: only rows
computed too late for the overlap of the last daily write that could read them.
`NothingStranded` speaks of the days in reach. `UsageLedger` is the abstract specification:
published numbers only grow and count only what landed. `UsageRollup` implements it with
`readings <- source` and `published <- usage_daily`.

Times are in minutes. A day is two to four minutes long in the runs, which loses
nothing: the code compares dates only through the windows, whose order of sizes
(late window < day reach < retention) the runs keep.

Abstracted: a value is the number of readings seen, so sums and maxima are one.
A commit is atomic; whether ClickHouse shows an insert over several partitions at
once is not this repository's to say.

### IngestCounter

A process keeps a counter and exports points; points land late, in any order, or
twice; the process restarts, or its counter goes back under the same start time.
`Ingest(from)` is `usage_minute_ingest`: the read with its lookback, `LIMIT 1 BY`,
the sample before (`lagInFrame`), and the `multiIf` (`Increase`). Each point also
carries `gain`, the bytes truly ingested since the previous export, which the view
does not see and the properties compare with. `Refresh` is atomic here, and puts the
rows it recomputed over the ones of their minutes (`Replacing`); `UsageRollup` takes it
apart.

`RightStaysRight` speaks of a minute once every sample up to it has landed
(`Settled`). Before that a recompute may rightly change a row that happens to be right:
a minute whose samples added nothing reads 0, is given the bytes of a predecessor that
is still on its way, and loses them again when it lands. What holds even then is `NeverTakenBack`:
the late sample moves bytes from the row after it to an earlier one, and the rows
before any minute, taken together (`RowsBefore`), never lose any.

`Heard` and `InTime` are what the exact properties need of a deployment. With the
shipped values (a lookback of six hours, a window of two hours, a reach of five days)
they read: a counter is sampled at least every six hours, and samples land within two
hours less the longest time between two refreshes, or within a minute if the view may
stall for days.

### RoleApply

One entry of the catalogue. `Rendered` and `Place` say which statements the
renderer emits for an entry and in which order; `Effect` and `Accepts` say what
ClickHouse does with each. `Release` changes the entry, `StartPass`, `Run` and
`EndPass` are the applier, which may die anywhere. A quota's maxima are kept interval
by interval, because `ALTER QUOTA` re-asserts the interval it names and leaves the
others: an edit of the interval leaves the limits of the old one in force, as an edit
that drops a block leaves the block. `MayRetract` says whether a release may do either;
`edits` and `ConvergedHolds` assume it does not.

### ManifestApply

`Loads` is `_check`, `ReferencesDeclared` the reference check of
`render_manifest.py`; a release ships only a manifest that passes both. A pass goes
through it object by object, statement by statement; it may skip an optional
object, pass over one that is up to date, or die.

Two conventions are not checked by the code and are stated as assumptions:
`DependsOnNamed` (an object depends on what its statements name, or comes after it
anyway) and `RequiredStandAlone` (only an optional object names an optional one).
The shipped manifest keeps both. It needs the second half of the first: the four
`view.usage_*_recent` objects read `usage_minute` or `usage_daily`, which they do
not depend on directly or through another, and only their place protects them.

`FailsOnlyOffConvention` assumes neither: whatever the authors keep to, a pass is refused
nowhere but where an object names one that it neither depends on nor comes after
(`Misplaced`), or one that the pass may skip (`Skippable`). With both conventions that
leaves no refusal of a required object (`NeverFails`, proved from it). TLC reaches either
failure in the manifests that break a convention; the checks of the code let them ship,
although `manifest.py` says they fail loudly on "a view over a table that does not exist
yet", and `docs/manifest.md` that the apply may skip an optional object "without failing
the pass".

### Platform

One boot after another against a server that moves between Cloud and self-hosted
with its tables. `Resolve` takes any answer the cascade can give, the probe's or,
when its query fails, the hostname's; `RequireReplication` is the gate; `Create`,
`Realign`, `RunModify` and `RunReset` follow. A boot may die at each. An operator
changes settings by hand; settings that DFE manages only between boots, because
nothing defends a table against a concurrent edit of what it is being given.
Between boots `Upgrade` takes another release, which may carry any other values of
`JSON_TABLE_SETTINGS` and of `sql/platform.sql` (`Releases`): a setting may change its
value, move from one platform to the other, or be dropped. `Aligned` speaks of what the
release manages; a setting that no release manages any more stays as it was, and
nothing in the code says otherwise.
A server with a Cloud hostname is taken to be Cloud's (`HostsOf`): no self-hosted
server answers under ClickHouse's own domain.

### TableRender, TableLife

`TableRender` holds no state: the columns `compose` yields, their nullability, the
clauses and settings of `_render_table`, what it refuses, and `Checksum`. Settings are a
set of names and values; of their order the checksum reads only which comes first.
Left out is the `GRANT SELECT` that `reader_grant` appends to the statement, which the
checksum hashes too: another reader changes the checksum and nothing of the table.
`TableLife` is what becomes of one table: releases edit its definition among those
that `render_manifest.py` lets ship (`Shipped`), the deployment moves between
platforms (`Move`) or changes its default retention (`SetDefault`), a pass creates
the table or adds columns to it, and its rows sit in parts that merge and expire.
The pass is dfe-engine's, the parts are ClickHouse's; both follow what
`manifest.yaml` (`additive`) and `_create_table` (`ttl_only_drop_parts`) count on.

`ShippedCreates` asks an author's part (`WellWritten`): the columns that the clauses
name exist and have a type that serves there, and a `json` column is declared `not_null`
and kept out of the keys. The registry makes `json` nullable, nothing refuses
`Nullable(JSON)`, and the header notes say that ClickHouse 24.8 rejects it; the model
takes that version, where the repository's own README says 26.3 accepts it.

The renderer decides that a TTL is aligned with the partition by looking for the
column's name in the text of the partition expression. `Inside` is that relation. It
holds of `_timestamp` and `_timestamp_load`, both in the common header: a TTL on the
first over the default partition on the second counts as aligned, its parts drop
whole, and one row dated far ahead keeps the others of its part. No shipped table
has such a TTL. `RowsExpire` covers these tables too: a row that is due leaves, and only
where names are not apart (`NamesApart`) it waits first, while its part has a row that is
not due. TLC reaches such a row, which waits past the end of the clock.

### MetaSchema, MetaStore

`MetaSchema` holds no state: `profile` and `derive_column` of the generator
(`Observed`, `Primitive`, `UseCase`, `NullAttribute`, `DeriveColumn`), what it refuses
(`Derives`), and the other side of the contract, the type, nullability, dictionary and
index that the loader and the renderer make of such a column (`IsNullable`, `Wraps`,
`IndexOf`, `Composed`) and what a column of that type holds (`Holds`, external). A JSON
value is its kind and what the rules look at: the class of a string, whether it is longer
than `--text-min-length`, the kinds of a list's elements. Besides that it says what no
rule looks at and the column's type does (`in_range`): whether an int, or each int of a
list, is within 64 bits, an address has no zone (`ipaddress` parses `fe80::1%eth0`), a
timestamp is one of `DateTime64`, and a UUID is not followed by a newline. A `Float64`
takes any number, rounded. So `18446744073709551615` gets an `Int64` column that does not
hold it. `RowsFit` leaves out no value: each has a column that holds it, or is past the
range of a column of one of these four types (`PastRange`).

`MetaStore` is the life of one file `meta/<provider>/<store>.yaml`. `Generate` is one run
of the generator over the export at hand, with a version and a date or none: it refuses
(`Refuses`), finds nothing to change, or writes the whole file. Around it the export
changes, days pass, an author splices an entry in or deletes a file never released,
`annotate_meta_schemas.py` goes over the file (`Annotate`), and a release publishes what
it holds. `released`, `origin` and `written` record what the properties compare with:
what each version was when released, the rows it came from, and the run that wrote the
file. Two authors' rules come from the generator's own words and are not enforced by it:
an author adds an entry and never edits one, and deletes a file only if nothing in it
was released.

## Runs

| Run | Configuration | Checks | Result |
|---|---|---|---|
| `stall` | `UsageRollup_stall` | `NothingLeftBehind`, `NothingStranded`, `MissesOnlyTheLatest`, `ImplementsLedger` | holds |
| `live` | `UsageRollup_live` | `UpViewsConverge`, `ImplementsLedger` | holds |
| `late_stall` | `UsageRollup_late_stall` | `NothingLeftBehind` | violated, finding 1 |
| `hand` | `UsageRollup_hand` | `NothingStranded` | violated, finding 2 |
| `timely` | `IngestCounter_timely` | `TypeOK`, `FinalRowsExact`, `NeverOvercounts`, `RightStaysRight`, `NeverTakenBack` | holds |
| `silent` | `IngestCounter_silent` | `FinalRowsExact` | violated, finding 3 |
| `edits` | `RoleApply_edits` | `NeverRefused`, `Converged`, `GrantsKept` | holds |
| `dropped_block` | `RoleApply_dropped_block` | `Converged` | violated, finding 4 |
| `releases` | `ManifestApply_releases` | `FailsOnlyOffConvention` | holds |
| `moves` | `Platform_moves` | `Aligned`, `OperatorKept`, `ReadyBeforeCreate` | holds |
| `life` | `TableLife_life` | `ShippedCreates`, `LedgerAnswers`, `RowsExpire`, `KeptAsDeclared` | holds |
| `exports` | `MetaStore_exports` | `RowsFit`, `ColumnsCreate`, `RerunIsNoOp`, `PinnedStays` | holds |

Bounds, and why they are enough:

* `stall`: two-minute days, nine minutes, so that days pass out of the daily reach
  (2), then out of retention (3). Stalls of any length up to the whole run. Readings
  on time. With days this short and an overlap of two minutes, the run reaches rows that
  are lost to their day at midnight. One view: the minute windows read only their own
  view's rows, and the daily window's use of several views is in `live`.
* `live`: two views, of which only one is scheduled for good; the other stops at any
  point. Readings up to a minute late, the day that has readings recomputed by hand at any
  moment, one-day reach and two-day retention.
* `timely`: one cumulative and one delta series, three exports, gains of 0 or 1,
  one repeated point, lookback and window of 2, a refresh missed now and then. Gains only
  add up, so one size of them is enough beside none. Three samples
  of one series are a baseline, a late one and the one it displaces. The clock is bounded, so
  the run stops there and does not check for deadlock. Every other run ends in a state
  with a step left, because a refresh or a pass may always start.
* `edits`: every catalogue entry over three privileges, two profiles and four quotas,
  two maxima over two intervals.
* `releases`: every manifest of at most three objects whose authors kept to the
  conventions, and every one of at most two whether they did or not, in any sequence.
  Three are a dependency, an object that depends on it, and one between.
* `moves`: three settings, of which one is nobody's, and three releases: one with a
  setting of every JSON table and one of self-hosted alone, one that changes the first
  and moves the second to Cloud, and one that gives the first another value on Cloud
  and drops the second; servers that lack one thing each, and each order of access storages.
* `life`: the landing table and 24 edits of its definition, one for each decision of
  the renderer and each of its refusals; three days, retention of one or two, default
  retention unset, 0 or 1; two rows, dated the first day or never to expire. Two
  rows are the one that is due and the one that its part waits for. Rows and edits
  take turns (`Turns` in `MCTableLife`): no step of a row reads the deployment, and
  an edit that a pass applies changes no TTL, partition or part-dropping setting.

* `exports`: two or three rows with a field of any two of twenty-five shapes, or three
  times one; exports without rows or without the row key, with a row key of each type,
  and with keys that are no column name or reserved; two versions and two days. Five of
  the shapes are values past their types. Three rows are where a
  repeated value becomes low cardinality; two shapes are a mix, and the
  rules look at no more than which shapes occur.

The passing runs meet the preconditions of what they check: each property is also
checked against a slip in a definition it rests on, and is violated by it.

### Fairness

Two runs use fairness. In `life`, ClickHouse comes to every part in time: cleaning the
part of any given row is weakly fair. In `live`, the views in `Up` and the daily view are scheduled every
five minutes by ClickHouse (`REFRESH EVERY 5 MINUTE`), so starting a refresh is
weakly fair; a refresh may fail any number of times but not for ever, so committing
is strongly fair. Time passes: `Tick` is strongly fair because a refresh at its
longest run time blocks it until it commits or fails. Views outside `Up` get no
fairness, and the property claims nothing for them.

### Findings

1. `views/usage_minute_cores_recent.sql` says a late reading "lands in a minute that
   is still in the window, so the next refresh replaces that minute's row". After a
   stall longer than the window this does not hold of the minutes before the last
   one written (`late_stall`).
2. `views/usage_daily_recent.sql` goes back to the oldest minute "a minute rollup
   wrote since this view's last write", but reads the last write off
   `max(computed_at)` of the table, which the documented recompute by hand also
   advances (`hand`).
3. `views/usage_minute_ingest.sql` says "a series' first sample inside the window
   has the one before it". A series silent for longer than the lookback has none:
   its next sample counts nothing, and a later recompute whose read no longer
   covers the earlier sample lowers a row that was right (`silent`).
4. `Renderer._render_role_entry` says "every statement converges ... an edit reaches
   an object that already exists". An edit that drops a `quota` or `settings` block
   renders nothing about it, so the quota or profile stays in force
   (`dropped_block`).

## Proofs

| Theorem | Says | Assumes |
|---|---|---|
| `UsageRollup_proofs!Inductive` | `Spec => []IInv` | none beyond the constants' |
| `UsageRollup_proofs!MinutesComplete` | `[]NothingLeftBehind` | `Timely` |
| `UsageRollup_proofs!DaysComplete` | `[]NothingStranded` | `OverlapCovers` |
| `UsageRollup_proofs!MidnightLosesOnlyTheLatest` | `[]MissesOnlyTheLatest` | `OverlapCovers` |
| `UsageRollup_proofs!LedgerImplemented` | `Spec => ImplementsLedger` | none |
| `IngestCounter_proofs!NeverOvercountsHolds`, `TypeCorrect` | `[]NeverOvercounts`, `[]TypeOK`, for every set of series, window and number of samples | none |
| `IngestCounter_proofs!FinalRowsExactHolds`, `NeverTakenBackHolds` | `[]FinalRowsExact`, `NeverTakenBack` | `Heard`, `InTime` |
| `IngestCounter_proofs!RightStaysRightHolds` | `RightStaysRight` | `Heard` |
| `RoleApply_proofs!NeverRefusedHolds`, `GrantsKeptHolds` | `[]NeverRefused`, `GrantsKept` | none |
| `RoleApply_proofs!ConvergedHolds` | `[]Converged` | `~MayRetract` |
| `ManifestApply_proofs!FailsOnlyOffConventionHolds` | `[]FailsOnlyOffConvention`, for every set of manifests | none |
| `ManifestApply_proofs!NeverFailsHolds` | `[]NeverFails` | `Conventions` |
| `TableLife_proofs!KeptAsDeclaredHolds` | `KeptAsDeclared` | none |
| `TableLife_proofs!ShippedCreatesHolds` | `[]ShippedCreates`, of definitions whose author did their part (`WellWritten`, in the statement) | none |
| `TableLife_proofs!LedgerAnswersHolds` | `[]LedgerAnswers`, for every set of definitions and settings | none |
| `Platform_proofs!AlignedHolds`, `OperatorKeptHolds`, `ReadyBeforeCreateHolds` | the three properties of `moves`, for every set of releases | none |
| `MetaStore_proofs!StoreFits` | every value of an export has a derived column that holds it, or whose range it is past (`PastRange`) | none |
| `MetaStore_proofs!RowsFitHolds`, `ColumnsCreateHolds`, `RerunHolds`, `PinnedHolds` | the four properties of `exports`, for every set of exports | none |

The arguments:

* **UsageRollup.** What is out of a window must have been counted, so the invariant
  says when an uncounted reading can have landed: not long before the last refresh
  started (`CountedInv`), and the refresh under way did not miss it either. For days,
  a row its day lacks, in reach or past it, was computed within the overlap of the last
  daily write that could read it (`RolledInv`). `DailyInv` says a day never counts more
  than the rows it came from while they are kept, which is why retention must exceed the reach
  (`RetentionAssumption`): a recompute then never reads a partly expired day. From
  it every step of the rollup is a step of the ledger. `Timely` and `OverlapCovers`
  are what the violation runs `late_stall` and `hand` break.
* **IngestCounter.** Each sample increases over the one before it by what was ingested
  in between (`GainInv`), which a restart or a counter set back does not change, because
  `Increase` takes either for a reset. So a sample whose predecessors all landed counts
  its own gain, if the read holds one of them (`Heard`) or reaches the start of its
  counter, and a minute refreshed after its last sample landed is right (`ExactInv`).
  `InTime` is what keeps it from leaving the window before that: a late sample lands
  within the reach of a resumed refresh, and, unless it is late by a minute at most,
  within the late window.
  `NeverOvercounts` needs neither. When predecessors are missing, a sample counts
  more than its gain, but never more than the gains since the last one that landed
  (`SpanInv`): a row counts nothing that a row before it counts too. So the rows before
  any minute hold no more than the gains of the samples they cover (`PrefixInv`), and
  a refresh, which recomputes all rows from some minute on, keeps this minute by
  minute.
  `NeverTakenBack` compares the rows with one read of everything that landed: before any
  minute they hold no more than that read counts (`DueInv`). A landing only raises what
  it counts, because two increases over a sample in between are together no less than
  the one they replace; starts that never go back (`StartInv`) are what that takes. A
  refresh makes the rows equal to it, because under `Heard` and `InTime` its lookback
  reads all that matters. Let samples land later than `InTime`, and TLC shows a refresh
  that takes bytes back.
  Sums are folds, recursive functions on the subsets of a set. `SumLemmas` proves what
  they compute by induction on a finite set: a smallest subset that fails exists,
  because the strict subset order on finite sets is well-founded, and no operator stands
  for the fact (`SubsetInduction`).
* **RoleApply.** What ran in this pass still stands (`DoneInv`): no later statement of
  a script undoes an earlier one.
* **ManifestApply.** What a pass went past exists unless it may be skipped
  (`PassedInv`). That covers everything an object names but what is misplaced; with the
  conventions, everything a required object names.
* **Platform.** Until the last statement ran, a setting is as wanted or in the
  statement that will make it so (`PlanInv`); a self-hosted server is never resolved
  as Cloud (`GateInv`), and `PassesReady` shows that the check in the code implies
  the requirement stated on its own.
* **TableLife.** The TTL in force is the one the table was created with, because a
  pass alters a table only when its TTL agrees (`TableInv`); so a row the server takes
  for expired is due by the definition. What ships renders under every default
  retention because a default other than the check's changes only whether there is a
  TTL and for how long, never over which columns. The ledger holds the checksum of
  the table as it was rendered (`LedgerInv`), and two rendered tables have one checksum
  exactly when they agree in all but the replication prefix and the settings that a
  platform names (`ChecksumAnswers`): `index_granularity`, which opens the clause, is
  kept whatever the platforms name.
* **MetaStore.** Every entry is `DeriveStore` of the rows it came from (`OriginInv`),
  so `RowsFit` and `ColumnsCreate` reduce to facts about `DeriveColumn` alone: by cases
  on the kinds seen, the primitive chosen holds each value seen that is not past its
  range, and a value that is absent falls on a column that is nullable, an array or an
  object. A file that the generator wrote is what it would render again (`WrittenInv`), because the date it
  falls back on, when it is given none, is the one in the file and the annotator adds
  only what the generator writes itself. A released version survives because a run over
  a file that holds any version either refuses or changes nothing.

Every safety property that a run checks and does not refute is proved. Only
model-checked: the liveness of `live` and `life` (fairness and ENABLED are out of the
prover's reach).

## Not modelled

* `dfe-engine`: its lock and its ledger of migrations appear only as "an object that is
  up to date may be passed over"; which statement it runs when a view's checksum changes
  is its own affair.
* Whether ClickHouse shows an insert over several partitions at once. A minute refresh
  that lands the later of two days and then dies would hide the earlier day behind
  `max(minute)`; the repository does not say whether that can happen.
* The values of the cores and events metrics: one minute's readings each, with no state.
* The text of statements and files, names and quoting; codecs and search indexes; column
  lists. In particular that the generator finds the versions of a file by their quoted
  keys is taken as done.
* `topics.py`, `variants.py`, `compat.py`, `usage.py`: each picks a few values from one
  file, with no state and no order to get wrong.

## Plan

What could still be added, in order:

1. A torn `CommitMinute`, if ClickHouse's behaviour is settled, against
   `NothingLeftBehind`.
2. `ManifestApply` and `TableLife` composed: the pass of the first recording the
   checksum of the second, so that `PassOver` reads the ledger.
