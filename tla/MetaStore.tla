----------------------------- MODULE MetaStore -----------------------------
(***************************************************************************)
(* The life of one meta schema file, meta/<provider>/<store>.yaml: written *)
(* by scripts/generate_meta_schemas.py from an export, extended by hand,   *)
(* annotated by scripts/annotate_meta_schemas.py, released, and read back  *)
(* by load_version_entry of dfe_schemas/loader.py.                         *)
(*                                                                         *)
(* The provider's export changes at any time, and days pass between runs.  *)
(* The generator treats each store by itself and goes on after one fails,  *)
(* so one store is modelled.  A run that fails, or that finds the file as  *)
(* it would write it, changes nothing.                                     *)
(***************************************************************************)
EXTENDS MetaSchema

CONSTANTS
    Versions,   \* version entries
    Exports,    \* bound: what the provider's first export may hold
    Changes,    \* bound: what a later one may hold
    MaxDay,     \* bound on the calendar
    None        \* an argument that is not given

Days == 0..MaxDay
Entries == [date : Days, columns : SUBSET Columns, annotated : BOOLEAN]
NoFile == [current |-> None, resource_type |-> FALSE, versions |-> <<>>]

ASSUME ExportsAssumption ==
    /\ Exports \cup Changes \subseteq Seq(Rows)
    /\ MaxDay \in Nat
    /\ None \notin Versions \cup Days

VARIABLES
    export,     \* the rows of the dump at hand
    today,
    file,       \* current, resource_type, and versions: version -> entry
    released,   \* version -> the entry as first released
    origin,     \* version -> the rows its entry came from
    written     \* the run that wrote the file, None once it is not as it wrote it

vars == <<export, today, file, released, origin, written>>

\* A function from some versions to entries.
IsVersionMap(f) ==
    /\ DOMAIN f \subseteq Versions
    /\ f = [v \in DOMAIN f |-> f[v]]
    /\ \A v \in DOMAIN f : f[v] \in Entries

TypeOK ==
    /\ export \in Exports \cup Changes
    /\ today \in Days
    /\ file = [current |-> file.current, resource_type |-> file.resource_type,
               versions |-> file.versions]
    /\ file.current \in Versions \cup {None}
    /\ file.resource_type \in BOOLEAN
    /\ IsVersionMap(file.versions)
    /\ IsVersionMap(released)
    /\ DOMAIN origin = DOMAIN file.versions
    /\ \A v \in DOMAIN origin : origin[v] \in Exports \cup Changes
    /\ written \in {None} \cup [version : Versions, date : Days \cup {None}]

Init ==
    /\ export \in Exports
    /\ today = 0
    /\ file = NoFile
    /\ released = <<>>
    /\ origin = <<>>
    /\ written = None

-----------------------------------------------------------------------------
\* existing_versions and load_version_entry.

Held == DOMAIN file.versions

\* The entry a consumer reads, by a pinned version or by the file's current.
Selected(pin) == IF pin = None THEN file.current ELSE pin
LoadVersionEntry(pin) == file.versions[Selected(pin)]

-----------------------------------------------------------------------------
\* One run of the generator.

\* Slip: a version is dated the day it is generated.
DateOfRun(version, date) == IF date # None THEN date ELSE today

DateOf(version, date) ==
    IF date # None THEN date
    ELSE IF version \in Held THEN file.versions[version].date ELSE today

Rendered(version, date, rows) ==
    [current |-> version, resource_type |-> TRUE,
     versions |-> [v \in {version} |->
        [date |-> DateOf(version, date), columns |-> DeriveStore(rows), annotated |-> TRUE]]]

\* Slip: a file that holds the version is written again.
RefusesOthers(version, date) == ~Derives(export) \/ Held \ {version} # {}

\* No schema comes of the export, the file holds other versions, or it holds this
\* one otherwise.
Refuses(version, date) ==
    \/ ~Derives(export)
    \/ Held \ {version} # {}
    \/ version \in Held /\ file # Rendered(version, date, export)

\* A run that would change the file: what --check fails on.
Changed(version, date) == ~Refuses(version, date) /\ file # Rendered(version, date, export)

Generate(version, date) ==
    /\ Changed(version, date)
    /\ file' = Rendered(version, date, export)
    /\ origin' = [v \in {version} |-> export]
    /\ written' = [version |-> version, date |-> date]
    /\ UNCHANGED <<export, today, released>>

-----------------------------------------------------------------------------
\* What people do to the file.

Put(f, version, x) == [v \in DOMAIN f \cup {version} |-> IF v = version THEN x ELSE f[v]]

\* A version generated into a scratch tree, or written by hand after the export
\* without the annotations, goes into the file and becomes its current.
Splice(version, annotated) ==
    /\ Derives(export)
    /\ version \notin Held
    /\ file' = [current |-> version,
                resource_type |-> file.resource_type \/ (Held = {} /\ annotated),
                versions |-> Put(file.versions, version,
                    [date |-> today, columns |-> DeriveStore(export), annotated |-> annotated])]
    /\ origin' = Put(origin, version, export)
    /\ written' = None
    /\ UNCHANGED <<export, today, released>>

\* annotate_text: resource_type and every column's _field_type, where they lack.
Annotated(entry) == [date |-> entry.date, columns |-> entry.columns, annotated |-> TRUE]
Annotate ==
    /\ Held # {}
    /\ file' = [file EXCEPT !.resource_type = TRUE,
                            !.versions = [v \in Held |-> Annotated(@[v])]]
    /\ UNCHANGED <<export, today, released, origin, written>>

\* What a release carries is published from then on.
Release ==
    /\ Held # {}
    /\ released' = [v \in Held |->
                       IF v \in DOMAIN released THEN released[v] ELSE file.versions[v]]
    /\ UNCHANGED <<export, today, file, origin, written>>

\* "Delete the file first to regenerate a version never released."
Delete ==
    /\ Held # {}
    /\ Held \cap DOMAIN released = {}
    /\ file' = NoFile
    /\ origin' = <<>>
    /\ written' = None
    /\ UNCHANGED <<export, today, released>>

NewExport(rows) ==
    /\ export' = rows
    /\ UNCHANGED <<today, file, released, origin, written>>

NextDay ==
    /\ today < MaxDay
    /\ today' = today + 1
    /\ UNCHANGED <<export, file, released, origin, written>>

Next ==
    \/ \E v \in Versions, date \in Days \cup {None} : Generate(v, date)
    \/ \E v \in Versions, annotated \in BOOLEAN : Splice(v, annotated)
    \/ Annotate
    \/ Release
    \/ Delete
    \/ \E rows \in Changes : NewExport(rows)
    \/ NextDay

Spec == Init /\ [][Next]_vars

-----------------------------------------------------------------------------
(***************************************************************************)
(* Properties.                                                             *)
(***************************************************************************)

\* A column that the header leaves in place holds the value of a key, or would if the
\* value were not past the range of the column's type.
HasColumn(v, k, value) ==
    \E c \in Composed(file.versions[v].columns) :
        c.name = k /\ (Holds(c, value) \/ PastRange(c, value))

\* "A shape mixed with empty strings falls back to string", "nullable is set on any
\* column some row lacks or has null", and the other typing rules: of the export a
\* version came from, every value has a column that holds it, whatever the other rows
\* have, a missing one included; unless the column is an Int64, a UUID, an IPv6 or a
\* DateTime64 and the value past what the type holds, which no rule looks at.
RowsFit ==
    \A v \in Held, k \in Keys :
        \A i \in 1..Len(origin[v]) :
            k \in KeysOf(origin[v]) => HasColumn(v, k, origin[v][i][k])

\* The type registry, _wrap and _index_defs take every generated column: no list
\* or object is Nullable, no dictionary is asked of a type that has none, and the
\* row key, distinct on every row, gets a bounded filter and not a set of all.
ColumnsCreate ==
    \A v \in Held : \A c \in file.versions[v].columns :
        /\ Wraps(c)
        /\ IsNullable(c) => ClickHouseType(c) \notin {"Array", "JSON"}
        /\ c.use_case = "exact_match" => IndexOf(c) = "bloom_filter"

\* "The same dump and the same arguments write byte-identical files, so a re-run
\* is a no-op and --check can gate it": on any later day, after a release and
\* after the other script went over the file, with the date that was given or none.
RerunIsNoOp ==
    written # None /\ export = origin[written.version] =>
        \A date \in {written.date, None} :
            /\ ~Refuses(written.version, date)
            /\ ~Changed(written.version, date)

\* "Published versions are immutable", and "a consumer pinning a version gets
\* exactly what that version declared" (load_version_entry): whatever exports,
\* runs, hand edits and annotations come after the release.
PinnedStays ==
    \A v \in DOMAIN released :
        /\ v \in Held
        /\ LoadVersionEntry(v).date = released[v].date
        /\ LoadVersionEntry(v).columns = released[v].columns

-----------------------------------------------------------------------------
(***************************************************************************)
(* The inductive invariant: each entry is what its export derives to.      *)
(***************************************************************************)

OriginInv ==
    \A v \in Held : /\ Derives(origin[v])
                    /\ file.versions[v].columns = DeriveStore(origin[v])

\* The generator would write the file as it left it.
WrittenInv ==
    written # None =>
        /\ Held = {written.version}
        /\ file = Rendered(written.version, written.date, origin[written.version])

IInv == TypeOK /\ OriginInv /\ WrittenInv /\ PinnedStays
=============================================================================
