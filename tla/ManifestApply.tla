--------------------------- MODULE ManifestApply ---------------------------
(***************************************************************************)
(* The apply manifest (manifest.yaml) from the checks it passes to the     *)
(* server it creates: _check and load_manifest in dfe_schemas/manifest.py, *)
(* the reference check of scripts/render_manifest.py, and the pass that    *)
(* dfe-engine, outside this repository, makes over it at boot.             *)
(*                                                                         *)
(* A pass goes through the objects in order, statement by statement, with  *)
(* no transaction around them.  It may die anywhere; the next boot may run *)
(* another release, over whatever the server holds by then.                *)
(*                                                                         *)
(* Data.  An object is its id, its depends_on list, the objects its        *)
(* rendered statements name, how many statements it renders, and whether   *)
(* the pass may skip it.  Fields that _check compares with a list or a     *)
(* file of the package (kind, topology, database, defines) are left out.   *)
(***************************************************************************)
EXTENDS Naturals, Sequences

CONSTANTS
    Ids,            \* object ids
    Manifests       \* the manifests releases carry, checked or not

Objects == [id : Ids, depends_on : SUBSET Ids, names : SUBSET Ids,
            statements : {1, 2}, optional : BOOLEAN]

ASSUME ManifestsAssumption == Manifests \subseteq Seq(Objects)

VARIABLES
    manifest,   \* the manifest of the release that runs
    server,     \* the objects that exist
    running,    \* whether a pass is under way
    at,         \* the position of the object it applies
    step        \* the statement of that object that comes next

vars == <<manifest, server, running, at, step>>

-----------------------------------------------------------------------------
\* The checks.

DeclaredBefore(m, i) == {m[j].id : j \in 1..(i - 1)}
Declared(m) == {m[j].id : j \in 1..Len(m)}

DeclaredTwice(m, i) == m[i].id \in DeclaredBefore(m, i)

\* Slip: checked against what the manifest declares, wherever it does.
Unknown(m, i) == m[i].depends_on \ Declared(m)

\* What an object depends on and is not declared before it, itself included.
Unmet(m, i) == m[i].depends_on \ DeclaredBefore(m, i)

\* load_manifest raises unless there is an object and none has a problem.
Loads(m) ==
    /\ Len(m) > 0
    /\ \A i \in 1..Len(m) : ~DeclaredTwice(m, i) /\ Unmet(m, i) = {}

\* render_manifest: every object a statement names is itself in the manifest.
ReferencesDeclared(m) == \A i \in 1..Len(m) : m[i].names \subseteq Declared(m)

\* A release ships once both checks pass.
Shipped == {m \in Manifests : Loads(m) /\ ReferencesDeclared(m)}

\* What neither check looks at: what an object names, does not depend on and does
\* not come after either, and what a pass may skip.
Misplaced(m, i) == m[i].names \ (m[i].depends_on \cup DeclaredBefore(m, i))
Skippable(m) == {m[j].id : j \in {i \in 1..Len(m) : m[i].optional}}

\* The manifest's authors keep to it: an object depends on what its statements name
\* or comes after it anyway, as the usage views that read usage_minute do, and only
\* an optional object names an optional one.
DependsOnNamed(m) == \A i \in 1..Len(m) : Misplaced(m, i) = {}
RequiredStandAlone(m) ==
    \A i \in 1..Len(m) : m[i].optional \/ m[i].names \cap Skippable(m) = {}

-----------------------------------------------------------------------------
TypeOK ==
    /\ manifest \in Shipped
    /\ server \subseteq Ids
    /\ running \in BOOLEAN
    /\ at \in 1..(Len(manifest) + 1)
    /\ step \in {1, 2}

Init ==
    /\ manifest \in Shipped
    /\ server = {}
    /\ running = FALSE
    /\ at = 1
    /\ step = 1

\* The deployment moves to another release, forward or back.
Release(m) ==
    /\ ~running
    /\ manifest' = m
    /\ at' = 1
    /\ step' = 1
    /\ UNCHANGED <<server, running>>

StartPass ==
    /\ ~running
    /\ running' = TRUE
    /\ at' = 1
    /\ step' = 1
    /\ UNCHANGED <<manifest, server>>

Current == manifest[at]
Applying == running /\ at <= Len(manifest)

\* The server refuses a statement that names an object it does not hold.
Accepted == Current.names \subseteq server

\* The next statement of the object runs; the first one creates it.
RunStatement ==
    /\ Applying
    /\ Accepted
    /\ server' = server \cup {Current.id}
    /\ IF step < Current.statements THEN at' = at /\ step' = step + 1
                                    ELSE at' = at + 1 /\ step' = 1
    /\ UNCHANGED <<manifest, running>>

\* The object is up to date: the ledger and the live server say so.
PassOver ==
    /\ Applying
    /\ step = 1
    /\ Current.id \in server
    /\ at' = at + 1
    /\ UNCHANGED <<manifest, server, running, step>>

\* "The apply may skip this object without failing the pass."
SkipOptional ==
    /\ Applying
    /\ Current.optional
    /\ at' = at + 1
    /\ step' = 1
    /\ UNCHANGED <<manifest, server, running>>

\* The pass ends, at the end of the manifest or dead before it.
EndPass ==
    /\ running
    /\ running' = FALSE
    /\ UNCHANGED <<manifest, server, at, step>>

Next ==
    \/ \E m \in Shipped : Release(m)
    \/ StartPass
    \/ RunStatement
    \/ PassOver
    \/ SkipOptional
    \/ EndPass

Spec == Init /\ [][Next]_vars

-----------------------------------------------------------------------------
(***************************************************************************)
(* Properties.                                                             *)
(***************************************************************************)

\* dfe_schemas/manifest.py: a dependency declared later is "an apply that fails
\* on a fresh cluster and succeeds on every re-run".  Whatever its authors keep to, a
\* manifest that passes the checks fails a pass nowhere but where an object names one
\* that is misplaced or may be skipped: on a fresh server, on one a dead pass left,
\* or on one another release built.
FailsOnlyOffConvention ==
    Applying => Current.names \ server \subseteq Misplaced(manifest, at) \cup Skippable(manifest)

\* So where the authors keep to both conventions, the server refuses no required
\* object.
NeverFails == Applying /\ ~Current.optional => Accepted

\* What the pass went past exists, unless it may be skipped.
PassedInv ==
    running => \A j \in 1..(at - 1) : manifest[j].optional \/ manifest[j].id \in server

IInv == TypeOK /\ PassedInv
=============================================================================
