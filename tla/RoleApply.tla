----------------------------- MODULE RoleApply -----------------------------
(***************************************************************************)
(* One tier, service or tenant role of roles/clickhouse.yaml, applied to a *)
(* ClickHouse server release after release (Renderer._render_role_entry,   *)
(* _render_tenant and _replace_grants in dfe_schemas/render.py).           *)
(*                                                                         *)
(* A rendered role is a script of statements with no transaction around    *)
(* it.  The applier (dfe-engine, outside this repository) runs the script  *)
(* one statement at a time, at any boot: which scripts it skips is         *)
(* ManifestApply's subject.  It may die between any two statements, and    *)
(* the next boot may run another release.                                  *)
(*                                                                         *)
(* Data.  A settings profile's content and a quota's maxima over one       *)
(* interval are one value each; a grant is the privilege it names.         *)
(***************************************************************************)
EXTENDS Naturals

CONSTANTS
    Privileges,     \* what a grants list can name
    Settings,       \* contents of a settings block
    Intervals,      \* intervals of a quota
    Maxima,         \* its maxima over one
    None,           \* the block is absent
    MayRetract      \* whether a release may drop a block that an earlier one had,
                    \* or give its quota another interval

Quotas == [interval : Intervals, max : Maxima]

ASSUME NoneAssumption == None \notin Settings /\ None \notin Maxima /\ None \notin Quotas

Entries == [grants : SUBSET Privileges,
            settings : Settings \cup {None},
            quota : Quotas \cup {None}]

VARIABLES
    entry,      \* the role's catalogue entry in the release that runs
    server,     \* what the server holds of the role
    running,    \* whether a pass is under way
    todo        \* its statements that have not run

vars == <<entry, server, running, todo>>

\* A profile or quota that was created and never altered limits nothing.
Fresh == [role |-> FALSE, held |-> {}, attached |-> FALSE,
          profile |-> [exists |-> FALSE, content |-> None],
          quota |-> [exists |-> FALSE, limits |-> [i \in Intervals |-> None]],
          limited |-> FALSE]

Servers == [role : BOOLEAN, held : SUBSET Privileges, attached : BOOLEAN,
            profile : [exists : BOOLEAN, content : Settings \cup {None}],
            quota : [exists : BOOLEAN, limits : [Intervals -> Maxima \cup {None}]],
            limited : BOOLEAN]

-----------------------------------------------------------------------------
\* What is rendered.

HasQuota(e) == e.quota # None
HasSettings(e) == e.settings # None

Statements == {"create_role", "create_profile", "alter_profile", "create_quota",
               "alter_quota", "revoke_all", "replace_grants", "alter_role"}

\* An empty list has nothing to grant, so everything is revoked instead.
GrantStatement(e) == IF e.grants = {} THEN "revoke_all" ELSE "replace_grants"

\* Slip: nothing re-asserts a quota or a profile that exists.
RenderedToCreate(e) ==
    {"create_role", GrantStatement(e)}
    \cup (IF HasSettings(e) THEN {"create_profile", "alter_role"} ELSE {})
    \cup (IF HasQuota(e) THEN {"create_quota"} ELSE {})

\* Slip: everything is revoked before the list is granted anew.
RenderedAnew(e) ==
    {"create_role", "revoke_all", GrantStatement(e)}
    \cup (IF HasSettings(e) THEN {"create_profile", "alter_profile", "alter_role"} ELSE {})
    \cup (IF HasQuota(e) THEN {"create_quota", "alter_quota"} ELSE {})

\* The statements of an entry: a block it does not have renders none.  The
\* tenant role has neither block.
Rendered(e) ==
    {"create_role", GrantStatement(e)}
    \cup (IF HasSettings(e) THEN {"create_profile", "alter_profile", "alter_role"} ELSE {})
    \cup (IF HasQuota(e) THEN {"create_quota", "alter_quota"} ELSE {})

\* Slip: the profile comes first, and the role after the quota.
QuotaFirst(e, statement) ==
    CASE statement = "create_profile" -> 1
      [] statement = "alter_profile" -> 2
      [] statement = "create_quota" -> 3
      [] statement = "alter_quota" -> 4
      [] statement = "create_role" -> 5
      [] statement = "revoke_all" -> 6
      [] statement = "replace_grants" -> 7
      [] statement = "alter_role" -> 8

\* Where a statement comes in the script: the role first of all when a quota is
\* to be assigned to it, after the settings profile otherwise.
Place(e, statement) ==
    CASE statement = "create_role" -> IF HasQuota(e) THEN 0 ELSE 3
      [] statement = "create_profile" -> 1
      [] statement = "alter_profile" -> 2
      [] statement = "create_quota" -> 4
      [] statement = "alter_quota" -> 5
      [] statement = "revoke_all" -> 6
      [] statement = "replace_grants" -> 7
      [] statement = "alter_role" -> 8

IsNext(statement) ==
    /\ statement \in todo
    /\ \A other \in todo : Place(entry, statement) <= Place(entry, other)

-----------------------------------------------------------------------------
\* What the server does.

\* A statement that names an object which does not exist is refused.
Accepts(statement) ==
    /\ statement \in {"create_quota", "alter_quota", "replace_grants",
                      "revoke_all", "alter_role"} => server.role
    /\ statement \in {"alter_profile", "alter_role"} => server.profile.exists
    /\ statement = "alter_quota" => server.quota.exists

\* CREATE ... IF NOT EXISTS leaves an object that exists alone, quota
\* assignment included; ALTER re-asserts, a quota over the interval it names;
\* WITH REPLACE OPTION, or REVOKE ALL for an empty list, leaves the role holding
\* the list and nothing else.
Effect(statement) ==
    CASE statement = "create_role" -> [server EXCEPT !.role = TRUE]
      [] statement = "create_profile" -> [server EXCEPT !.profile.exists = TRUE]
      [] statement = "alter_profile" -> [server EXCEPT !.profile.content = entry.settings]
      [] statement = "create_quota" ->
            IF server.quota.exists THEN server
            ELSE [server EXCEPT !.quota.exists = TRUE, !.limited = TRUE]
      [] statement = "alter_quota" ->
            [server EXCEPT !.quota.limits =
                               [@ EXCEPT ![entry.quota.interval] = entry.quota.max],
                           !.limited = TRUE]
      [] statement = "replace_grants" -> [server EXCEPT !.held = entry.grants]
      [] statement = "revoke_all" -> [server EXCEPT !.held = {}]
      [] statement = "alter_role" -> [server EXCEPT !.attached = TRUE]

-----------------------------------------------------------------------------
TypeOK ==
    /\ entry \in Entries
    /\ server \in Servers
    /\ running \in BOOLEAN
    /\ todo \subseteq Statements

Init ==
    /\ entry \in Entries
    /\ server = Fresh
    /\ running = FALSE
    /\ todo = {}

\* A deployment moves to another release of the package, or its operator edits
\* the catalogue.
Release(e) ==
    /\ ~running
    /\ ~MayRetract => /\ HasQuota(entry) => /\ HasQuota(e)
                                            /\ e.quota.interval = entry.quota.interval
                      /\ HasSettings(entry) => HasSettings(e)
    /\ entry' = e
    /\ UNCHANGED <<server, running, todo>>

StartPass ==
    /\ ~running
    /\ running' = TRUE
    /\ todo' = Rendered(entry)
    /\ UNCHANGED <<entry, server>>

Run(statement) ==
    /\ running
    /\ IsNext(statement)
    /\ Accepts(statement)
    /\ server' = Effect(statement)
    /\ todo' = todo \ {statement}
    /\ UNCHANGED <<entry, running>>

\* The pass ends: every statement ran, or before that the applier dies, or the
\* server refuses a statement or cannot be reached.  What ran stays.
EndPass ==
    /\ running
    /\ running' = FALSE
    /\ todo' = {}
    /\ UNCHANGED <<entry, server>>

Finished == running /\ todo = {}

Next ==
    \/ \E e \in Entries : Release(e)
    \/ StartPass
    \/ \E statement \in Statements : Run(statement)
    \/ EndPass

Spec == Init /\ [][Next]_vars

-----------------------------------------------------------------------------
(***************************************************************************)
(* Properties.                                                             *)
(***************************************************************************)

\* _render_role_entry: "The role comes FIRST because the quota is assigned TO
\* it": no statement of any entry is refused, from a fresh server, from what an
\* interrupted pass left behind, or over the objects of another release.
NeverRefused == running => \A statement \in Statements : IsNext(statement) => Accepts(statement)

\* The quota limits what it declares, over the interval it declares alone.
Limits(q) == [i \in Intervals |-> IF i = q.interval THEN q.max ELSE None]

\* What an entry says of the server, the blocks it does not have included.
Declares(e) ==
    /\ server.role
    /\ server.held = e.grants
    /\ IF HasSettings(e) THEN server.attached /\ server.profile.content = e.settings
                         ELSE ~server.attached
    /\ IF HasQuota(e) THEN server.limited /\ server.quota.limits = Limits(e.quota)
                      ELSE ~server.limited

\* "Every statement converges: an IF NOT EXISTS creates, an ALTER re-asserts the
\* mutable state, so an edit reaches an object that already exists": a pass
\* that ran to its end leaves the server as the entry says, whatever releases
\* and interrupted passes came before.
Converged == Finished => Declares(entry)

\* _replace_grants: "the role never holds less than the list": a privilege
\* that the running entry names is never taken from the role, at any statement
\* of any pass.
GrantsKept == [][server.held \cap entry.grants \subseteq server'.held]_vars

-----------------------------------------------------------------------------
(***************************************************************************)
(* The inductive invariant: what ran in this pass still stands, and a      *)
(* block in force, over whichever interval, is one the entry has.          *)
(***************************************************************************)

Done(statement) ==
    /\ statement = "create_role" => server.role
    /\ statement = "create_profile" => server.profile.exists
    /\ statement = "alter_profile" => server.profile.content = entry.settings
    /\ statement = "create_quota" => server.quota.exists
    /\ statement = "alter_quota" =>
          server.limited /\ server.quota.limits[entry.quota.interval] = entry.quota.max
    /\ statement \in {"replace_grants", "revoke_all"} => server.held = entry.grants
    /\ statement = "alter_role" => server.attached

DoneInv == running => /\ todo \subseteq Rendered(entry)
                      /\ \A statement \in Rendered(entry) \ todo : Done(statement)

BlocksInv ==
    ~MayRetract =>
        /\ server.attached => HasSettings(entry)
        /\ server.limited => HasQuota(entry)
        /\ \A i \in Intervals :
              server.quota.limits[i] # None => HasQuota(entry) /\ i = entry.quota.interval

IInv == TypeOK /\ DoneInv /\ BlocksInv
=============================================================================
