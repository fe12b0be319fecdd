------------------------------ MODULE Platform ------------------------------
(***************************************************************************)
(* A boot against a ClickHouse server that may be Cloud or self-hosted:    *)
(* PlatformProbe, its replication check, CREATE DATABASE and the settings  *)
(* a JSON table carries (dfe_schemas/clickhouse.py, sql/platform.sql and   *)
(* dfe_schemas/deploy_defaults.py).                                        *)
(*                                                                         *)
(* dfe-engine, outside this repository, runs the boot: it connects, asks   *)
(* the probe, lets it refuse the server, creates the database and the      *)
(* table, and realigns the settings of the table that is there.  It may    *)
(* die anywhere.  Between boots the deployment moves between Cloud and     *)
(* self-hosted, its tables with it, the server is reconfigured, and        *)
(* another release comes with other settings.                              *)
(*                                                                         *)
(* Data.  One JSON table stands for all: no boot step reads two.           *)
(***************************************************************************)
EXTENDS Naturals, Sequences

CONSTANTS
    Names,              \* settings of a table
    Values,             \* their values
    Unset,              \* the server default
    Releases,           \* what releases carry: json, JSON_TABLE_SETTINGS, and
                        \* platform, json_table_settings of sql/platform.sql
    Configs,            \* configurations of a self-hosted server
    Override            \* the platform a deployment pins, or "auto"

Platforms == {"cloud", "self_hosted"}
Settings == [Names -> Values \cup {Unset}]
Macros == {"cluster", "shard", "replica"}

\* The settings that some platform sets, and those that every JSON table has.
PlatformOnly(r) == {n \in Names : \E p \in Platforms : r.platform[p][n] # Unset}
Json(r) == {n \in Names : r.json[n] # Unset}
Managed(r) == Json(r) \cup PlatformOnly(r)

ASSUME SettingsAssumption ==
    /\ Unset \notin Values
    /\ Releases \subseteq [json : Settings, platform : [Platforms -> Settings]]

ASSUME ConfigsAssumption ==
    /\ Override \in Platforms \cup {"auto"}
    /\ Configs \subseteq [keeper : BOOLEAN, macros : SUBSET Macros, servers : Nat,
                          directories : Seq(STRING)]

VARIABLES
    release,    \* the release the deployment runs
    actual,     \* the platform of the server the deployment uses
    host,       \* the platform its hostname names, "none" without one
    config,     \* its configuration, which Cloud does not have
    phase,      \* how far the boot got
    platform,   \* the probe's answer, "unknown" before it
    exists,     \* whether the table exists
    settings,   \* its settings now
    operator,   \* the settings an operator gave it by hand
    plan        \* the realignment that was read off the live settings

vars == <<release, actual, host, config, phase, platform, exists, settings, operator, plan>>

Phases == {"down", "connected", "probed", "checked", "created", "modify", "reset", "done"}
NoPlan == [modify |-> {}, reset |-> {}]

TypeOK ==
    /\ release \in Releases
    /\ actual \in Platforms
    /\ host \in Platforms \cup {"none"}
    /\ config \in Configs
    /\ phase \in Phases
    /\ platform \in Platforms \cup {"unknown"}
    /\ exists \in BOOLEAN
    /\ settings \in Settings
    /\ operator \in Settings
    /\ plan \in [modify : SUBSET Names, reset : SUBSET Names]

AllUnset == [n \in Names |-> Unset]

\* A hostname with a Cloud suffix is Cloud's; any other tells nothing.
HostsOf(p) == {"none", "self_hosted"} \cup {p}

Init ==
    /\ release \in Releases
    /\ actual \in Platforms
    /\ host \in HostsOf(actual)
    /\ config \in Configs
    /\ phase = "down"
    /\ platform = "unknown"
    /\ exists = FALSE
    /\ settings = AllUnset
    /\ operator = AllUnset
    /\ plan = NoPlan

-----------------------------------------------------------------------------
\* require_replication.

Missing(c) ==
    (IF c.keeper THEN {} ELSE {"keeper"})
    \cup (Macros \ c.macros)
    \cup (IF "cluster" \in c.macros /\ c.servers = 0 THEN {"remote_servers"} ELSE {})

Writable == {"local_directory", "memory", "replicated"}

\* Slip: replicated storage anywhere will do.
SomewhereReplicated(c) == \E i \in 1..Len(c.directories) : c.directories[i] = "replicated"

FirstWritable(c, i) ==
    /\ i \in 1..Len(c.directories)
    /\ c.directories[i] \in Writable
    /\ \A j \in 1..(i - 1) : c.directories[j] \notin Writable

\* A CREATE ROLE is written to the first storage that takes it.
WritesToReplicated(c) ==
    /\ \E i \in 1..Len(c.directories) : FirstWritable(c, i)
    /\ c.directories[CHOOSE i \in 1..Len(c.directories) : FirstWritable(c, i)] = "replicated"

Passes(c) == Missing(c) = {} /\ (c.servers > 1 => WritesToReplicated(c))

-----------------------------------------------------------------------------
\* json_table_settings and realign_settings.

\* A platform's own setting wins over JSON_TABLE_SETTINGS.
Wanted(r, p) ==
    [n \in Names |-> IF r.platform[p][n] # Unset THEN r.platform[p][n] ELSE r.json[n]]

\* Slip: only a setting that the table lacks is set.
ModifyMissing(wanted, live) == {n \in Names : wanted[n] # Unset /\ live[n] = Unset}

\* Slip: every setting that is not wanted is reset.
ResetUnwanted(wanted, live) == {n \in Names : live[n] # Unset /\ wanted[n] = Unset}

Modify(wanted, live) == {n \in Names : wanted[n] # Unset /\ live[n] # wanted[n]}
Reset(wanted, live) == {n \in PlatformOnly(release) : live[n] # Unset /\ wanted[n] = Unset}

-----------------------------------------------------------------------------
\* Between boots.

\* The deployment points at another server, or at this one reconfigured.
Move(p, h, c) ==
    /\ phase = "down"
    /\ actual' = p
    /\ host' = h
    /\ config' = c
    /\ UNCHANGED <<release, phase, platform, exists, settings, operator, plan>>

Upgrade(r) ==
    /\ phase = "down"
    /\ release' = r
    /\ UNCHANGED <<actual, host, config, phase, platform, exists, settings, operator, plan>>

\* An operator changes a setting of the table: one that DFE leaves alone at any
\* time, one that it manages between boots.
OperatorSets(n, v) ==
    /\ exists
    /\ n \in Managed(release) => phase = "down"
    /\ settings' = [settings EXCEPT ![n] = v]
    /\ operator' = [operator EXCEPT ![n] = v]
    /\ UNCHANGED <<release, actual, host, config, phase, platform, exists, plan>>

\* The boot dies, or its server does.
Die ==
    /\ phase # "down"
    /\ phase' = "down"
    /\ platform' = "unknown"
    /\ plan' = NoPlan
    /\ UNCHANGED <<release, actual, host, config, exists, settings, operator>>

-----------------------------------------------------------------------------
\* The boot.

Connect ==
    /\ phase = "down"
    /\ phase' = "connected"
    /\ UNCHANGED <<release, actual, host, config, platform, exists, settings, operator, plan>>

\* What the cascade gives, the server answering or its query failing.
Answers ==
    IF Override # "auto" THEN {Override}
    ELSE {actual} \cup {IF host = "none" THEN "self_hosted" ELSE host}

\* The cascade runs once, and its answer is cached.
Resolve(p) ==
    /\ phase = "connected"
    /\ p \in Answers
    /\ phase' = "probed"
    /\ platform' = p
    /\ UNCHANGED <<release, actual, host, config, exists, settings, operator, plan>>

\* A server that is refused ends the boot: Die.
RequireReplication ==
    /\ phase = "probed"
    /\ platform = "self_hosted" => Passes(config)
    /\ phase' = "checked"
    /\ UNCHANGED <<release, actual, host, config, platform, exists, settings, operator, plan>>

\* The database, and the table with the settings of the platform, if they do not
\* exist.
Create ==
    /\ phase = "checked"
    /\ phase' = "created"
    /\ exists' = TRUE
    /\ settings' = IF exists THEN settings ELSE Wanted(release, platform)
    /\ UNCHANGED <<release, actual, host, config, platform, operator, plan>>

\* realign_settings over the live settings.
Realign ==
    /\ phase = "created"
    /\ phase' = "modify"
    /\ plan' = [modify |-> Modify(Wanted(release, platform), settings),
                reset |-> Reset(Wanted(release, platform), settings)]
    /\ UNCHANGED <<release, actual, host, config, platform, exists, settings, operator>>

\* ALTER TABLE ... MODIFY SETTING, when there is one to modify.
RunModify ==
    /\ phase = "modify"
    /\ phase' = "reset"
    /\ settings' = [n \in Names |-> IF n \in plan.modify THEN Wanted(release, platform)[n]
                                                          ELSE settings[n]]
    /\ UNCHANGED <<release, actual, host, config, platform, exists, operator, plan>>

\* ALTER TABLE ... RESET SETTING, likewise.
RunReset ==
    /\ phase = "reset"
    /\ phase' = "done"
    /\ settings' = [n \in Names |-> IF n \in plan.reset THEN Unset ELSE settings[n]]
    /\ UNCHANGED <<release, actual, host, config, platform, exists, operator, plan>>

Next ==
    \/ \E p \in Platforms : \E h \in HostsOf(p), c \in Configs : Move(p, h, c)
    \/ \E r \in Releases : Upgrade(r)
    \/ \E n \in Names, v \in Values \cup {Unset} : OperatorSets(n, v)
    \/ Die
    \/ Connect
    \/ \E p \in Platforms : Resolve(p)
    \/ RequireReplication
    \/ Create
    \/ Realign
    \/ RunModify
    \/ RunReset

Spec == Init /\ [][Next]_vars

-----------------------------------------------------------------------------
(***************************************************************************)
(* Properties.                                                             *)
(***************************************************************************)

\* realign_settings: "moving a deployment between Cloud and self-hosted converges
\* either way": a boot that ran to its end on the platform it resolved leaves the
\* table with that platform's settings of its release, whatever boots that died or
\* were misled, releases, moves and hand edits came before.
Aligned ==
    phase = "done" =>
        \A n \in Managed(release) : settings[n] = Wanted(release, platform)[n]

\* realign_settings: "a setting an operator added by hand stays", unless some
\* release managed it.
OperatorKept ==
    \A n \in Names \ UNION {Managed(r) : r \in Releases} : settings[n] = operator[n]

\* What a self-hosted server needs: Keeper, the macros, a cluster they name, and
\* on more than one server the roles in Keeper, whichever storage comes first.
RolesInKeeper(c) ==
    \E i \in 1..Len(c.directories) :
        /\ c.directories[i] = "replicated"
        /\ \A j \in 1..(i - 1) : c.directories[j] \notin Writable
Ready(c) ==
    /\ c.keeper
    /\ c.macros = Macros
    /\ c.servers > 0
    /\ c.servers > 1 => RolesInKeeper(c)

\* "A server without them is refused rather than handed a second engine form":
\* no boot creates anything on a self-hosted server that lacks what a Replicated
\* database and its roles need, even if its probe failed, unless the deployment
\* pinned it as Cloud.
ReadyBeforeCreate ==
    /\ phase \in {"checked", "created", "modify", "reset", "done"}
    /\ actual = "self_hosted"
    /\ Override # "cloud"
    => Ready(config)

-----------------------------------------------------------------------------
(***************************************************************************)
(* The inductive invariant: a plan covers what the settings still lack.    *)
(***************************************************************************)

PlanInv ==
    /\ phase \in {"checked", "created", "modify", "reset", "done"} => platform \in Platforms
    /\ phase = "modify" =>
          \A n \in Managed(release) :
             \/ settings[n] = Wanted(release, platform)[n]
             \/ n \in IF Wanted(release, platform)[n] = Unset THEN plan.reset ELSE plan.modify
    /\ phase = "reset" =>
          \A n \in Managed(release) : settings[n] = Wanted(release, platform)[n] \/ n \in plan.reset
    /\ phase \in {"modify", "reset"} =>
          /\ plan.modify \subseteq {n \in Managed(release) : Wanted(release, platform)[n] # Unset}
          /\ plan.reset \subseteq {n \in PlatformOnly(release) : Wanted(release, platform)[n] = Unset}

GateInv ==
    /\ /\ phase \in {"probed", "checked", "created", "modify", "reset", "done"}
       /\ actual = "self_hosted"
       /\ Override # "cloud"
       => platform = "self_hosted"
    /\ /\ phase \in {"checked", "created", "modify", "reset", "done"}
       /\ platform = "self_hosted"
       => Passes(config)

FreshInv == ~exists => settings = AllUnset /\ operator = AllUnset

HostInv == host \in HostsOf(actual)
PlatformInv == phase = "probed" => platform \in Platforms
CreatedInv == phase \in {"created", "modify", "reset", "done"} => exists

IInv ==
    /\ TypeOK /\ PlanInv /\ GateInv /\ FreshInv /\ HostInv /\ PlatformInv /\ CreatedInv
    /\ Aligned /\ OperatorKept
=============================================================================
