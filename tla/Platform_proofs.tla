-------------------------- MODULE Platform_proofs --------------------------
(***************************************************************************)
(* Proofs about Platform, for every set of settings, every platform.sql    *)
(* and every server configuration.                                         *)
(***************************************************************************)
EXTENDS Platform, TLAPS

Past == {"checked", "created", "modify", "reset", "done"}

\* What a platform wants is a setting of some platform or of every JSON table.
LEMMA WantedFacts ==
    ASSUME NEW r \in Releases, NEW p \in Platforms
    PROVE  /\ Wanted(r, p) \in Settings
           /\ \A n \in Names : Wanted(r, p)[n] # Unset => n \in Managed(r)
           /\ \A n \in Json(r) : Wanted(r, p)[n] # Unset
<1>1. /\ r.json \in [Names -> Values \cup {Unset}]
      /\ r.platform[p] \in [Names -> Values \cup {Unset}]
  BY SettingsAssumption DEF Settings
<1>2. \A n \in Names : Wanted(r, p)[n] =
         IF r.platform[p][n] # Unset THEN r.platform[p][n] ELSE r.json[n]
  BY DEF Wanted
<1>3. Wanted(r, p) \in Settings
  BY <1>1 DEF Wanted, Settings
<1>4. \A n \in Names : Wanted(r, p)[n] # Unset => n \in Managed(r)
  BY <1>2 DEF Managed, Json, PlatformOnly
<1>5. \A n \in Json(r) : Wanted(r, p)[n] # Unset
  BY <1>2 DEF Json
<1>6. QED
  BY <1>3, <1>4, <1>5

\* The check of the code accepts only a server that is ready.
LEMMA PassesReady ==
    ASSUME NEW c \in Configs, Passes(c)
    PROVE  Ready(c)
<1>1. c.keeper \in BOOLEAN /\ c.macros \subseteq Macros /\ c.servers \in Nat
  BY ConfigsAssumption
<1>2. Missing(c) = {} /\ (c.servers > 1 => WritesToReplicated(c))
  BY DEF Passes
<1>3. c.keeper
  BY <1>1, <1>2 DEF Missing
<1>4. c.macros = Macros
  BY <1>1, <1>2 DEF Missing
<1>5. c.servers # 0
  BY <1>2, <1>4 DEF Missing, Macros
<1>6. ASSUME WritesToReplicated(c)
      PROVE  RolesInKeeper(c)
  <2>1. \E i \in 1..Len(c.directories) : FirstWritable(c, i)
    BY <1>6 DEF WritesToReplicated
  <2>2. PICK k : k = CHOOSE i \in 1..Len(c.directories) : FirstWritable(c, i)
    OBVIOUS
  <2>3. k \in 1..Len(c.directories) /\ FirstWritable(c, k)
    BY <2>1, <2>2
  <2>4. c.directories[k] = "replicated"
    BY <1>6, <2>2 DEF WritesToReplicated
  <2>5. QED
    BY <2>3, <2>4 DEF RolesInKeeper, FirstWritable
<1>7. QED
  BY <1>1, <1>2, <1>3, <1>4, <1>5, <1>6 DEF Ready

-----------------------------------------------------------------------------
(***************************************************************************)
(* The invariant, one conjunct at a time.                                  *)
(***************************************************************************)

LEMMA InitIInv == Init => IInv
<1> SUFFICES ASSUME Init PROVE IInv
  OBVIOUS
<1>1. AllUnset \in Settings
  BY DEF AllUnset, Settings
<1>2. TypeOK
  BY <1>1 DEF Init, TypeOK, Phases, NoPlan, HostsOf, Platforms
<1>3. PlanInv /\ GateInv /\ FreshInv /\ Aligned /\ OperatorKept
  BY DEF Init, PlanInv, GateInv, FreshInv, Aligned, OperatorKept
<1>4. HostInv /\ PlatformInv /\ CreatedInv
  BY DEF Init, HostInv, PlatformInv, CreatedInv
<1>5. QED
  BY <1>2, <1>3, <1>4 DEF IInv

LEMMA StepTypeOK == IInv /\ [Next]_vars => TypeOK'
<1> SUFFICES ASSUME IInv, [Next]_vars
             PROVE  TypeOK'
  OBVIOUS
<1> USE DEF TypeOK, IInv, Phases
<1>1. ASSUME NEW p \in Platforms, NEW h \in HostsOf(p), NEW c \in Configs, Move(p, h, c)
      PROVE  TypeOK'
  BY <1>1 DEF Move, HostsOf, Platforms
<1>2. ASSUME NEW n \in Names, NEW v \in Values \cup {Unset}, OperatorSets(n, v)
      PROVE  TypeOK'
  BY <1>2 DEF OperatorSets, Settings
<1>3. CASE Die
  BY <1>3 DEF Die, NoPlan
<1>4. CASE Connect
  BY <1>4 DEF Connect
<1>5. ASSUME NEW p \in Platforms, Resolve(p)
      PROVE  TypeOK'
  BY <1>5 DEF Resolve
<1>6. CASE RequireReplication
  BY <1>6 DEF RequireReplication
<1>7. CASE Create
  BY <1>7, WantedFacts DEF Create, PlanInv
<1>8. CASE Realign
  BY <1>8 DEF Realign, Modify, Reset, PlatformOnly
<1>9. CASE RunModify
  <2>1. Wanted(release, platform) \in Settings
    BY <1>9, WantedFacts DEF RunModify, PlanInv, Past
  <2>2. settings' \in Settings
    BY <1>9, <2>1 DEF RunModify, Settings
  <2>3. QED
    BY <1>9, <2>2 DEF RunModify
<1>10. CASE RunReset
  <2>1. settings' \in Settings
    BY <1>10 DEF RunReset, Settings
  <2>2. QED
    BY <1>10, <2>1 DEF RunReset
<1>11. CASE UNCHANGED vars
  BY <1>11 DEF vars
<1>12. ASSUME NEW r \in Releases, Upgrade(r)
       PROVE  TypeOK'
  BY <1>12 DEF Upgrade
<1>13. QED
  BY <1>1, <1>2, <1>3, <1>4, <1>5, <1>6, <1>7, <1>8, <1>9, <1>10, <1>11, <1>12 DEF Next

\* A step keeps the settings and what the operator gave them outside Managed
\* equal.
LEMMA StepOperatorKept == IInv /\ [Next]_vars => OperatorKept'
<1> SUFFICES ASSUME IInv, [Next]_vars,
                    NEW m \in Names \ UNION {Managed(r) : r \in Releases}
             PROVE  settings'[m] = operator'[m]
  BY DEF OperatorKept
<1>0. settings[m] = operator[m] /\ m \notin Managed(release) /\ m \in Names
  BY DEF IInv, TypeOK, OperatorKept
<1> USE DEF IInv, TypeOK, Settings
<1>1. ASSUME NEW n \in Names, NEW v \in Values \cup {Unset}, OperatorSets(n, v)
      PROVE  settings'[m] = operator'[m]
  BY <1>0, <1>1 DEF OperatorSets
<1>2. CASE Create
  <2>1. CASE exists
    BY <1>0, <1>2, <2>1 DEF Create
  <2>2. CASE ~exists
    <3>1. platform \in Platforms
      BY <1>2 DEF Create, PlanInv
    <3>2. Wanted(release, platform)[m] = Unset
      BY <1>0, <3>1, WantedFacts
    <3>3. operator[m] = Unset
      BY <1>0, <2>2 DEF FreshInv, AllUnset
    <3>4. settings' = Wanted(release, platform) /\ operator' = operator
      BY <1>2, <2>2 DEF Create
    <3>5. QED
      BY <3>2, <3>3, <3>4
  <2>3. QED
    BY <2>1, <2>2
<1>3. CASE RunModify
  <2>1. m \notin plan.modify
    BY <1>0, <1>3 DEF RunModify, PlanInv
  <2>2. QED
    BY <1>0, <1>3, <2>1 DEF RunModify
<1>4. CASE RunReset
  <2>1. m \notin plan.reset
    BY <1>0, <1>4 DEF RunReset, PlanInv, Managed
  <2>2. QED
    BY <1>0, <1>4, <2>1 DEF RunReset
<1>5. ASSUME UNCHANGED <<settings, operator>>
      PROVE  settings'[m] = operator'[m]
  BY <1>0, <1>5
<1>6. QED
  BY <1>1, <1>2, <1>3, <1>4, <1>5
  DEF Next, Move, Upgrade, Die, Connect, Resolve, RequireReplication, Realign, vars

\* Only Create makes the table, and nothing touches its settings before.
LEMMA StepFreshInv == IInv /\ [Next]_vars => FreshInv'
<1> SUFFICES ASSUME IInv, [Next]_vars, ~exists'
             PROVE  settings' = AllUnset /\ operator' = AllUnset
  BY DEF FreshInv
<1>1. ~exists => settings = AllUnset /\ operator = AllUnset
  BY DEF IInv, FreshInv
<1>2. ~Create
  BY DEF Create
<1>3. CASE RunModify \/ RunReset
  <2>1. exists
    BY <1>3 DEF IInv, CreatedInv, RunModify, RunReset
  <2>2. QED
    BY <1>3, <2>1 DEF RunModify, RunReset
<1>4. QED
  BY <1>1, <1>2, <1>3
  DEF Next, Move, Upgrade, OperatorSets, Die, Connect, Resolve, RequireReplication, Realign, vars

\* The probe never calls a server that is not Cloud's Cloud, and what a
\* self-hosted one needs is checked before anything is created.
LEMMA StepGateInv == IInv /\ [Next]_vars => GateInv'
<1> SUFFICES ASSUME IInv, [Next]_vars
             PROVE  GateInv'
  OBVIOUS
<1> USE DEF IInv, GateInv
<1>1. ASSUME NEW p \in Platforms, Resolve(p)
      PROVE  GateInv'
  <2>1. CASE Override = "auto"
    <3>1. host \in HostsOf(actual)
      BY DEF HostInv
    <3>2. actual = "self_hosted" => p = "self_hosted"
      BY <1>1, <2>1, <3>1 DEF Resolve, Answers, HostsOf
    <3>3. QED
      BY <1>1, <3>2 DEF Resolve
  <2>2. CASE Override # "auto"
    <3>1. p = Override
      BY <1>1, <2>2 DEF Resolve, Answers
    <3>2. Override # "cloud" => p = "self_hosted"
      BY <3>1 DEF Platforms
    <3>3. QED
      BY <1>1, <3>2 DEF Resolve
  <2>3. QED
    BY <2>1, <2>2
<1>2. CASE RequireReplication
  BY <1>2 DEF RequireReplication
<1>3. ASSUME NEW p \in Platforms, NEW h \in HostsOf(p), NEW c \in Configs, Move(p, h, c)
      PROVE  GateInv'
  BY <1>3 DEF Move
<1>4. CASE Create \/ Realign \/ RunModify \/ RunReset
  BY <1>4 DEF Create, Realign, RunModify, RunReset
<1>5. CASE Die \/ Connect
  BY <1>5 DEF Die, Connect
<1>6. ASSUME NEW n \in Names, NEW v \in Values \cup {Unset}, OperatorSets(n, v)
      PROVE  GateInv'
  BY <1>6 DEF OperatorSets
<1>7. CASE UNCHANGED vars
  BY <1>7 DEF vars
<1>8. ASSUME NEW r \in Releases, Upgrade(r)
      PROVE  GateInv'
  BY <1>8 DEF Upgrade
<1>9. QED
  BY <1>1, <1>2, <1>3, <1>4, <1>5, <1>6, <1>7, <1>8 DEF Next

\* A boot that has not reached the table again leaves no claim about it.
LEMMA StepHostInv == IInv /\ [Next]_vars => HostInv'
<1> SUFFICES ASSUME IInv, [Next]_vars
             PROVE  HostInv'
  OBVIOUS
<1>1. ASSUME NEW p \in Platforms, NEW h \in HostsOf(p), NEW c \in Configs, Move(p, h, c)
      PROVE  HostInv'
  BY <1>1 DEF Move, HostInv, HostsOf
<1>2. QED
  BY <1>1 DEF IInv, HostInv, HostsOf, Next, Upgrade, OperatorSets, Die, Connect, Resolve,
              RequireReplication, Create, Realign, RunModify, RunReset, vars

LEMMA StepCreatedInv == IInv /\ [Next]_vars => CreatedInv'
<1> USE DEF IInv, CreatedInv
<1>1. QED
  BY DEF Next, Move, Upgrade, OperatorSets, Die, Connect, Resolve, RequireReplication, Create,
         Realign, RunModify, RunReset, vars

\* Between the reading of the settings and the last statement, a setting is as
\* wanted or in the statement that will make it so.
LEMMA StepPlanInv == IInv /\ [Next]_vars => PlanInv'
<1> SUFFICES ASSUME IInv, [Next]_vars
             PROVE  PlanInv'
  OBVIOUS
<1> USE DEF IInv, TypeOK
<1>1. ASSUME NEW n \in Names, NEW v \in Values \cup {Unset}, OperatorSets(n, v)
      PROVE  PlanInv'
  <2>1. phase # "down" => n \notin Managed(release)
    BY <1>1 DEF OperatorSets, Managed
  <2>2. phase # "down" => \A m \in Managed(release) : settings'[m] = settings[m]
    BY <1>1, <2>1 DEF OperatorSets, Settings, Managed, Json, PlatformOnly
  <2>3. UNCHANGED <<release, phase, platform, plan>>
    BY <1>1 DEF OperatorSets
  <2>4. QED
    BY <2>2, <2>3 DEF PlanInv
<1>2. CASE RequireReplication
  <2>1. platform \in Platforms
    BY <1>2 DEF RequireReplication, PlatformInv
  <2>2. QED
    BY <1>2, <2>1 DEF RequireReplication, PlanInv
<1>3. CASE Realign
  <2>1. platform \in Platforms
    BY <1>3 DEF Realign, PlanInv
  <2>2. \A n \in Managed(release) : n \in Names
    BY DEF Managed, Json, PlatformOnly
  <2>3. /\ plan'.modify = Modify(Wanted(release, platform), settings)
        /\ plan'.reset = Reset(Wanted(release, platform), settings)
        /\ settings' = settings /\ release' = release /\ platform' = platform /\ phase' = "modify"
    BY <1>3 DEF Realign
  <2>4. ASSUME NEW n \in Managed(release)
        PROVE  \/ settings[n] = Wanted(release, platform)[n]
               \/ n \in IF Wanted(release, platform)[n] = Unset THEN plan'.reset ELSE plan'.modify
    <3>1. CASE n \in PlatformOnly(release)
      BY <2>2, <2>3, <3>1 DEF Modify, Reset
    <3>2. CASE n \in Json(release)
      <4>1. Wanted(release, platform)[n] # Unset
        BY <2>1, <3>2, WantedFacts
      <4>2. QED
        BY <2>2, <2>3, <4>1 DEF Modify
    <3>3. QED
      BY <3>1, <3>2 DEF Managed
  <2>5. plan'.modify \subseteq {n \in Managed(release) : Wanted(release, platform)[n] # Unset}
    BY <2>1, <2>3, WantedFacts DEF Modify
  <2>6. plan'.reset \subseteq {n \in PlatformOnly(release) : Wanted(release, platform)[n] = Unset}
    BY <2>3 DEF Reset
  <2>7. Wanted(release, platform)' = Wanted(release, platform)
    BY <2>3 DEF Wanted
  <2>8. QED
    BY <2>1, <2>3, <2>4, <2>5, <2>6, <2>7 DEF PlanInv
<1>4. CASE RunModify
  <2>1. /\ phase = "modify" /\ phase' = "reset"
        /\ release' = release /\ platform' = platform /\ plan' = plan
        /\ \A n \in Names : settings'[n] = IF n \in plan.modify THEN Wanted(release, platform)[n]
                                                                ELSE settings[n]
    BY <1>4 DEF RunModify
  <2>2. \A n \in Managed(release) : n \in Names
    BY DEF Managed, Json, PlatformOnly
  <2>3. Wanted(release, platform)' = Wanted(release, platform)
    BY <2>1 DEF Wanted
  <2>4. ASSUME NEW n \in Managed(release)
        PROVE  settings'[n] = Wanted(release, platform)[n] \/ n \in plan.reset
    <3>1. \/ settings[n] = Wanted(release, platform)[n]
          \/ n \in IF Wanted(release, platform)[n] = Unset THEN plan.reset ELSE plan.modify
      BY <2>1 DEF PlanInv
    <3>2. QED
      BY <2>1, <2>2, <3>1
  <2>5. QED
    BY <2>1, <2>3, <2>4 DEF PlanInv
<1>5. CASE RunReset
  BY <1>5 DEF RunReset, PlanInv
<1>6. CASE Create
  BY <1>6 DEF Create, PlanInv
<1>7. ASSUME NEW p \in Platforms, NEW h \in HostsOf(p), NEW c \in Configs, Move(p, h, c)
      PROVE  PlanInv'
  BY <1>7 DEF Move, PlanInv
<1>8. ASSUME NEW p \in Platforms, Resolve(p)
      PROVE  PlanInv'
  BY <1>8 DEF Resolve, PlanInv
<1>9. CASE Die \/ Connect
  BY <1>9 DEF Die, Connect, PlanInv
<1>10. CASE UNCHANGED vars
  <2>1. UNCHANGED <<release, phase, platform, plan, settings>>
    BY <1>10 DEF vars
  <2>2. QED
    BY <2>1 DEF PlanInv, Wanted
<1>11. ASSUME NEW r \in Releases, Upgrade(r)
       PROVE  PlanInv'
  BY <1>11 DEF Upgrade, PlanInv
<1>12. QED
  BY <1>1, <1>2, <1>3, <1>4, <1>5, <1>6, <1>7, <1>8, <1>9, <1>10, <1>11 DEF Next

LEMMA StepAligned == IInv /\ [Next]_vars => Aligned'
<1> SUFFICES ASSUME IInv, [Next]_vars, phase' = "done",
                    NEW m \in Managed(release')
             PROVE  settings'[m] = Wanted(release', platform')[m]
  BY DEF Aligned, Wanted, Managed, Json, PlatformOnly
<1> USE DEF IInv, TypeOK
<1>a. release' = release
  BY DEF Next, Move, Upgrade, OperatorSets, Die, Connect, Resolve, RequireReplication,
         Create, Realign, RunModify, RunReset, vars
<1>0. m \in Managed(release) /\ m \in Names
  BY <1>a DEF Managed, Json, PlatformOnly
<1>1. CASE RunReset
  <2>1. /\ phase = "reset" /\ release' = release /\ platform' = platform
        /\ settings'[m] = IF m \in plan.reset THEN Unset ELSE settings[m]
    BY <1>0, <1>1 DEF RunReset
  <2>2. settings[m] = Wanted(release, platform)[m] \/ m \in plan.reset
    BY <1>0, <2>1 DEF PlanInv
  <2>3. m \in plan.reset => Wanted(release, platform)[m] = Unset
    BY <2>1 DEF PlanInv
  <2>4. QED
    BY <2>1, <2>2, <2>3
<1>2. ASSUME NEW n \in Names, NEW v \in Values \cup {Unset}, OperatorSets(n, v)
      PROVE  settings'[m] = Wanted(release', platform')[m]
  <2>1. n # m /\ phase = "done" /\ release' = release /\ platform' = platform
    BY <1>2 DEF OperatorSets
  <2>2. settings'[m] = settings[m]
    BY <1>0, <1>2, <2>1 DEF OperatorSets, Settings
  <2>3. QED
    BY <2>1, <2>2 DEF Aligned
<1>3. CASE UNCHANGED vars
  BY <1>3 DEF vars, Aligned
<1>4. ASSUME NEW p \in Platforms, NEW h \in HostsOf(p), NEW c \in Configs
      PROVE  ~Move(p, h, c)
  BY DEF Move
<1>5. ASSUME NEW r \in Releases
      PROVE  ~Upgrade(r)
  BY DEF Upgrade
<1>6. QED
  BY <1>1, <1>2, <1>3, <1>4, <1>5 DEF Next, Die, Connect, Resolve, RequireReplication, Create,
                               Realign, RunModify

LEMMA StepPlatformInv == IInv /\ [Next]_vars => PlatformInv'
<1> USE DEF IInv, PlatformInv
<1>1. QED
  BY DEF Next, Move, Upgrade, OperatorSets, Die, Connect, Resolve, RequireReplication, Create,
         Realign, RunModify, RunReset, vars

-----------------------------------------------------------------------------
(***************************************************************************)
(* Theorems.                                                               *)
(***************************************************************************)

\* The invariant: what a plan covers, what the gate let through and where the
\* table's settings came from, whatever dies, moves or is set by hand.
THEOREM Inductive == Spec => []IInv
<1>1. IInv /\ [Next]_vars => IInv'
  BY StepTypeOK, StepOperatorKept, StepFreshInv, StepGateInv, StepHostInv, StepCreatedInv,
     StepPlanInv, StepAligned, StepPlatformInv DEF IInv
<1>2. QED
  BY InitIInv, <1>1, PTL DEF Spec

\* A boot that ran to its end leaves the table with the settings of the platform
\* it resolved (realign_settings), whatever came before.
THEOREM AlignedHolds == Spec => []Aligned
<1>1. IInv => Aligned
  BY DEF IInv
<1>2. QED
  BY Inductive, <1>1, PTL

\* No boot touches a setting that neither platform nor JSON tables name.
THEOREM OperatorKeptHolds == Spec => []OperatorKept
<1>1. IInv => OperatorKept
  BY DEF IInv
<1>2. QED
  BY Inductive, <1>1, PTL

\* Nothing is created on a self-hosted server that lacks Keeper, a macro or
\* shared roles (require_replication), for every configuration.
THEOREM ReadyBeforeCreateHolds == Spec => []ReadyBeforeCreate
<1>1. IInv => ReadyBeforeCreate
  BY PassesReady DEF IInv, GateInv, TypeOK, ReadyBeforeCreate
<1>2. QED
  BY Inductive, <1>1, PTL
=============================================================================
