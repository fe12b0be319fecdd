-------------------------- MODULE RoleApply_proofs --------------------------
(***************************************************************************)
(* Proofs about RoleApply, for every set of privileges, settings contents, *)
(* quota intervals and maxima.                                             *)
(***************************************************************************)
EXTENDS RoleApply, TLAPS

-----------------------------------------------------------------------------
(***************************************************************************)
(* The script.                                                             *)
(***************************************************************************)

LEMMA PlaceIs ==
    ASSUME NEW e
    PROVE  /\ Place(e, "create_role") \in {0, 3}
           /\ e.quota # None => Place(e, "create_role") = 0
           /\ Place(e, "create_profile") = 1
           /\ Place(e, "alter_profile") = 2
           /\ Place(e, "create_quota") = 4
           /\ Place(e, "alter_quota") = 5
           /\ Place(e, "revoke_all") = 6
           /\ Place(e, "replace_grants") = 7
           /\ Place(e, "alter_role") = 8
  BY DEF Place, HasQuota

\* Of a rendered statement and one it depends on, the latter comes first.
LEMMA PrerequisitesFirst ==
    ASSUME NEW e \in Entries, NEW s \in Rendered(e)
    PROVE  /\ s \in {"create_quota", "alter_quota", "replace_grants",
                     "revoke_all", "alter_role"} =>
                /\ "create_role" \in Rendered(e)
                /\ Place(e, "create_role") < Place(e, s)
           /\ s \in {"alter_profile", "alter_role"} =>
                /\ "create_profile" \in Rendered(e)
                /\ Place(e, "create_profile") < Place(e, s)
           /\ s = "alter_quota" =>
                /\ "create_quota" \in Rendered(e)
                /\ Place(e, "create_quota") < Place(e, s)
<1>1. GrantStatement(e) \in {"replace_grants", "revoke_all"}
  BY DEF GrantStatement
<1>2. "create_role" \in Rendered(e)
  BY DEF Rendered
<1>3. s \in {"alter_profile", "alter_role"} => HasSettings(e)
  BY <1>1 DEF Rendered
<1>4. s \in {"create_quota", "alter_quota"} => HasQuota(e)
  BY <1>1 DEF Rendered
<1>5. s \in {"create_quota", "alter_quota", "replace_grants", "revoke_all",
             "alter_role"} => Place(e, "create_role") < Place(e, s)
  <2>1. Place(e, "create_role") \in {0, 3}
    BY PlaceIs
  <2>2. s \in {"create_quota", "alter_quota", "replace_grants", "revoke_all",
               "alter_role"} => Place(e, s) \in {4, 5, 6, 7, 8}
    BY PlaceIs
  <2>3. QED
    BY <2>1, <2>2
<1>6. s \in {"alter_profile", "alter_role"} =>
          /\ "create_profile" \in Rendered(e)
          /\ Place(e, "create_profile") < Place(e, s)
  <2>1. HasSettings(e) => "create_profile" \in Rendered(e)
    BY DEF Rendered
  <2>2. s \in {"alter_profile", "alter_role"} => Place(e, s) \in {2, 8}
    BY PlaceIs
  <2>3. Place(e, "create_profile") = 1
    BY PlaceIs
  <2>4. QED
    BY <1>3, <2>1, <2>2, <2>3
<1>7. s = "alter_quota" =>
          /\ "create_quota" \in Rendered(e)
          /\ Place(e, "create_quota") < Place(e, s)
  <2>1. HasQuota(e) => "create_quota" \in Rendered(e)
    BY DEF Rendered
  <2>2. Place(e, "create_quota") = 4 /\ Place(e, "alter_quota") = 5
    BY PlaceIs
  <2>3. QED
    BY <1>4, <2>1, <2>2
<1>8. QED
  BY <1>2, <1>5, <1>6, <1>7

LEMMA PlaceType ==
    ASSUME NEW e, NEW s \in Statements
    PROVE  Place(e, s) \in Nat
<1>1. /\ Place(e, "create_role") \in {0, 3}
      /\ s \in Statements \ {"create_role"} => Place(e, s) \in 1..8
  BY PlaceIs DEF Statements
<1>2. QED
  BY <1>1

LEMMA RenderedType == ASSUME NEW e PROVE Rendered(e) \subseteq Statements
  BY DEF Rendered, Statements, GrantStatement

\* What the next statement of a pass depends on has run.
LEMMA EarlierDone ==
    ASSUME IInv, running, NEW s \in Statements, IsNext(s),
           NEW p \in Rendered(entry), Place(entry, p) < Place(entry, s)
    PROVE  Done(p)
<1>1. p \in Statements /\ todo \subseteq Statements
  BY RenderedType DEF IInv, TypeOK
<1>2. p \notin todo
  BY <1>1, PlaceType DEF IsNext
<1>3. QED
  BY <1>2 DEF IInv, DoneInv

\* The server accepts whatever statement comes next.
LEMMA NextAccepted ==
    ASSUME IInv, running, NEW s \in Statements, IsNext(s)
    PROVE  Accepts(s)
<1>1. entry \in Entries /\ s \in Rendered(entry)
  BY DEF IInv, TypeOK, DoneInv, IsNext
<1>2. s \in {"create_quota", "alter_quota", "replace_grants", "revoke_all",
             "alter_role"} => Done("create_role")
  BY <1>1, PrerequisitesFirst, EarlierDone
<1>3. s \in {"alter_profile", "alter_role"} => Done("create_profile")
  BY <1>1, PrerequisitesFirst, EarlierDone
<1>4. s = "alter_quota" => Done("create_quota")
  BY <1>1, PrerequisitesFirst, EarlierDone
<1>5. QED
  BY <1>2, <1>3, <1>4 DEF Done, Accepts

-----------------------------------------------------------------------------
(***************************************************************************)
(* The invariant.                                                          *)
(***************************************************************************)

LEMMA InitIInv == Init => IInv
<1> SUFFICES ASSUME Init PROVE IInv
  OBVIOUS
<1>1. Fresh \in Servers
  BY DEF Fresh, Servers
<1>2. TypeOK
  BY <1>1 DEF Init, TypeOK
<1>3. DoneInv
  BY DEF Init, DoneInv
<1>4. BlocksInv
  BY DEF Init, BlocksInv, Fresh
<1>5. QED
  BY <1>2, <1>3, <1>4 DEF IInv

\* What a statement changes of the server.
LEMMA RunEffect ==
    ASSUME IInv, NEW s \in Statements, Run(s)
    PROVE  /\ server' \in Servers
           /\ s \in Rendered(entry)
           /\ Done(s)'
           /\ \A t \in Rendered(entry) : Done(t) => Done(t)'
<1>1. /\ entry \in Entries /\ entry' = entry
      /\ server \in Servers /\ server' = Effect(s)
      /\ s \in Rendered(entry)
  BY DEF IInv, TypeOK, DoneInv, Run, IsNext
<1>2. /\ s = "revoke_all" => entry.grants = {}
      /\ s = "alter_profile" => entry.settings \in Settings \cup {None}
      /\ s = "alter_quota" => entry.quota \in Quotas
      /\ entry.grants \in SUBSET Privileges
  BY <1>1 DEF Rendered, GrantStatement, Entries, HasQuota
<1>3. \A t \in Rendered(entry) : t = "revoke_all" => entry.grants = {}
  BY <1>1 DEF Rendered, GrantStatement
<1>4. CASE s = "create_role"
  <2>1. server' = [server EXCEPT !.role = TRUE]
    BY <1>1, <1>4 DEF Effect
  <2>2. QED
    BY <1>1, <1>2, <1>3, <1>4, <2>1 DEF Servers, Done
<1>5. CASE s = "create_profile"
  <2>1. server' = [server EXCEPT !.profile.exists = TRUE]
    BY <1>1, <1>5 DEF Effect
  <2>2. QED
    BY <1>1, <1>2, <1>3, <1>5, <2>1 DEF Servers, Done
<1>6. CASE s = "alter_profile"
  <2>1. server' = [server EXCEPT !.profile.content = entry.settings]
    BY <1>1, <1>6 DEF Effect
  <2>2. QED
    BY <1>1, <1>2, <1>3, <1>6, <2>1 DEF Servers, Done
<1>7. CASE s = "create_quota"
  <2>1. CASE server.quota.exists
    <3>1. server' = server
      BY <1>1, <1>7, <2>1 DEF Effect
    <3>2. QED
      BY <1>1, <1>7, <2>1, <3>1 DEF Done
  <2>2. CASE ~server.quota.exists
    <3>1. server' = [server EXCEPT !.quota.exists = TRUE, !.limited = TRUE]
      BY <1>1, <1>7, <2>2 DEF Effect
    <3>2. /\ server'.role = server.role
          /\ server'.held = server.held
          /\ server'.attached = server.attached
          /\ server'.profile = server.profile
          /\ server'.quota.exists
          /\ server'.quota.limits = server.quota.limits
          /\ server'.limited
      BY <1>1, <3>1 DEF Servers
    <3>3. server' \in Servers
      BY <1>1, <3>1 DEF Servers
    <3>4. QED
      BY <1>1, <1>7, <3>2, <3>3 DEF Done
  <2>3. QED
    BY <2>1, <2>2
<1>8. CASE s = "alter_quota"
  <2> DEFINE limits == [server.quota.limits EXCEPT ![entry.quota.interval] = entry.quota.max]
  <2>1. server' = [server EXCEPT !.quota.limits = limits, !.limited = TRUE]
    BY <1>1, <1>8 DEF Effect
  <2>2. /\ limits \in [Intervals -> Maxima \cup {None}]
        /\ limits[entry.quota.interval] = entry.quota.max
    BY <1>1, <1>2, <1>8 DEF Servers, Quotas
  <2> HIDE DEF limits
  <2>3. /\ server'.role = server.role
        /\ server'.held = server.held
        /\ server'.attached = server.attached
        /\ server'.profile = server.profile
        /\ server'.quota.exists = server.quota.exists
        /\ server'.quota.limits = limits
        /\ server'.limited
    BY <1>1, <2>1 DEF Servers
  <2>4. server' \in Servers
    BY <1>1, <2>1, <2>2 DEF Servers
  <2>5. QED
    BY <1>1, <1>8, <2>2, <2>3, <2>4 DEF Done
<1>9. CASE s = "revoke_all"
  <2>1. server' = [server EXCEPT !.held = {}]
    BY <1>1, <1>9 DEF Effect
  <2>2. QED
    BY <1>1, <1>2, <1>3, <1>9, <2>1 DEF Servers, Done
<1>10. CASE s = "replace_grants"
  <2>1. server' = [server EXCEPT !.held = entry.grants]
    BY <1>1, <1>10 DEF Effect
  <2>2. QED
    BY <1>1, <1>2, <1>3, <1>10, <2>1 DEF Servers, Done
<1>11. CASE s = "alter_role"
  <2>1. server' = [server EXCEPT !.attached = TRUE]
    BY <1>1, <1>11 DEF Effect
  <2>2. QED
    BY <1>1, <1>2, <1>3, <1>11, <2>1 DEF Servers, Done
<1>12. QED
  BY <1>4, <1>5, <1>6, <1>7, <1>8, <1>9, <1>10, <1>11 DEF Statements

\* A statement puts a block in force only if the entry has it.
LEMMA RunBlocks ==
    ASSUME IInv, NEW s \in Statements, Run(s)
    PROVE  BlocksInv'
<1>1. /\ entry' = entry
      /\ server \in Servers /\ server' = Effect(s)
      /\ s \in Rendered(entry)
  BY DEF IInv, TypeOK, DoneInv, Run, IsNext
<1>2. /\ s = "alter_role" => HasSettings(entry)
      /\ s \in {"create_quota", "alter_quota"} => HasQuota(entry)
  BY <1>1 DEF Rendered, GrantStatement
<1>3. server'.attached => server.attached \/ s = "alter_role"
  <2>1. CASE s \in {"create_role", "create_profile", "alter_profile", "revoke_all",
                    "replace_grants", "alter_role"}
    BY <1>1, <2>1 DEF Effect, Servers
  <2>2. CASE s = "create_quota"
    <3>1. CASE server.quota.exists
      BY <1>1, <2>2, <3>1 DEF Effect
    <3>2. CASE ~server.quota.exists
      BY <1>1, <2>2, <3>2 DEF Effect, Servers
    <3>3. QED
      BY <3>1, <3>2
  <2>3. CASE s = "alter_quota"
    BY <1>1, <2>3 DEF Effect, Servers
  <2>4. QED
    BY <2>1, <2>2, <2>3 DEF Statements
<1>4. server'.limited => server.limited \/ s \in {"create_quota", "alter_quota"}
  BY <1>1 DEF Effect, Servers, Statements
<1>5. ASSUME NEW i \in Intervals, server'.quota.limits[i] # None
      PROVE  \/ server.quota.limits[i] # None
             \/ s = "alter_quota" /\ i = entry.quota.interval
  <2>1. CASE s = "alter_quota"
    <3> DEFINE limits == [server.quota.limits EXCEPT ![entry.quota.interval] = entry.quota.max]
    <3>1. server' = [server EXCEPT !.quota.limits = limits, !.limited = TRUE]
      BY <1>1, <2>1 DEF Effect
    <3>2. server'.quota.limits = limits
      BY <1>1, <3>1 DEF Servers
    <3>3. i # entry.quota.interval => limits[i] = server.quota.limits[i]
      BY <1>1 DEF Servers
    <3>4. QED
      BY <1>5, <2>1, <3>2, <3>3
  <2>2. CASE s # "alter_quota"
    <3>1. server'.quota.limits = server.quota.limits
      BY <1>1, <2>2 DEF Effect, Servers, Statements
    <3>2. QED
      BY <1>5, <3>1
  <2>3. QED
    BY <2>1, <2>2
<1>6. CASE MayRetract
  BY <1>6 DEF BlocksInv
<1>7. CASE ~MayRetract
  <2>1. /\ server.attached => HasSettings(entry)
        /\ server.limited => HasQuota(entry)
        /\ \A i \in Intervals :
              server.quota.limits[i] # None => HasQuota(entry) /\ i = entry.quota.interval
    BY <1>7 DEF IInv, BlocksInv
  <2>2. ASSUME NEW i \in Intervals, server'.quota.limits[i] # None
        PROVE  HasQuota(entry) /\ i = entry.quota.interval
    BY <1>2, <1>5, <2>1, <2>2
  <2>3. /\ server'.attached => HasSettings(entry)
        /\ server'.limited => HasQuota(entry)
    BY <1>2, <1>3, <1>4, <2>1
  <2>4. QED
    BY <1>1, <2>2, <2>3 DEF BlocksInv, HasSettings, HasQuota
<1>8. QED
  BY <1>6, <1>7

LEMMA StepIInv == IInv /\ [Next]_vars => IInv'
<1> SUFFICES ASSUME IInv, [Next]_vars
             PROVE  IInv'
  OBVIOUS
<1>1. ASSUME NEW e \in Entries, Release(e)
      PROVE  IInv'
  <2>1. TypeOK'
    BY <1>1 DEF IInv, TypeOK, Release
  <2>2. DoneInv'
    BY <1>1 DEF Release, DoneInv
  <2>3. BlocksInv'
    BY <1>1 DEF IInv, Release, BlocksInv
  <2>4. QED
    BY <2>1, <2>2, <2>3 DEF IInv
<1>2. CASE StartPass
  <2>1. TypeOK'
    BY <1>2, RenderedType DEF IInv, TypeOK, StartPass
  <2>2. DoneInv'
    BY <1>2 DEF StartPass, DoneInv, Rendered, GrantStatement, HasSettings, HasQuota
  <2>3. BlocksInv'
    BY <1>2 DEF IInv, StartPass, BlocksInv, HasSettings, HasQuota
  <2>4. QED
    BY <2>1, <2>2, <2>3 DEF IInv
<1>3. ASSUME NEW s \in Statements, Run(s)
      PROVE  IInv'
  <2>1. TypeOK'
    BY <1>3, RunEffect DEF IInv, TypeOK, Run
  <2>2. DoneInv'
    <3>1. /\ todo' = todo \ {s} /\ running' = running /\ running
          /\ Rendered(entry)' = Rendered(entry)
      BY <1>3 DEF Run, Rendered, GrantStatement, HasSettings, HasQuota
    <3>2. /\ todo \subseteq Rendered(entry)
          /\ \A t \in Rendered(entry) \ todo : Done(t)
      BY <3>1 DEF IInv, DoneInv
    <3>3. ASSUME NEW t \in Rendered(entry) \ todo'
          PROVE  Done(t)'
      <4>1. CASE t = s
        BY <1>3, <4>1, RunEffect
      <4>2. CASE t # s
        BY <1>3, <3>1, <3>2, <4>2, RunEffect
      <4>3. QED
        BY <4>1, <4>2
    <3>4. \A t \in Rendered(entry)' \ todo' : Done(t)'
      BY <3>1, <3>3
    <3>5. todo' \subseteq Rendered(entry)'
      BY <3>1, <3>2
    <3>6. QED
      BY <3>4, <3>5 DEF DoneInv
  <2>3. BlocksInv'
    BY <1>3, RunBlocks
  <2>4. QED
    BY <2>1, <2>2, <2>3 DEF IInv
<1>4. CASE EndPass
  <2>1. TypeOK'
    BY <1>4 DEF IInv, TypeOK, EndPass
  <2>2. DoneInv'
    BY <1>4 DEF EndPass, DoneInv
  <2>3. BlocksInv'
    BY <1>4 DEF IInv, EndPass, BlocksInv, HasSettings, HasQuota
  <2>4. QED
    BY <2>1, <2>2, <2>3 DEF IInv
<1>5. CASE UNCHANGED vars
  BY <1>5 DEF vars, IInv, TypeOK, DoneInv, BlocksInv, Done, Rendered, GrantStatement,
              HasSettings, HasQuota
<1>6. QED
  BY <1>1, <1>2, <1>3, <1>4, <1>5 DEF Next

\* The invariant holds in every reachable state, whether or not releases retract
\* blocks.
THEOREM Inductive == Spec => []IInv
<1>1. QED
  BY InitIInv, StepIInv, PTL DEF Spec

-----------------------------------------------------------------------------
(***************************************************************************)
(* The properties.                                                         *)
(***************************************************************************)

\* The server never refuses a statement of a role script, wherever earlier
\* passes died and whatever releases they ran.
THEOREM NeverRefusedHolds == Spec => []NeverRefused
<1>1. IInv => NeverRefused
  BY NextAccepted DEF NeverRefused
<1>2. QED
  BY Inductive, <1>1, PTL

\* A pass that ran to its end leaves the server as the entry says, as long as no
\* release drops a block, or a quota's interval, that an earlier one had.
THEOREM ConvergedHolds ==
    ASSUME ~MayRetract
    PROVE  Spec => []Converged
<1>1. IInv => Converged
  <2> SUFFICES ASSUME IInv, Finished
               PROVE  Declares(entry)
    BY DEF Converged
  <2>1. \A t \in Rendered(entry) : Done(t)
    BY DEF IInv, DoneInv, Finished
  <2>2. server.role
    BY <2>1 DEF Rendered, Done
  <2>3. server.held = entry.grants
    BY <2>1 DEF Rendered, GrantStatement, Done
  <2>4. HasSettings(entry) => server.attached /\ server.profile.content = entry.settings
    <3>1. HasSettings(entry) => "alter_role" \in Rendered(entry)
                                /\ "alter_profile" \in Rendered(entry)
      BY DEF Rendered
    <3>2. QED
      BY <2>1, <3>1 DEF Done
  <2>5. ASSUME HasQuota(entry)
        PROVE  server.limited /\ server.quota.limits = Limits(entry.quota)
    <3>1. Done("alter_quota")
      BY <2>1, <2>5 DEF Rendered
    <3>2. /\ server.limited
          /\ server.quota.limits[entry.quota.interval] = entry.quota.max
      BY <3>1 DEF Done
    <3>3. \A i \in Intervals : i # entry.quota.interval => server.quota.limits[i] = None
      BY DEF IInv, BlocksInv
    <3>4. server.quota.limits \in [Intervals -> Maxima \cup {None}]
      BY DEF IInv, TypeOK, Servers
    <3>5. QED
      BY <3>2, <3>3, <3>4 DEF Limits
  <2>6. /\ ~HasSettings(entry) => ~server.attached
        /\ ~HasQuota(entry) => ~server.limited
    BY DEF IInv, BlocksInv
  <2>7. IF HasSettings(entry) THEN server.attached /\ server.profile.content = entry.settings
                              ELSE ~server.attached
    BY <2>4, <2>6
  <2>8. IF HasQuota(entry) THEN server.limited /\ server.quota.limits = Limits(entry.quota)
                           ELSE ~server.limited
    BY <2>5, <2>6
  <2>9. QED
    BY <2>2, <2>3, <2>7, <2>8 DEF Declares
<1>2. QED
  BY Inductive, <1>1, PTL

\* No step of any pass takes from the role a privilege its entry names.
THEOREM GrantsKeptHolds == Spec => GrantsKept
<1>1. ASSUME IInv, [Next]_vars
      PROVE  [server.held \cap entry.grants \subseteq server'.held]_vars
  <2>1. ASSUME NEW s \in Statements, Run(s)
        PROVE  server.held \cap entry.grants \subseteq server'.held
    <3>1. /\ server \in Servers
          /\ server' = Effect(s)
          /\ s \in Rendered(entry)
      BY <1>1, <2>1 DEF IInv, TypeOK, DoneInv, Run, IsNext
    <3>2. CASE s = "revoke_all"
      BY <3>1, <3>2 DEF Rendered, GrantStatement
    <3>3. CASE s = "replace_grants"
      BY <3>1, <3>3 DEF Effect, Servers
    <3>4. CASE s \notin {"revoke_all", "replace_grants"}
      <4>1. server'.held = server.held
        BY <3>1, <3>4 DEF Effect, Servers, Statements
      <4>2. QED
        BY <4>1
    <3>5. QED
      BY <3>2, <3>3, <3>4
  <2>2. CASE \E s \in Statements : Run(s)
    BY <2>1, <2>2
  <2>3. CASE ~\E s \in Statements : Run(s)
    <3>1. server' = server
      BY <1>1, <2>3 DEF Next, Release, StartPass, EndPass, vars
    <3>2. QED
      BY <3>1
  <2>4. QED
    BY <2>2, <2>3
<1>2. QED
  BY Inductive, <1>1, PTL DEF Spec, GrantsKept
=============================================================================
