------------------------ MODULE ManifestApply_proofs ------------------------
(***************************************************************************)
(* Proofs about ManifestApply, for every set of ids and every manifest.    *)
(***************************************************************************)
EXTENDS ManifestApply, TLAPS

\* What the authors of the manifests a deployment runs keep to.
Conventions == \A m \in Manifests : DependsOnNamed(m) /\ RequiredStandAlone(m)

\* What a manifest that ships looks like.
LEMMA ShippedType ==
    ASSUME NEW m \in Shipped
    PROVE  /\ m \in Manifests /\ Loads(m)
           /\ Len(m) \in Nat /\ 1 <= Len(m)
           /\ \A i \in 1..Len(m) : m[i] \in Objects
<1>1. m \in Manifests /\ Loads(m)
  BY DEF Shipped
<1>2. m \in Seq(Objects)
  BY <1>1, ManifestsAssumption
<1>3. Len(m) > 0
  BY <1>1 DEF Loads
<1>4. QED
  BY <1>1, <1>2, <1>3

\* What an object names is misplaced or declared before it.
LEMMA NamedBefore ==
    ASSUME NEW m \in Shipped, NEW i \in 1..Len(m),
           NEW id \in m[i].names, id \notin Misplaced(m, i)
    PROVE  \E j \in 1..(i - 1) : m[j].id = id
<1>1. Len(m) \in Nat /\ Unmet(m, i) = {}
  BY ShippedType DEF Loads
<1>2. id \in m[i].depends_on \cup DeclaredBefore(m, i)
  BY DEF Misplaced
<1>3. id \in DeclaredBefore(m, i)
  BY <1>1, <1>2 DEF Unmet
<1>4. QED
  BY <1>3 DEF DeclaredBefore

LEMMA InitIInv == Init => IInv
<1> SUFFICES ASSUME Init PROVE IInv
  OBVIOUS
<1>1. TypeOK
  <2>1. Len(manifest) \in Nat /\ 1 <= Len(manifest)
    BY ShippedType DEF Init
  <2>2. /\ manifest \in Shipped
        /\ server = {} /\ running = FALSE /\ at = 1 /\ step = 1
    BY DEF Init
  <2>3. 1 \in 1..(Len(manifest) + 1)
    BY <2>1
  <2>4. QED
    BY <2>2, <2>3 DEF TypeOK
<1>2. PassedInv
  BY DEF Init, PassedInv
<1>3. QED
  BY <1>1, <1>2 DEF IInv

LEMMA StepIInv == IInv /\ [Next]_vars => IInv'
<1> SUFFICES ASSUME IInv, [Next]_vars
             PROVE  IInv'
  OBVIOUS
<1>1. /\ manifest \in Shipped
      /\ server \subseteq Ids /\ running \in BOOLEAN
      /\ Len(manifest) \in Nat /\ 1 <= Len(manifest)
      /\ \A i \in 1..Len(manifest) : manifest[i] \in Objects
      /\ at \in 1..(Len(manifest) + 1) /\ step \in {1, 2}
  BY ShippedType DEF IInv, TypeOK
<1>2. ASSUME NEW m \in Shipped, Release(m)
      PROVE  IInv'
  <2>1. Len(m) \in Nat /\ 1 <= Len(m)
    BY ShippedType
  <2>2. TypeOK'
    BY <1>1, <1>2, <2>1 DEF Release, TypeOK
  <2>3. PassedInv'
    BY <1>2 DEF Release, PassedInv
  <2>4. QED
    BY <2>2, <2>3 DEF IInv
<1>3. CASE StartPass
  <2>1. TypeOK'
    BY <1>1, <1>3 DEF StartPass, TypeOK
  <2>2. PassedInv'
    BY <1>3 DEF StartPass, PassedInv
  <2>3. QED
    BY <2>1, <2>2 DEF IInv
<1>4. CASE RunStatement
  <2>1. /\ running /\ at \in 1..Len(manifest)
        /\ manifest' = manifest /\ running' = running
        /\ server' = server \cup {manifest[at].id}
        /\ \/ at' = at /\ step' = step + 1 /\ step < manifest[at].statements
           \/ at' = at + 1 /\ step' = 1
    BY <1>1, <1>4 DEF RunStatement, Applying, Current
  <2>2. manifest[at].id \in Ids /\ manifest[at].statements \in {1, 2}
    BY <1>1, <2>1 DEF Objects
  <2>3. step' \in {1, 2}
    BY <1>1, <2>1, <2>2
  <2>4. at' \in 1..(Len(manifest) + 1)
    BY <1>1, <2>1
  <2>5. TypeOK'
    BY <1>1, <2>1, <2>2, <2>3, <2>4 DEF TypeOK
  <2>6. PassedInv'
    BY <1>1, <2>1 DEF IInv, PassedInv
  <2>7. QED
    BY <2>5, <2>6 DEF IInv
<1>5. CASE PassOver
  <2>1. /\ running /\ at \in 1..Len(manifest)
        /\ manifest' = manifest /\ running' = running /\ step' = step
        /\ server' = server /\ manifest[at].id \in server
        /\ at' = at + 1
    BY <1>1, <1>5 DEF PassOver, Applying, Current
  <2>2. TypeOK'
    BY <1>1, <2>1 DEF TypeOK
  <2>3. PassedInv'
    BY <1>1, <2>1 DEF IInv, PassedInv
  <2>4. QED
    BY <2>2, <2>3 DEF IInv
<1>6. CASE SkipOptional
  <2>1. /\ running /\ at \in 1..Len(manifest)
        /\ manifest' = manifest /\ running' = running /\ step' = 1
        /\ server' = server /\ manifest[at].optional
        /\ at' = at + 1
    BY <1>1, <1>6 DEF SkipOptional, Applying, Current
  <2>2. TypeOK'
    BY <1>1, <2>1 DEF TypeOK
  <2>3. PassedInv'
    BY <1>1, <2>1 DEF IInv, PassedInv
  <2>4. QED
    BY <2>2, <2>3 DEF IInv
<1>7. CASE EndPass
  <2>1. TypeOK'
    BY <1>1, <1>7 DEF EndPass, TypeOK
  <2>2. PassedInv'
    BY <1>7 DEF EndPass, PassedInv
  <2>3. QED
    BY <2>1, <2>2 DEF IInv
<1>8. CASE UNCHANGED vars
  BY <1>8 DEF vars, IInv, TypeOK, PassedInv
<1>9. QED
  BY <1>2, <1>3, <1>4, <1>5, <1>6, <1>7, <1>8 DEF Next

\* Whatever a pass went past exists, unless the pass may skip it, for every
\* release, crash and order of passes.
THEOREM Inductive == Spec => []IInv
<1>1. QED
  BY InitIInv, StepIInv, PTL DEF Spec

LEMMA RefusedOffConvention == IInv => FailsOnlyOffConvention
<1> SUFFICES ASSUME IInv, Applying, NEW id \in Current.names \ server,
                    id \notin Misplaced(manifest, at)
             PROVE  id \in Skippable(manifest)
  BY DEF FailsOnlyOffConvention
<1>1. /\ manifest \in Shipped /\ Len(manifest) \in Nat
      /\ at \in 1..Len(manifest) /\ running
  BY ShippedType DEF IInv, TypeOK, Applying
<1>2. PICK j \in 1..(at - 1) : manifest[j].id = id
  BY <1>1, NamedBefore DEF Current
<1>3. manifest[j].optional
  BY <1>1, <1>2 DEF IInv, PassedInv
<1>4. j \in 1..Len(manifest)
  BY <1>1, <1>2
<1>5. QED
  BY <1>2, <1>3, <1>4 DEF Skippable

\* A manifest that passes its checks fails a pass nowhere but where an object names
\* one that is misplaced or may be skipped, whatever the server held before.
THEOREM FailsOnlyOffConventionHolds == Spec => []FailsOnlyOffConvention
  BY Inductive, RefusedOffConvention, PTL

\* If the authors keep to the conventions, a manifest that passes its checks
\* never fails a pass at a required object, whatever the server held before.
THEOREM NeverFailsHolds ==
    ASSUME Conventions
    PROVE  Spec => []NeverFails
<1>1. IInv => NeverFails
  <2> SUFFICES ASSUME IInv, Applying, ~Current.optional
               PROVE  Current.names \subseteq server
    BY DEF NeverFails, Accepted
  <2>1. manifest \in Shipped /\ Len(manifest) \in Nat /\ at \in 1..Len(manifest)
    BY ShippedType DEF IInv, TypeOK, Applying
  <2>2. Misplaced(manifest, at) = {} /\ Current.names \cap Skippable(manifest) = {}
    BY <2>1, ShippedType DEF Conventions, DependsOnNamed, RequiredStandAlone, Current
  <2>3. Current.names \ server \subseteq Misplaced(manifest, at) \cup Skippable(manifest)
    BY RefusedOffConvention DEF FailsOnlyOffConvention
  <2>4. QED
    BY <2>2, <2>3
<1>2. QED
  BY Inductive, <1>1, PTL
=============================================================================
