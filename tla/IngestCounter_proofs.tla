------------------------ MODULE IngestCounter_proofs ------------------------
(***************************************************************************)
(* Proofs about IngestCounter, for every set of series, every lookback,    *)
(* window and number of samples.                                           *)
(***************************************************************************)
EXTENDS IngestCounter, SumLemmas

-----------------------------------------------------------------------------
(***************************************************************************)
(* Bytes.                                                                  *)
(***************************************************************************)

LEMMA Bounds ==
    /\ MaxNow \in Nat /\ Minutes = 0..MaxNow /\ Gains \subseteq Nat
    /\ Lookback \in Nat /\ LateWindow \in Nat /\ MaxBack \in Nat /\ MaxExports \in Nat
    /\ MaxLate \in Nat /\ MaxGap \in Nat /\ MaxRepeats \in Nat /\ MaxSilence \in Nat
  BY BoundsAssumption DEF Minutes

LEMMA PointTypes ==
    ASSUME NEW p \in Points
    PROVE  /\ p.series \in Series /\ p.t \in Minutes /\ p.started \in Minutes
           /\ p.v \in Nat /\ p.gain \in Nat /\ p.copy \in {1, 2}
           /\ p.t \in Nat /\ p.started \in Nat
<1>1. /\ p.series \in Series /\ p.t \in Minutes /\ p.started \in Minutes
      /\ p.v \in Nat /\ p.gain \in Gains /\ p.copy \in {1, 2}
  BY DEF Points
<1>2. p.t \in Nat /\ p.started \in Nat
  BY <1>1, Bounds
<1>3. p.gain \in Nat
  BY <1>1, Bounds
<1>4. QED
  BY <1>1, <1>2, <1>3

\* Bytes is a sum, over any larger set as well.
LEMMA BytesOn ==
    ASSUME NEW ps \in SUBSET Points, IsFiniteSet(ps), NEW qs \in SUBSET ps
    PROVE  Bytes(qs) = SumFunctionOnSet([p \in ps |-> p.gain], qs)
<1>1. IsFiniteSet(qs)
  BY FS_Subset
<1>2. \A p \in qs : /\ [q \in qs |-> q.gain][p] = [q \in ps |-> q.gain][p]
                    /\ [q \in qs |-> q.gain][p] \in Int
  BY PointTypes
<1>3. SumFunctionOnSet([q \in qs |-> q.gain], qs) = SumFunctionOnSet([q \in ps |-> q.gain], qs)
  <2> DEFINE f == [q \in qs |-> q.gain]
             g == [q \in ps |-> q.gain]
  <2> HIDE DEF f, g
  <2> QED BY <1>1, <1>2, SumSame DEF f, g
<1>4. QED
  BY <1>3 DEF Bytes, SumFunction

LEMMA BytesNat ==
    ASSUME NEW ps \in SUBSET Points, IsFiniteSet(ps)
    PROVE  Bytes(ps) \in Nat
<1> DEFINE f == [p \in ps |-> p.gain]
<1>1. \A p \in ps : f[p] \in Nat
  BY PointTypes
<1>2. Bytes(ps) = SumFunctionOnSet(f, ps)
  BY BytesOn
<1>3. QED
  <2> HIDE DEF f
  <2> QED BY <1>1, <1>2, SumNat

LEMMA BytesNone == Bytes({}) = 0
  BY SumEmpty DEF Bytes, SumFunction

LEMMA BytesUnion ==
    ASSUME NEW ps \in SUBSET Points, IsFiniteSet(ps),
           NEW qs \in SUBSET Points, IsFiniteSet(qs), ps \cap qs = {}
    PROVE  Bytes(ps \cup qs) = Bytes(ps) + Bytes(qs)
<1> DEFINE f == [p \in ps \cup qs |-> p.gain]
<1>1. IsFiniteSet(ps \cup qs)
  BY FS_Union
<1>2. \A p \in ps \cup qs : f[p] \in Int
  BY PointTypes
<1>3. /\ Bytes(ps \cup qs) = SumFunctionOnSet(f, ps \cup qs)
      /\ Bytes(ps) = SumFunctionOnSet(f, ps)
      /\ Bytes(qs) = SumFunctionOnSet(f, qs)
  BY <1>1, BytesOn
<1>4. QED
  <2> HIDE DEF f
  <2> QED BY <1>2, <1>3, SumUnion

LEMMA BytesOne == ASSUME NEW p \in Points PROVE Bytes({p}) = p.gain
<1> DEFINE f == [q \in {p} |-> q.gain]
<1>1. Bytes({p}) = SumFunctionOnSet(f, {p})
  BY DEF Bytes, SumFunction
<1>2. f[p] = p.gain /\ p.gain \in Int /\ {p} = {} \cup {p}
  BY PointTypes
<1>3. SumFunctionOnSet(f, {} \cup {p}) = f[p] + SumFunctionOnSet(f, {})
  <2> HIDE DEF f
  <2> QED BY <1>2, SumAdd, FS_EmptySet
<1>4. QED
  BY <1>1, <1>2, <1>3, SumEmpty

LEMMA BytesMore ==
    ASSUME NEW ps \in SUBSET Points, IsFiniteSet(ps), NEW qs \in SUBSET ps
    PROVE  Bytes(qs) <= Bytes(ps)
<1>1. IsFiniteSet(qs) /\ IsFiniteSet(ps \ qs)
  BY FS_Subset
<1>2. Bytes(qs \cup (ps \ qs)) = Bytes(qs) + Bytes(ps \ qs)
  BY <1>1, BytesUnion
<1>3. Bytes(qs) \in Nat /\ Bytes(ps \ qs) \in Nat
  BY <1>1, BytesNat
<1>4. Bytes(qs \cup (ps \ qs)) = Bytes(ps)
  <2>1. qs \cup (ps \ qs) = ps
    OBVIOUS
  <2>2. QED
    BY <2>1
<1>5. QED
  BY <1>2, <1>3, <1>4

-----------------------------------------------------------------------------
(***************************************************************************)
(* The latest of a set.                                                    *)
(***************************************************************************)

LEMMA LatestExists ==
    ASSUME NEW S \in SUBSET Points, IsFiniteSet(S), S # {}
    PROVE  \E q \in S : \A r \in S : r.t <= q.t
<1> DEFINE F == {T \in SUBSET S : T # {} => \E q \in T : \A r \in T : r.t <= q.t}
<1>1. {} \in F
  OBVIOUS
<1>2. ASSUME NEW T \in SUBSET S, NEW x \in S, T \in F, x \notin T
      PROVE  T \cup {x} \in F
  <2>1. CASE T = {}
    BY <2>1, PointTypes
  <2>2. CASE T # {}
    <3>1. PICK q \in T : \A r \in T : r.t <= q.t
      BY <1>2, <2>2
    <3>2. \A r \in T \cup {x} : r.t \in Nat
      BY PointTypes
    <3>3. \E z \in T \cup {x} : \A r \in T \cup {x} : r.t <= z.t
      <4>1. CASE x.t <= q.t
        BY <3>1, <3>2, <4>1
      <4>2. CASE q.t <= x.t
        BY <3>1, <3>2, <4>2
      <4>3. QED
        BY <3>2, <4>1, <4>2
    <3>4. QED
      BY <3>3
  <2>3. QED
    BY <2>1, <2>2
<1>3. S \in F
  <2> HIDE DEF F
  <2> QED BY <1>1, <1>2, FiniteInduction
<1>4. QED
  BY <1>3

LEMMA MaxExists ==
    ASSUME NEW S \in SUBSET Int, IsFiniteSet(S), S # {}
    PROVE  Max(S) \in S /\ \A n \in S : n <= Max(S)
<1> DEFINE F == {T \in SUBSET S : T # {} => \E q \in T : \A r \in T : r <= q}
<1>1. {} \in F
  OBVIOUS
<1>2. ASSUME NEW T \in SUBSET S, NEW x \in S, T \in F, x \notin T
      PROVE  T \cup {x} \in F
  <2>1. CASE T = {}
    BY <2>1
  <2>2. CASE T # {}
    <3>1. PICK q \in T : \A r \in T : r <= q
      BY <1>2, <2>2
    <3>2. \E z \in T \cup {x} : \A r \in T \cup {x} : r <= z
      <4>1. CASE x <= q
        BY <3>1, <4>1
      <4>2. CASE q <= x
        BY <3>1, <4>2
      <4>3. QED
        BY <4>1, <4>2
    <3>3. QED
      BY <3>2
  <2>3. QED
    BY <2>1, <2>2
<1>3. S \in F
  <2> HIDE DEF F
  <2> QED BY <1>1, <1>2, FiniteInduction
<1>4. \E q \in S : \A r \in S : q >= r
  BY <1>3
<1>5. QED
  BY <1>4 DEF Max

LEMMA OfTwo ==
    ASSUME NEW a \in Int, NEW b \in Int
    PROVE  /\ Min({a, b}) = IF a <= b THEN a ELSE b
           /\ Max({a, b}) = IF a <= b THEN b ELSE a
  BY DEF Min, Max

-----------------------------------------------------------------------------
(***************************************************************************)
(* What the view reads.                                                    *)
(***************************************************************************)

LEMMA ExportedTypes ==
    ASSUME TypeOK, SampleInv
    PROVE  Exported \in SUBSET Points /\ IsFiniteSet(Exported) /\ IsFiniteSet(sent \cup points)
<1>1. IsFiniteSet(sent \cup points)
  BY FS_Union DEF SampleInv
<1>2. Exported \in SUBSET (sent \cup points)
  BY DEF Exported
<1>3. IsFiniteSet(Exported)
  BY <1>1, <1>2, FS_Subset
<1>4. QED
  BY <1>1, <1>2, <1>3 DEF TypeOK

\* A read without its repeated points.
Once(from) == {p \in points : p.copy = 1 /\ p.t >= from - Lookback /\ p.t < now}

LEMMA ReadOnce ==
    ASSUME TypeOK, SampleInv, NEW from \in Int
    PROVE  Distinct(Read(from)) = Once(from)
<1>1. \A p \in points : p \in Points
  BY DEF TypeOK
<1>2. ASSUME NEW p \in Distinct(Read(from)) PROVE p \in Once(from)
  <2>1. p \in points /\ p.t >= from - Lookback /\ p.t < now
    BY DEF Distinct, Read
  <2> DEFINE q == [p EXCEPT !.copy = 1]
  <2>2. /\ q.series = p.series /\ q.t = p.t /\ q.started = p.started /\ q.copy = 1
    BY <1>1, <2>1 DEF Points
  <2>3. q \in Read(from)
    BY <2>1, <2>2 DEF SampleInv, Read
  <2>4. p.copy <= 1
    BY <2>2, <2>3 DEF Distinct, SamePoint
  <2>5. QED
    BY <1>1, <2>1, <2>4, PointTypes DEF Once
<1>3. ASSUME NEW p \in Once(from) PROVE p \in Distinct(Read(from))
  <2>1. p \in Read(from) /\ p.copy = 1
    BY DEF Once, Read
  <2>2. \A q \in Read(from) : 1 <= q.copy
    BY <1>1, PointTypes DEF Read
  <2>3. QED
    BY <2>1, <2>2 DEF Distinct
<1>4. QED
  BY <1>2, <1>3

LEMMA OnceTypes ==
    ASSUME TypeOK, SampleInv, NEW from \in Int
    PROVE  /\ Once(from) \in SUBSET Points /\ IsFiniteSet(Once(from))
           /\ Once(from) \subseteq Exported
<1>1. Once(from) \in SUBSET points
  BY DEF Once
<1>2. IsFiniteSet(Once(from))
  BY <1>1, FS_Subset DEF SampleInv
<1>3. QED
  BY <1>1, <1>2 DEF TypeOK, Once, Exported

\* The sample before another in a read.
LEMMA PreviousIs ==
    ASSUME NEW S \in SUBSET Points, IsFiniteSet(S), NEW p \in Points, Earlier(S, p) # {}
    PROVE  /\ Previous(S, p) \in S
           /\ Previous(S, p).series = p.series /\ Previous(S, p).t < p.t
           /\ \A r \in Earlier(S, p) : r.t <= Previous(S, p).t
<1>1. Earlier(S, p) \in SUBSET Points /\ IsFiniteSet(Earlier(S, p))
  BY FS_Subset DEF Earlier
<1>2. \E q \in Earlier(S, p) : \A r \in Earlier(S, p) : r.t <= q.t
  BY <1>1, LatestExists
<1>3. /\ Previous(S, p) \in Earlier(S, p)
      /\ \A r \in Earlier(S, p) : r.t <= Previous(S, p).t
  BY <1>2 DEF Previous
<1>4. QED
  BY <1>3 DEF Earlier

\* An increase is a number of bytes: a counter that went back is a reset.
LEMMA IncreaseNat ==
    ASSUME TypeOK, SampleInv, NEW from \in Int, NEW p \in Once(from)
    PROVE  Increase(Once(from), p, from) \in Nat
<1>1. Once(from) \in SUBSET Points /\ IsFiniteSet(Once(from)) /\ p.v \in Nat
  BY OnceTypes, PointTypes
<1>2. CASE p.series \in Delta \/ Earlier(Once(from), p) = {}
  BY <1>1, <1>2 DEF Increase
<1>3. CASE p.series \notin Delta /\ Earlier(Once(from), p) # {}
  <2> DEFINE q == Previous(Once(from), p)
  <2>1. q.v \in Nat
    BY <1>1, <1>3, PreviousIs, PointTypes
  <2>2. Increase(Once(from), p, from)
            = IF p.started <= q.started /\ p.v >= q.v THEN p.v - q.v ELSE p.v
    BY <1>3 DEF Increase
  <2> HIDE DEF q
  <2>3. QED
    BY <1>1, <2>1, <2>2
<1>4. QED
  BY <1>2, <1>3

LEMMA LandedTypes ==
    ASSUME TypeOK, SampleInv, NEW m
    PROVE  /\ Landed(m) \in SUBSET Points /\ IsFiniteSet(Landed(m))
           /\ Landed(m) \subseteq Exported
<1>1. Landed(m) \in SUBSET points
  BY DEF Landed
<1>2. IsFiniteSet(Landed(m))
  BY <1>1, FS_Subset DEF SampleInv
<1>3. QED
  BY <1>1, <1>2 DEF TypeOK, Landed, Exported

\* A row for each minute of the window that has samples.
LEMMA IngestIs ==
    ASSUME TypeOK, SampleInv, NEW from \in Int
    PROVE  /\ DOMAIN Ingest(from) = {m \in Minutes : from <= m /\ m < now /\ Landed(m) # {}}
           /\ \A m \in DOMAIN Ingest(from) :
                 /\ Landed(m) \subseteq Once(from)
                 /\ Ingest(from)[m] = SumFunctionOnSet(
                        [p \in Landed(m) |-> Increase(Once(from), p, from)], Landed(m))
<1> DEFINE window == {p \in Once(from) : p.t >= from}
           D == {p.t : p \in window}
<1>1. Ingest(from) = [m \in D |->
         SumFunction([p \in {q \in window : q.t = m} |-> Increase(Once(from), p, from)])]
  BY ReadOnce, Zenon DEF Ingest
<1>2. \A p \in points : p \in Points /\ p.t \in Minutes /\ p.t \in Nat
  BY PointTypes DEF TypeOK
<1>3. D = {m \in Minutes : from <= m /\ m < now /\ Landed(m) # {}}
  <2>1. ASSUME NEW p \in window
        PROVE  p.t \in Minutes /\ from <= p.t /\ p.t < now /\ p \in Landed(p.t)
    BY <1>2 DEF Once, Landed
  <2>2. ASSUME NEW m \in Minutes, from <= m, m < now, NEW p \in Landed(m)
        PROVE  p \in window /\ p.t = m
    BY <1>2, <2>2, Bounds DEF Once, Landed
  <2>3. QED
    BY <2>1, <2>2
<1>4. ASSUME NEW m \in D
      PROVE  {q \in window : q.t = m} = Landed(m)
  BY <1>2, <1>3, <1>4, Bounds DEF Once, Landed
<1>5. DOMAIN Ingest(from) = D
  BY <1>1
<1>6. ASSUME NEW m \in D
      PROVE  /\ Landed(m) \subseteq Once(from)
             /\ Ingest(from)[m] = SumFunctionOnSet(
                    [p \in Landed(m) |-> Increase(Once(from), p, from)], Landed(m))
  <2>1. Ingest(from)[m]
            = SumFunction([p \in {q \in window : q.t = m} |-> Increase(Once(from), p, from)])
    BY <1>1
  <2>2. Ingest(from)[m] = SumFunction([p \in Landed(m) |-> Increase(Once(from), p, from)])
    <3> HIDE DEF window, D
    <3> QED BY <1>4, <2>1, Zenon
  <2>3. Landed(m) \subseteq Once(from)
    BY <1>4
  <2>4. QED
    BY <2>2, <2>3 DEF SumFunction
<1>7. QED
  BY <1>3, <1>5, <1>6

\* A sample whose predecessors all landed increases by its gain.
LEMMA ExactIncrease ==
    ASSUME TypeOK, SampleInv, ClockInv, GainInv, Heard, NEW from \in Int,
           NEW p \in Once(from), p.t >= from,
           \A e \in Exported : e.series = p.series /\ e.t < p.t => e \notin sent
    PROVE  Increase(Once(from), p, from) = p.gain
<1>1. /\ Once(from) \in SUBSET Points /\ IsFiniteSet(Once(from))
      /\ p \in Exported /\ p \in Points
  BY OnceTypes
<1>2. /\ p.t \in Nat /\ p.started \in Nat /\ p.t < now /\ now \in Nat
      /\ Lookback \in Nat /\ MaxSilence \in Nat /\ p.series \in Series
  BY <1>1, Bounds, PointTypes DEF Once, TypeOK
<1>3. ASSUME NEW e \in Exported, e.series = p.series, e.t < p.t, e.t >= from - Lookback
      PROVE  e \in Earlier(Once(from), p)
  <2>1. e \in points /\ e.copy = 1
    BY <1>3 DEF Exported
  <2>2. e \in Points
    BY <2>1 DEF TypeOK
  <2>3. e.t < now
    BY <1>2, <1>3, <2>2, PointTypes
  <2>4. QED
    BY <1>3, <2>1, <2>3 DEF Once, Earlier
<1>4. CASE p.series \in Delta
  BY <1>1, <1>4 DEF Increase, GainInv
<1>5. CASE p.series \in Cumulative
  <2>1. p.series \notin Delta
    BY <1>5, BoundsAssumption
  <2>2. CASE Earlier(Once(from), p) = {}
    <3>1. ~ \E q \in Exported :
               q.series = p.series /\ q.t < p.t /\ p.t <= q.t + MaxSilence
      <4> SUFFICES ASSUME NEW q \in Exported, q.series = p.series, q.t < p.t,
                          p.t <= q.t + MaxSilence
                   PROVE  FALSE
        OBVIOUS
      <4>1. q.t \in Nat
        BY ExportedTypes, PointTypes
      <4>2. q.t >= from - Lookback
        BY <1>2, <4>1 DEF Heard
      <4>3. QED
        BY <1>3, <2>2, <4>2
    <3>2. p.v = p.gain /\ p.t <= p.started + Lookback
      BY <1>1, <1>5, <3>1 DEF GainInv
    <3>3. StartedInRead(p, from)
      BY <1>2, <3>2 DEF StartedInRead
    <3>4. QED
      BY <2>1, <2>2, <3>2, <3>3 DEF Increase
  <2>3. CASE Earlier(Once(from), p) # {}
    <3> DEFINE q == Previous(Once(from), p)
    <3>1. /\ q \in Once(from) /\ q.series = p.series /\ q.t < p.t
          /\ \A r \in Earlier(Once(from), p) : r.t <= q.t
      BY <1>1, <2>3, PreviousIs
    <3>2. q \in Exported /\ q.t \in Nat /\ q.t >= from - Lookback
      BY <3>1, OnceTypes, PointTypes DEF Once
    <3>3. Increase(Once(from), p, from) = Over(q, p)
      BY <2>1, <2>3 DEF Increase, Over
    <3> HIDE DEF q
    <3>4. After(q.t, p) = {p}
      <4>1. ASSUME NEW e \in After(q.t, p) PROVE e = p
        <5>1. e \in Exported /\ e.series = p.series /\ q.t < e.t /\ e.t <= p.t /\ e.t \in Nat
          BY ExportedTypes, PointTypes DEF After
        <5>2. ~(e.t < p.t)
          <6>1. e.t >= from - Lookback
            BY <1>2, <3>2, <5>1
          <6>2. e.t < p.t => e.t <= q.t
            BY <1>3, <3>1, <5>1, <6>1
          <6>3. QED
            BY <1>2, <3>2, <5>1, <6>2
        <5>3. e.t = p.t
          BY <1>2, <5>1, <5>2
        <5>4. QED
          BY <1>1, <5>1, <5>3 DEF SampleInv
      <4>2. p \in After(q.t, p)
        BY <1>1, <1>2, <3>1 DEF After
      <4>3. QED
        BY <4>1, <4>2
    <3>5. Over(q, p) = p.gain
      BY <1>1, <1>5, <3>1, <3>2, <3>4 DEF GainInv
    <3>6. QED
      BY <3>3, <3>5
  <2>4. QED
    BY <2>2, <2>3
<1>6. QED
  BY <1>2, <1>4, <1>5 DEF Series

-----------------------------------------------------------------------------
(***************************************************************************)
(* What a row counts is covered by no row before it.                       *)
(***************************************************************************)

\* The samples that the rows up to a minute cover and those before it do not.
Newly(m) == Covered(m + 1) \ Covered(m)
NewlyOf(p) == {e \in Newly(p.t) : e.series = p.series}

LEMMA CoveredTypes ==
    ASSUME TypeOK, SampleInv, NEW m
    PROVE  /\ Covered(m) \in SUBSET Exported
           /\ Covered(m) \in SUBSET Points /\ IsFiniteSet(Covered(m))
<1>1. Covered(m) \in SUBSET Exported
  BY DEF Covered
<1>2. QED
  BY <1>1, ExportedTypes, FS_Subset

LEMMA NewlyTypes ==
    ASSUME TypeOK, SampleInv, NEW m
    PROVE  Newly(m) \in SUBSET Points /\ IsFiniteSet(Newly(m))
<1>1. Newly(m) \in SUBSET Covered(m + 1)
  BY DEF Newly
<1>2. QED
  BY <1>1, CoveredTypes, FS_Subset

LEMMA AfterTypes ==
    ASSUME TypeOK, SampleInv, NEW t, NEW p
    PROVE  After(t, p) \in SUBSET Points /\ IsFiniteSet(After(t, p))
<1>1. After(t, p) \in SUBSET Exported
  BY DEF After
<1>2. QED
  BY <1>1, ExportedTypes, FS_Subset

\* A sample covers those after a time at which, or later, none of its series landed
\* before it.
LEMMA CoversAfter ==
    ASSUME TypeOK, SampleInv, NEW p \in points, p.copy = 1, NEW t \in Int,
           \A r \in points : r.series = p.series /\ r.copy = 1 /\ r.t < p.t => r.t <= t
    PROVE  After(t, p) \in SUBSET NewlyOf(p)
<1> SUFFICES ASSUME NEW e \in After(t, p) PROVE e \in NewlyOf(p)
  OBVIOUS
<1>1. p \in Points /\ p.t \in Nat
  BY PointTypes DEF TypeOK
<1>2. /\ e \in Exported /\ e.series = p.series /\ t < e.t /\ e.t <= p.t
      /\ e.t \in Nat
  BY ExportedTypes, PointTypes DEF After
<1>3. e \in Covered(p.t + 1)
  BY <1>1, <1>2 DEF Covered
<1>4. e \notin Covered(p.t)
  <2> SUFFICES ASSUME NEW r \in points, r.series = e.series, e.t <= r.t, r.t < p.t
               PROVE  FALSE
    BY DEF Covered
  <2>1. r \in Points /\ r.t \in Nat /\ [r EXCEPT !.copy = 1] \in points
    BY PointTypes DEF TypeOK, SampleInv
  <2>2. r.t <= t
    <3> DEFINE first == [r EXCEPT !.copy = 1]
    <3>1. first.series = r.series /\ first.t = r.t /\ first.copy = 1
      BY <2>1 DEF Points
    <3> HIDE DEF first
    <3>2. QED
      BY <1>2, <2>1, <3>1 DEF first
  <2>3. QED
    BY <1>2, <2>1, <2>2
<1>5. QED
  BY <1>2, <1>3, <1>4 DEF Newly, NewlyOf

LEMMA BytesOfNewly ==
    ASSUME TypeOK, SampleInv, NEW p, NEW ps \in SUBSET NewlyOf(p)
    PROVE  Bytes(ps) <= Bytes(NewlyOf(p)) /\ Bytes(ps) \in Nat /\ Bytes(NewlyOf(p)) \in Nat
<1>1. NewlyOf(p) \in SUBSET Newly(p.t)
  BY DEF NewlyOf
<1>2. NewlyOf(p) \in SUBSET Points /\ IsFiniteSet(NewlyOf(p))
  BY <1>1, NewlyTypes, FS_Subset
<1>3. ps \in SUBSET Points /\ IsFiniteSet(ps)
  BY <1>2, FS_Subset
<1>4. QED
  BY <1>2, <1>3, BytesMore, BytesNat

\* A sample of the window increases by no more than it newly covers: the read holds
\* every sample between the lookback and the window that has landed.
LEMMA IncreaseCovered ==
    ASSUME TypeOK, SampleInv, GainInv, SpanInv, NEW from \in Int,
           NEW p \in Once(from), p.t >= from
    PROVE  Increase(Once(from), p, from) <= Bytes(NewlyOf(p))
<1>1. /\ Once(from) \in SUBSET Points /\ IsFiniteSet(Once(from))
      /\ p \in Exported /\ p \in Points /\ p \in points /\ p.copy = 1
  BY OnceTypes DEF Once
<1>2. /\ p.t \in Nat /\ p.started \in Nat /\ p.v \in Nat /\ p.t < now /\ now \in Nat
      /\ p.gain \in Nat /\ p.series \in Series
  BY <1>1, Bounds, PointTypes DEF Once, TypeOK
<1>3. ASSUME NEW r \in points, r.series = p.series, r.copy = 1, r.t < p.t,
             r.t >= from - Lookback
      PROVE  r \in Earlier(Once(from), p)
  <2>1. r.t \in Nat
    BY PointTypes DEF TypeOK
  <2>2. r.t < now
    BY <1>2, <1>3, <2>1
  <2>3. QED
    BY <1>3, <2>2 DEF Once, Earlier
<1>4. \A r \in points : r.t \in Nat
  BY PointTypes DEF TypeOK
<1>5. Lookback \in Nat
  BY Bounds
<1>6. CASE p.series \in Delta
  <2>1. Increase(Once(from), p, from) = p.gain
    BY <1>1, <1>6 DEF Increase, GainInv
  <2>2. p \in After(p.t - 1, p)
    BY <1>1, <1>2 DEF After
  <2>3. After(p.t - 1, p) \in SUBSET NewlyOf(p)
    <3>1. \A r \in points : r.series = p.series /\ r.copy = 1 /\ r.t < p.t => r.t <= p.t - 1
      BY <1>2, <1>4
    <3>2. QED
      BY <1>1, <1>2, <3>1, CoversAfter
  <2>4. Bytes({p}) <= Bytes(NewlyOf(p))
    BY <2>2, <2>3, BytesOfNewly
  <2>5. QED
    BY <1>1, <2>1, <2>4, BytesOne
<1>7. CASE p.series \in Cumulative /\ Earlier(Once(from), p) = {}
  <2>1. p.series \notin Delta
    BY <1>7, BoundsAssumption
  <2>2. CASE StartedInRead(p, from)
    <3>1. Increase(Once(from), p, from) = p.v
      BY <1>7, <2>1, <2>2 DEF Increase
    <3>2. p.v <= Bytes(After(p.started - 1, p))
      BY <1>1, <1>7 DEF SpanInv
    <3>3. After(p.started - 1, p) \in SUBSET NewlyOf(p)
      <4>1. \A r \in points :
               r.series = p.series /\ r.copy = 1 /\ r.t < p.t => r.t <= p.started - 1
        BY <1>2, <1>3, <1>4, <1>5, <1>7, <2>2 DEF StartedInRead
      <4>2. QED
        BY <1>1, <1>2, <4>1, CoversAfter
    <3>4. /\ Bytes(After(p.started - 1, p)) <= Bytes(NewlyOf(p))
          /\ Bytes(After(p.started - 1, p)) \in Nat /\ Bytes(NewlyOf(p)) \in Nat
      BY <3>3, BytesOfNewly
    <3>5. QED
      BY <1>2, <3>1, <3>2, <3>4
  <2>3. CASE ~StartedInRead(p, from)
    <3>1. Increase(Once(from), p, from) = 0
      BY <1>7, <2>1, <2>3 DEF Increase
    <3>2. Bytes(NewlyOf(p)) \in Nat
      BY BytesOfNewly
    <3>3. QED
      BY <3>1, <3>2
  <2>4. QED
    BY <2>2, <2>3
<1>8. CASE p.series \in Cumulative /\ Earlier(Once(from), p) # {}
  <2>1. p.series \notin Delta
    BY <1>8, BoundsAssumption
  <2> DEFINE q == Previous(Once(from), p)
  <2>2. /\ q \in Once(from) /\ q.series = p.series /\ q.t < p.t
        /\ \A r \in Earlier(Once(from), p) : r.t <= q.t
    BY <1>1, <1>8, PreviousIs
  <2>3. q \in Exported /\ q.t \in Nat /\ q.t >= from - Lookback /\ q.v \in Nat
    BY <2>2, OnceTypes, PointTypes DEF Once
  <2>4. Increase(Once(from), p, from) = Over(q, p)
    BY <1>8, <2>1 DEF Increase, Over
  <2> HIDE DEF q
  <2>5. Over(q, p) <= Bytes(After(q.t, p)) /\ Over(q, p) \in Int
    BY <1>1, <1>2, <1>8, <2>2, <2>3 DEF SpanInv, Over
  <2>6. After(q.t, p) \in SUBSET NewlyOf(p)
    <3>1. ASSUME NEW r \in points, r.series = p.series, r.copy = 1, r.t < p.t
          PROVE  r.t <= q.t
      <4>1. CASE r.t >= from - Lookback
        BY <1>3, <2>2, <3>1, <4>1
      <4>2. CASE r.t < from - Lookback
        BY <1>4, <1>5, <2>3, <4>2
      <4>3. QED
        BY <1>4, <1>5, <4>1, <4>2
    <3>2. QED
      BY <1>1, <2>3, <3>1, CoversAfter
  <2>7. /\ Bytes(After(q.t, p)) <= Bytes(NewlyOf(p))
        /\ Bytes(After(q.t, p)) \in Nat /\ Bytes(NewlyOf(p)) \in Nat
    BY <2>6, BytesOfNewly
  <2>8. QED
    BY <2>4, <2>5, <2>7
<1>9. QED
  BY <1>2, <1>6, <1>7, <1>8 DEF Series

\* So the samples of a minute increase by no more than its row newly covers.
LEMMA RowCovered ==
    ASSUME TypeOK, SampleInv, GainInv, SpanInv, NEW from \in Int,
           NEW m \in DOMAIN Ingest(from)
    PROVE  Ingest(from)[m] <= Bytes(Newly(m)) /\ Ingest(from)[m] \in Nat
<1> DEFINE inc == [p \in Landed(m) |-> Increase(Once(from), p, from)]
           Of(Q) == {e \in Newly(m) : \E p \in Q : e.series = p.series}
           F == {Q \in SUBSET Landed(m) : SumFunctionOnSet(inc, Q) <= Bytes(Of(Q))}
<1>1. /\ Landed(m) \in SUBSET Points /\ IsFiniteSet(Landed(m)) /\ Landed(m) \subseteq Exported
      /\ Landed(m) \subseteq Once(from) /\ from <= m
      /\ Ingest(from)[m] = SumFunctionOnSet(inc, Landed(m))
  BY IngestIs, LandedTypes
<1>2. \A p \in Landed(m) : p.t = m /\ inc[p] \in Nat /\ inc[p] <= Bytes(NewlyOf(p))
  <2> SUFFICES ASSUME NEW p \in Landed(m)
               PROVE  p.t = m /\ inc[p] \in Nat /\ inc[p] <= Bytes(NewlyOf(p))
    OBVIOUS
  <2>1. p.t = m /\ p \in Once(from)
    BY <1>1 DEF Landed
  <2>2. inc[p] = Increase(Once(from), p, from)
    OBVIOUS
  <2>3. QED
    BY <1>1, <2>1, <2>2, IncreaseNat, IncreaseCovered
<1>3. ASSUME NEW Q
      PROVE  Of(Q) \in SUBSET Points /\ IsFiniteSet(Of(Q)) /\ Bytes(Of(Q)) \in Nat
  <2>1. Of(Q) \in SUBSET Newly(m)
    OBVIOUS
  <2>2. Of(Q) \in SUBSET Points /\ IsFiniteSet(Of(Q))
    BY <2>1, NewlyTypes, FS_Subset
  <2>3. QED
    BY <2>2, BytesNat
<1> HIDE DEF inc
<1>4. {} \in F
  BY <1>3, SumEmpty
<1>5. ASSUME NEW Q \in SUBSET Landed(m), NEW x \in Landed(m), Q \in F, x \notin Q
      PROVE  Q \cup {x} \in F
  <2>1. Of(Q \cup {x}) = Of(Q) \cup Of({x}) /\ Of({x}) = NewlyOf(x)
    BY <1>2 DEF NewlyOf
  <2>2. Of(Q) \cap Of({x}) = {}
    <3>1. \A p \in Q : p.series # x.series
      BY <1>1, <1>2, <1>5 DEF SampleInv
    <3>2. QED
      BY <3>1
  <2>3. IsFiniteSet(Q) /\ \A p \in Q : inc[p] \in Int
    BY <1>1, <1>2, FS_Subset
  <2>4. SumFunctionOnSet(inc, Q \cup {x}) = inc[x] + SumFunctionOnSet(inc, Q)
    BY <1>2, <1>5, <2>3, SumAdd
  <2>5. SumFunctionOnSet(inc, Q) \in Int /\ SumFunctionOnSet(inc, Q) <= Bytes(Of(Q))
    BY <1>5, <2>3, SumTake
  <2>6. Bytes(Of(Q \cup {x})) = Bytes(Of(Q)) + Bytes(NewlyOf(x))
    <3>1. Bytes(Of(Q) \cup Of({x})) = Bytes(Of(Q)) + Bytes(Of({x}))
      <4> HIDE DEF Of
      <4> QED BY <1>3, <2>2, BytesUnion
    <3>2. QED
      BY <2>1, <3>1
  <2>7. /\ Bytes(Of(Q)) \in Nat /\ Bytes(NewlyOf(x)) \in Nat
        /\ inc[x] \in Nat /\ inc[x] <= Bytes(NewlyOf(x))
    BY <1>2, <1>3, <2>1
  <2>8. SumFunctionOnSet(inc, Q \cup {x}) <= Bytes(Of(Q \cup {x}))
    <3> HIDE DEF Of
    <3> QED BY <2>4, <2>5, <2>6, <2>7
  <2>9. QED
    BY <2>8
<1>6. Landed(m) \in F
  <2> HIDE DEF F
  <2> QED BY <1>1, <1>4, <1>5, FiniteInduction
<1>7. Bytes(Of(Landed(m))) <= Bytes(Newly(m)) /\ Bytes(Newly(m)) \in Nat
  BY <1>3, NewlyTypes, BytesMore, BytesNat
<1>8. SumFunctionOnSet(inc, Landed(m)) \in Nat
  BY <1>1, <1>2, SumNat
<1>9. SumFunctionOnSet(inc, Landed(m)) <= Bytes(Of(Landed(m)))
  BY <1>6
<1>10. QED
  <2> HIDE DEF Of
  <2> QED BY <1>1, <1>3, <1>7, <1>8, <1>9

-----------------------------------------------------------------------------
(***************************************************************************)
(* Rows.                                                                   *)
(***************************************************************************)

\* Induction on the natural numbers up to one.
LEMMA UpTo ==
    ASSUME NEW n \in Nat, NEW F, 0 \in F, \A k \in 0..(n - 1) : k \in F => k + 1 \in F
    PROVE  \A k \in 0..n : k \in F
<1> DEFINE B == {k \in 0..n : k \notin F}
<1> SUFFICES ASSUME B # {} PROVE FALSE
  OBVIOUS
<1>1. PICK k \in B : \A j \in B : ~(<<j, k>> \in OpToRel(<, Nat))
  <2>1. B \subseteq Nat
    OBVIOUS
  <2> HIDE DEF B
  <2>2. QED
    BY <2>1, NatLessThanWellFounded, WFMin
<1>2. k \in 0..n /\ k \notin F /\ k # 0
  OBVIOUS
<1>3. k - 1 \in 0..(n - 1) /\ k - 1 \in Nat /\ k \in Nat
  BY <1>2
<1>4. <<k - 1, k>> \in OpToRel(<, Nat)
  BY <1>3 DEF OpToRel
<1>5. k - 1 \in F
  <2>1. k - 1 \notin B
    <3> HIDE DEF B
    <3> QED BY <1>1, <1>4
  <2>2. k - 1 \in 0..n
    BY <1>3
  <2>3. QED
    BY <2>1, <2>2
<1>6. QED
  BY <1>2, <1>3, <1>5

LEMMA SumUpTo ==
    ASSUME NEW f \in [Minutes -> Nat], NEW m \in Minutes
    PROVE  /\ SumFunctionOnSet(f, 0..m) = f[m] + SumFunctionOnSet(f, 0..(m - 1))
           /\ SumFunctionOnSet(f, 0..(m - 1)) \in Nat
<1>1. m \in Nat /\ m \in 0..MaxNow /\ MaxNow \in Nat
  BY Bounds
<1>2. /\ IsFiniteSet(0..(m - 1)) /\ m \notin 0..(m - 1)
      /\ 0..m = (0..(m - 1)) \cup {m}
  <2>1. m - 1 \in Int /\ 0 \in Int
    BY <1>1
  <2>2. IsFiniteSet(0..(m - 1))
    BY <2>1, FS_Interval
  <2>3. m \notin 0..(m - 1)
    BY <1>1
  <2>4. 0..m = (0..(m - 1)) \cup {m}
    BY <1>1
  <2>5. QED
    BY <2>2, <2>3, <2>4
<1>3. \A y \in 0..(m - 1) : y \in Minutes /\ f[y] \in Nat
  BY <1>1, Bounds
<1>4. SumFunctionOnSet(f, (0..(m - 1)) \cup {m}) = f[m] + SumFunctionOnSet(f, 0..(m - 1))
  BY <1>2, <1>3, SumAdd
<1>5. QED
  BY <1>2, <1>3, <1>4, SumNat

LEMMA WindowIs ==
    ASSUME TypeOK, RowInv
    PROVE  /\ WindowStart \in Int
           /\ \/ WindowStart <= now - MaxBack
              \/ WindowStart <= now - LateWindow /\ WindowStart <= 0
              \/ WindowStart <= now - LateWindow /\ WindowStart < refreshed
<1>1. now \in Nat /\ refreshed \in Nat /\ MaxBack \in Nat /\ LateWindow \in Nat
  BY Bounds DEF TypeOK
<1>2. LastMinute \in Int /\ (LastMinute = 0 \/ LastMinute < refreshed)
  <2>1. CASE DOMAIN usage_minute = {}
    BY <2>1 DEF LastMinute
  <2>2. CASE DOMAIN usage_minute # {}
    <3>1. DOMAIN usage_minute \in SUBSET (0..MaxNow) /\ IsFiniteSet(0..MaxNow)
      BY Bounds, FS_Interval DEF TypeOK
    <3>2. DOMAIN usage_minute \in SUBSET Int /\ IsFiniteSet(DOMAIN usage_minute)
      <4>1. IsFiniteSet(DOMAIN usage_minute)
        BY <3>1, FS_Subset
      <4>2. DOMAIN usage_minute \in SUBSET Int
        BY <3>1
      <4>3. QED
        BY <4>1, <4>2
    <3>3. Max(DOMAIN usage_minute) \in DOMAIN usage_minute
      BY <2>2, <3>2, MaxExists
    <3>4. QED
      BY <2>2, <3>2, <3>3 DEF LastMinute, RowInv
  <2>3. QED
    BY <2>1, <2>2
<1>3. /\ Min({now - LateWindow, LastMinute}) \in Int
      /\ Min({now - LateWindow, LastMinute}) <= now - LateWindow
      /\ Min({now - LateWindow, LastMinute}) <= LastMinute
  <2> DEFINE a == now - LateWindow
  <2>1. a \in Int
    BY <1>1
  <2> HIDE DEF a
  <2>2. /\ Min({a, LastMinute}) \in Int
        /\ Min({a, LastMinute}) <= a /\ Min({a, LastMinute}) <= LastMinute
    BY <1>2, <2>1, OfTwo
  <2>3. QED
    BY <2>2 DEF a
<1>4. /\ WindowStart \in Int
      /\ \/ WindowStart <= now - MaxBack
         \/ WindowStart <= Min({now - LateWindow, LastMinute})
  <2> DEFINE a == now - MaxBack
             b == Min({now - LateWindow, LastMinute})
  <2>1. a \in Int /\ b \in Int
    BY <1>1, <1>3
  <2>2. WindowStart = Max({a, b})
    BY DEF WindowStart
  <2> HIDE DEF a, b
  <2>3. WindowStart \in Int /\ (WindowStart <= a \/ WindowStart <= b)
    BY <2>1, <2>2, OfTwo
  <2>4. QED
    BY <2>3 DEF a, b
<1>5. QED
  BY <1>1, <1>2, <1>3, <1>4

LEMMA RowTypes == ASSUME TypeOK, NEW m PROVE Row(m) \in Nat
  BY DEF TypeOK, Row

LEMMA RowsBeforeInt ==
    ASSUME TypeOK, NEW m \in 0..(MaxNow + 1) PROVE RowsBefore(m) \in Int
<1> DEFINE f == [n \in Minutes |-> Row(n)]
<1>1. 0..(m - 1) \subseteq Minutes /\ m - 1 \in Int
  BY Bounds
<1>2. \A n \in 0..(m - 1) : f[n] \in Int
  BY <1>1, RowTypes
<1>3. IsFiniteSet(0..(m - 1))
  BY <1>1, FS_Interval
<1>4. SumFunctionOnSet(f, 0..(m - 1)) \in Int
  <2> HIDE DEF f
  <2> QED BY <1>2, <1>3, SumTake
<1>5. QED
  BY <1>4 DEF RowsBefore

LEMMA NoRows ==
    ASSUME NEW m \in 0..(MaxNow + 1)
    PROVE  SumFunctionOnSet([n \in Minutes |-> 0], 0..(m - 1)) = 0
<1> DEFINE g == [n \in Minutes |-> 0]
           F == {T \in SUBSET (0..(m - 1)) : SumFunctionOnSet(g, T) = 0}
<1>1. 0..(m - 1) \subseteq Minutes /\ m - 1 \in Int
  BY Bounds
<1>2. \A n \in 0..(m - 1) : g[n] = 0
  BY <1>1
<1>3. IsFiniteSet(0..(m - 1))
  BY <1>1, FS_Interval
<1> HIDE DEF g
<1>4. {} \in F
  BY SumEmpty
<1>5. ASSUME NEW T \in SUBSET (0..(m - 1)), NEW x \in 0..(m - 1), T \in F, x \notin T
      PROVE  T \cup {x} \in F
  <2>1. IsFiniteSet(T)
    BY <1>3, FS_Subset
  <2>2. g[x] = 0 /\ g[x] \in Int /\ \A y \in T : g[y] \in Int
    BY <1>2
  <2>3. SumFunctionOnSet(g, T) = 0
    BY <1>5
  <2>4. SumFunctionOnSet(g, T \cup {x}) = g[x] + SumFunctionOnSet(g, T)
    <3> HIDE DEF F
    <3> QED BY <1>5, <2>1, <2>2, SumAdd
  <2>5. SumFunctionOnSet(g, T \cup {x}) = 0
    BY <2>2, <2>3, <2>4
  <2>6. QED
    BY <2>5
<1>6. 0..(m - 1) \in F
  <2> HIDE DEF F
  <2> QED BY <1>3, <1>4, <1>5, FiniteInduction
<1>7. QED
  BY <1>6 DEF g

\* A refresh writes the rows of its window that have samples.
LEMMA RefreshedRows ==
    ASSUME TypeOK, SampleInv, ClockInv, RowInv, Refresh
    PROVE  /\ DOMAIN usage_minute' = DOMAIN Ingest(WindowStart) \cup DOMAIN usage_minute
           /\ \A m \in DOMAIN Ingest(WindowStart) :
                 m \in Minutes /\ WindowStart <= m /\ Row(m)' = Ingest(WindowStart)[m]
           /\ \A m \in Minutes \ DOMAIN Ingest(WindowStart) :
                 Row(m)' = Row(m) /\ (m >= WindowStart => Row(m) = 0)
<1> DEFINE new == Ingest(WindowStart)
<1>1. usage_minute' = [m \in DOMAIN new \cup DOMAIN usage_minute |->
                          IF m \in DOMAIN new THEN new[m] ELSE usage_minute[m]]
  BY DEF Refresh, Replacing
<1>2. WindowStart \in Int
  BY WindowIs
<1>3. DOMAIN new = {m \in Minutes : WindowStart <= m /\ m < now /\ Landed(m) # {}}
  BY <1>2, IngestIs
<1> HIDE DEF new
<1>4. ASSUME NEW m \in DOMAIN new
      PROVE  m \in Minutes /\ WindowStart <= m /\ Row(m)' = new[m]
  BY <1>1, <1>3, <1>4 DEF Row
<1>5. ASSUME NEW m \in Minutes \ DOMAIN new
      PROVE  Row(m)' = Row(m) /\ (m >= WindowStart => Row(m) = 0)
  <2>1. Row(m)' = Row(m)
    BY <1>1 DEF Row
  <2>2. ASSUME m >= WindowStart PROVE m \notin DOMAIN usage_minute
    <3> SUFFICES ASSUME m \in DOMAIN usage_minute PROVE FALSE
      OBVIOUS
    <3>1. m < refreshed /\ Landed(m) # {} /\ refreshed \in Nat /\ now \in Nat /\ m \in Nat
      BY Bounds DEF RowInv, TypeOK
    <3>2. m < now
      BY <3>1 DEF Refresh
    <3>3. QED
      BY <1>2, <1>3, <2>2, <3>1, <3>2
  <2>3. QED
    BY <2>1, <2>2 DEF Row
<1>6. QED
  BY <1>1, <1>4, <1>5 DEF new

LEMMA RefreshPrefix ==
    ASSUME TypeOK, SampleInv, ClockInv, GainInv, SpanInv, RowInv, PrefixInv, Refresh
    PROVE  PrefixInv'
<1> DEFINE f == [n \in Minutes |-> Row(n)]
           g == [n \in Minutes |-> Row(n)']
           from == WindowStart
           F == {k \in 0..(MaxNow + 1) : SumFunctionOnSet(g, 0..(k - 1)) <= Bytes(Covered(k))}
<1>1. \A k : Covered(k)' = Covered(k) /\ Bytes(Covered(k))' = Bytes(Covered(k))
  BY DEF Refresh, Covered, Exported, Bytes
<1>2. from \in Int
  BY WindowIs
<1>3. \A m \in DOMAIN Ingest(from) : /\ m \in Minutes /\ from <= m
                                     /\ Row(m)' = Ingest(from)[m] /\ Row(m)' \in Nat
                                     /\ Row(m)' <= Bytes(Newly(m))
  BY <1>2, RefreshedRows, RowCovered
<1>4. \A m \in Minutes \ DOMAIN Ingest(from) :
         Row(m)' = Row(m) /\ Row(m)' \in Nat /\ (m >= from => Row(m)' = 0)
  BY RefreshedRows, RowTypes
<1> HIDE DEF from
<1>5. f \in [Minutes -> Nat] /\ g \in [Minutes -> Nat]
  BY <1>3, <1>4, RowTypes
<1>6. \A k : Bytes(Newly(k)) \in Nat /\ Bytes(Covered(k)) \in Nat
  BY NewlyTypes, CoveredTypes, BytesNat
<1>7. 0 \in F
  <2>1. 0..(0 - 1) = {}
    OBVIOUS
  <2>2. SumFunctionOnSet(g, {}) = 0
    BY SumEmpty
  <2>3. SumFunctionOnSet(g, 0..(0 - 1)) = 0
    BY <2>1, <2>2
  <2>4. 0 \in 0..(MaxNow + 1)
    BY Bounds
  <2> HIDE DEF g
  <2>5. QED
    BY <1>6, <2>3, <2>4
<1>8. ASSUME NEW k \in 0..((MaxNow + 1) - 1), k \in F PROVE k + 1 \in F
  <2>1. k \in Minutes /\ k \in Nat /\ k + 1 \in 0..(MaxNow + 1) /\ (k + 1) - 1 = k
    BY Bounds
  <2>2. CASE k < from
    <3>1. \A n \in 0..k : n \in Minutes /\ n < from
      BY <1>2, <2>1, <2>2, Bounds
    <3>2. \A n \in 0..k : f[n] \in Int /\ g[n] = f[n]
      BY <1>2, <1>3, <1>4, <3>1, RowTypes
    <3>3. IsFiniteSet(0..k)
      BY <2>1, FS_Interval
    <3>4. RowsBefore(k + 1) = SumFunctionOnSet(f, 0..k)
      BY <2>1 DEF RowsBefore
    <3>5. RowsBefore(k + 1) <= Bytes(Covered(k + 1))
      BY <2>1 DEF PrefixInv
    <3> HIDE DEF f, g
    <3>6. SumFunctionOnSet(g, 0..k) = SumFunctionOnSet(f, 0..k)
      BY <3>2, <3>3, SumSame
    <3>7. SumFunctionOnSet(g, 0..((k + 1) - 1)) <= Bytes(Covered(k + 1))
      BY <2>1, <3>4, <3>5, <3>6
    <3>8. QED
      BY <2>1, <3>7
  <2>3. CASE k >= from
    <3>1. g[k] <= Bytes(Newly(k)) /\ g[k] \in Nat
      BY <1>3, <1>4, <1>5, <1>6, <2>1, <2>3
    <3>2. Bytes(Covered(k + 1)) = Bytes(Covered(k)) + Bytes(Newly(k))
      <4>1. Covered(k + 1) = Covered(k) \cup Newly(k) /\ Covered(k) \cap Newly(k) = {}
        <5>1. ASSUME NEW e \in Covered(k) PROVE e \in Covered(k + 1)
          <6>1. PICK p \in points : p.series = e.series /\ e.t <= p.t /\ p.t < k
            BY DEF Covered
          <6>2. p.t < k + 1
            BY <2>1, <6>1, PointTypes DEF TypeOK
          <6>3. QED
            BY <6>1, <6>2 DEF Covered
        <5>2. QED
          BY <5>1 DEF Newly
      <4>2. Bytes(Covered(k) \cup Newly(k)) = Bytes(Covered(k)) + Bytes(Newly(k))
        BY <4>1, CoveredTypes, NewlyTypes, BytesUnion
      <4>3. QED
        BY <4>1, <4>2
    <3>3. /\ SumFunctionOnSet(g, 0..k) = g[k] + SumFunctionOnSet(g, 0..(k - 1))
          /\ SumFunctionOnSet(g, 0..(k - 1)) \in Nat
      <4> HIDE DEF g
      <4> QED BY <1>5, <2>1, SumUpTo
    <3>4. SumFunctionOnSet(g, 0..(k - 1)) <= Bytes(Covered(k))
      BY <1>8
    <3> HIDE DEF g
    <3>5. SumFunctionOnSet(g, 0..((k + 1) - 1)) <= Bytes(Covered(k + 1))
      BY <1>6, <2>1, <3>1, <3>2, <3>3, <3>4
    <3>6. QED
      BY <2>1, <3>5
  <2>4. QED
    BY <1>2, <2>1, <2>2, <2>3
<1>9. \A k \in 0..(MaxNow + 1) : k \in F
  <2> HIDE DEF F
  <2> QED BY <1>7, <1>8, UpTo, Bounds
<1>10. \A k : RowsBefore(k)' = SumFunctionOnSet(g, 0..(k - 1))
  BY DEF RowsBefore
<1>11. QED
  <2> HIDE DEF g
  <2> QED BY <1>1, <1>9, <1>10 DEF PrefixInv
-----------------------------------------------------------------------------
(***************************************************************************)
(* Steps.                                                                  *)
(***************************************************************************)

New(s, started, v, gain) ==
    [series |-> s, t |-> now, started |-> started, v |-> v, gain |-> gain, copy |-> 1]

\* A sample goes on from the one before it, or counts from zero: because of a
\* restart, or lower than before.
GoesOn(s, started, v, gain) ==
    started = counter[s].started /\ v = IF s \in Delta THEN gain ELSE counter[s].v + gain
FromZero(s, started, v, gain) ==
    /\ s \in Cumulative /\ v = gain
    /\ \/ counter[s].started < started /\ counter[s].at < started /\ started <= now
       \/ started = counter[s].started /\ gain < counter[s].v

Sampled(s, started, v, gain) ==
    /\ Sample(s, started, v, gain)
    /\ GoesOn(s, started, v, gain) \/ FromZero(s, started, v, gain)

LEMMA CounterTypes ==
    ASSUME TypeOK, NEW s \in Series
    PROVE  /\ counter[s].started \in Minutes /\ counter[s].started \in Nat
           /\ counter[s].v \in Nat
           /\ counter[s].at \in Int /\ (counter[s].at = -1 \/ counter[s].at \in Nat)
<1>1. counter[s] \in Counters
  BY DEF TypeOK
<1>2. /\ counter[s].started \in Minutes /\ counter[s].v \in Nat
      /\ counter[s].at \in Minutes \cup {-1}
  BY <1>1 DEF Counters
<1>3. QED
  BY <1>2, Bounds

LEMMA Steps ==
    ASSUME TypeOK, Next
    PROVE  \/ Tick
           \/ \E s \in Series, started \in Minutes, v \in Nat, gain \in Gains :
                 Sampled(s, started, v, gain)
           \/ \E p \in sent, copies \in {1, 2} : Land(p, copies)
           \/ Refresh
<1>1. ASSUME NEW s \in Series, NEW gain \in Gains, Export(s, gain)
      PROVE  \E started \in Minutes, v \in Nat : Sampled(s, started, v, gain)
  <2> DEFINE v == IF s \in Delta THEN gain ELSE counter[s].v + gain
  <2>1. v \in Nat /\ counter[s].started \in Minutes
    BY CounterTypes, Bounds
  <2>2. Sampled(s, counter[s].started, v, gain)
    BY <1>1 DEF Export, Sampled, GoesOn
  <2>3. QED
    BY <2>1, <2>2
<1>2. ASSUME NEW s \in Series, NEW started \in Minutes, NEW gain \in Gains,
             Restarted(s, started, gain)
      PROVE  Sampled(s, started, gain, gain) /\ gain \in Nat
  <2> DEFINE a == counter[s].started
             b == counter[s].at
  <2>1. a \in Int /\ b \in Int /\ started \in Int
    BY CounterTypes, Bounds
  <2>2. Max({a, b}) < started
    BY <1>2 DEF Restarted
  <2> HIDE DEF a, b
  <2>3. a < started /\ b < started
    BY <2>1, <2>2, OfTwo
  <2>4. FromZero(s, started, gain, gain)
    BY <1>2, <2>3 DEF Restarted, FromZero, a, b
  <2>5. QED
    BY <1>2, <2>4, Bounds DEF Restarted, Sampled
<1>3. ASSUME NEW s \in Series, NEW gain \in Gains, SetBack(s, gain)
      PROVE  \E started \in Minutes, v \in Nat : Sampled(s, started, v, gain)
  <2>1. gain \in Nat /\ counter[s].started \in Minutes
    BY CounterTypes, Bounds
  <2>2. Sampled(s, counter[s].started, gain, gain)
    BY <1>3 DEF SetBack, Sampled, FromZero
  <2>3. QED
    BY <2>1, <2>2
<1>4. QED
  BY <1>1, <1>2, <1>3 DEF Next

\* A landing, a refresh and the clock leave what was exported alone.
LEMMA SameExported ==
    ASSUME TypeOK, SampleInv,
           Tick \/ Refresh \/ \E p \in sent, copies \in {1, 2} : Land(p, copies)
    PROVE  Exported' = Exported
<1>1. CASE Tick \/ Refresh
  BY <1>1 DEF Tick, Refresh, Exported
<1>2. ASSUME NEW p \in sent, NEW copies \in {1, 2}, Land(p, copies)
      PROVE  Exported' = Exported
  <2>1. p \in Points /\ p.copy = 1 /\ [p EXCEPT !.copy = 1] = p
    BY DEF TypeOK, SampleInv, Points
  <2>2. \A i \in 1..copies : [p EXCEPT !.copy = i].copy = i
    BY <2>1 DEF Points
  <2>3. 1 \in 1..copies
    OBVIOUS
  <2>4. /\ sent' = sent \ {p}
        /\ points' = points \cup {[p EXCEPT !.copy = i] : i \in 1..copies}
    BY <1>2 DEF Land
  <2>5. p \in points'
    BY <2>1, <2>3, <2>4
  <2>6. ASSUME NEW q \in points', q \notin points, q.copy = 1 PROVE q = p
    <3>1. PICK i \in 1..copies : q = [p EXCEPT !.copy = i]
      BY <2>4, <2>6
    <3>2. QED
      BY <2>1, <2>2, <2>6, <3>1
  <2>7. QED
    BY <2>1, <2>4, <2>5, <2>6 DEF Exported
<1>3. QED
  BY <1>1, <1>2

\* A sample is later than every other of its series.
LEMMA NewExported ==
    ASSUME TypeOK, ClockInv, SampleInv, CounterInv,
           NEW s \in Series, NEW started \in Minutes, NEW v \in Nat, NEW gain \in Gains,
           Sampled(s, started, v, gain)
    PROVE  LET n == New(s, started, v, gain) IN
           /\ Exported' = Exported \cup {n}
           /\ n \in Points /\ gain \in Nat /\ started <= now /\ now \in Nat
           /\ \A p \in Exported : p.series = s => p.t <= counter[s].at /\ p.t < now
<1> DEFINE n == New(s, started, v, gain)
<1>1. now \in Nat /\ now \in Minutes /\ gain \in Nat
  BY Bounds DEF TypeOK
<1>2. /\ n.series = s /\ n.t = now /\ n.started = started /\ n.v = v
      /\ n.gain = gain /\ n.copy = 1
  BY DEF New
<1>3. n \in Points
  BY <1>1 DEF New, Points
<1>4. sent' = sent \cup {n} /\ points' = points /\ counter[s].at < now
  BY DEF Sampled, Sample, New
<1>5. Exported' = Exported \cup {n}
  <2> HIDE DEF n
  <2> QED BY <1>2, <1>4 DEF Exported
<1>6. started <= now
  BY DEF Sampled, GoesOn, FromZero, CounterInv
<1>7. ASSUME NEW p \in Exported, p.series = s
      PROVE  p.t <= counter[s].at /\ p.t < now
  <2>1. p.t \in Nat
    BY ExportedTypes, PointTypes
  <2>2. p.t <= counter[s].at
    BY <1>7 DEF CounterInv
  <2>3. QED
    BY <1>1, <1>4, <2>1, <2>2, CounterTypes
<1>8. QED
  BY <1>1, <1>3, <1>5, <1>6, <1>7

\* A counter that was sampled has its last sample.
LEMMA LastSample ==
    ASSUME TypeOK, CounterInv, NEW s \in Series, counter[s].at # -1
    PROVE  \E l \in Exported : /\ l.series = s /\ l.t = counter[s].at
                               /\ l.started = counter[s].started /\ l.v = counter[s].v
  BY DEF CounterInv

-----------------------------------------------------------------------------
(***************************************************************************)
(* The state.                                                              *)
(***************************************************************************)

LEMMA TypeStep ==
    ASSUME TypeOK, ClockInv, SampleInv, CounterInv, GainInv, SpanInv, RowInv, Next
    PROVE  TypeOK'
<1>1. CASE Tick
  BY <1>1, Bounds DEF Tick, TypeOK
<1>2. ASSUME NEW s \in Series, NEW started \in Minutes, NEW v \in Nat, NEW gain \in Gains,
             Sampled(s, started, v, gain)
      PROVE  TypeOK'
  <2>1. New(s, started, v, gain) \in Points
    BY <1>2, NewExported
  <2>2. sent' = sent \cup {New(s, started, v, gain)}
    BY <1>2 DEF Sampled, Sample, New
  <2>3. counter' \in [Series -> Counters]
    <3>1. [started |-> started, v |-> v, at |-> now] \in Counters
      BY DEF Counters, TypeOK
    <3>2. counter' = [counter EXCEPT ![s] = [started |-> started, v |-> v, at |-> now]]
      BY <1>2 DEF Sampled, Sample
    <3>3. QED
      BY <3>1, <3>2 DEF TypeOK
  <2>4. UNCHANGED <<now, points, usage_minute, refreshed>>
    BY <1>2 DEF Sampled, Sample
  <2>5. QED
    BY <2>1, <2>2, <2>3, <2>4 DEF TypeOK
<1>3. ASSUME NEW p \in sent, NEW copies \in {1, 2}, Land(p, copies)
      PROVE  TypeOK'
  <2>1. \A i \in 1..copies : [p EXCEPT !.copy = i] \in Points
    <3>1. p \in Points /\ 1..copies \subseteq {1, 2}
      BY DEF TypeOK
    <3>2. QED
      BY <3>1 DEF Points
  <2>2. points' \subseteq Points /\ sent' \subseteq Points
    BY <1>3, <2>1 DEF Land, TypeOK
  <2>3. UNCHANGED <<now, counter, usage_minute, refreshed>>
    BY <1>3 DEF Land
  <2>4. QED
    BY <2>2, <2>3 DEF TypeOK
<1>4. CASE Refresh
  <2> DEFINE new == Ingest(WindowStart)
  <2>1. WindowStart \in Int
    BY WindowIs
  <2>2. \A m \in DOMAIN new : m \in Minutes /\ new[m] \in Nat
    BY <1>4, <2>1, RefreshedRows, RowCovered
  <2>3. usage_minute' = [m \in DOMAIN new \cup DOMAIN usage_minute |->
                            IF m \in DOMAIN new THEN new[m] ELSE usage_minute[m]]
    BY <1>4 DEF Refresh, Replacing
  <2>4. refreshed' = now /\ UNCHANGED <<now, counter, sent, points>>
    BY <1>4 DEF Refresh
  <2> HIDE DEF new
  <2>5. QED
    BY <2>2, <2>3, <2>4 DEF TypeOK
<1>5. QED
  BY <1>1, <1>2, <1>3, <1>4, Steps

LEMMA ClockStep ==
    ASSUME TypeOK, ClockInv, SampleInv, CounterInv, Next
    PROVE  ClockInv'
<1>1. /\ now \in Nat /\ refreshed \in Nat /\ MaxGap \in Nat /\ MaxLate \in Nat
      /\ \A p \in sent \cup points : p.t \in Nat
  BY Bounds, PointTypes DEF TypeOK
<1>2. CASE Tick
  <2>1. Exported' = Exported /\ \A p \in Exported : p.t \in Nat
    BY <1>1, <1>2, SameExported DEF Exported
  <2>2. QED
    BY <1>1, <1>2, <2>1 DEF Tick, ClockInv
<1>3. ASSUME NEW s \in Series, NEW started \in Minutes, NEW v \in Nat, NEW gain \in Gains,
             Sampled(s, started, v, gain)
      PROVE  ClockInv'
  <2> DEFINE n == New(s, started, v, gain)
  <2>1. n.t = now /\ n.started = started /\ started <= now /\ Exported' = Exported \cup {n}
    BY <1>3, NewExported DEF New
  <2>2. /\ sent' = sent \cup {n}
        /\ now' = now /\ refreshed' = refreshed
    BY <1>3 DEF Sampled, Sample, New
  <2> HIDE DEF n
  <2>3. QED
    BY <1>1, <2>1, <2>2 DEF ClockInv
<1>4. ASSUME NEW p \in sent, NEW copies \in {1, 2}, Land(p, copies)
      PROVE  ClockInv'
  <2>1. Exported' = Exported
    BY <1>4, SameExported
  <2>2. QED
    BY <1>4, <2>1 DEF Land, ClockInv
<1>5. CASE Refresh
  <2>1. Exported' = Exported
    BY <1>5, SameExported
  <2>2. QED
    BY <1>1, <1>5, <2>1 DEF Refresh, ClockInv
<1>6. QED
  BY <1>2, <1>3, <1>4, <1>5, Steps

LEMMA SampleStep ==
    ASSUME TypeOK, ClockInv, SampleInv, CounterInv, Next
    PROVE  SampleInv'
<1>1. CASE Tick \/ Refresh
  <2>1. Exported' = Exported /\ sent' = sent /\ points' = points
    BY <1>1, SameExported DEF Tick, Refresh
  <2>2. QED
    BY <2>1 DEF SampleInv
<1>2. ASSUME NEW s \in Series, NEW started \in Minutes, NEW v \in Nat, NEW gain \in Gains,
             Sampled(s, started, v, gain)
      PROVE  SampleInv'
  <2> DEFINE n == New(s, started, v, gain)
  <2>1. /\ n.series = s /\ n.t = now /\ n.copy = 1 /\ Exported' = Exported \cup {n}
        /\ now \in Nat /\ \A p \in Exported : p.series = s => p.t < now
    BY <1>2, NewExported DEF New
  <2>2. sent' = sent \cup {n} /\ points' = points
    BY <1>2 DEF Sampled, Sample, New
  <2> HIDE DEF n
  <2>3. IsFiniteSet(sent')
    BY <2>2, FS_AddElement DEF SampleInv
  <2>4. \A p \in Exported : p.t \in Nat
    BY ExportedTypes, PointTypes
  <2>5. \A p, q \in Exported' : p.series = q.series /\ p.t = q.t => p = q
    BY <2>1, <2>4 DEF SampleInv
  <2>6. QED
    BY <2>1, <2>2, <2>3, <2>5 DEF SampleInv
<1>3. ASSUME NEW p \in sent, NEW copies \in {1, 2}, Land(p, copies)
      PROVE  SampleInv'
  <2> DEFINE first == [p EXCEPT !.copy = 1]
             landed == {[p EXCEPT !.copy = i] : i \in 1..copies}
  <2>1. sent' = sent \ {p} /\ points' = points \cup landed
    BY <1>3 DEF Land
  <2>2. first \in landed
    OBVIOUS
  <2>3. \A q \in landed : [q EXCEPT !.copy = 1] = first
    BY DEF TypeOK, Points
  <2>4. IsFiniteSet(landed)
    <3>1. IsFiniteSet({first, [p EXCEPT !.copy = 2]})
      <4>1. IsFiniteSet({first}) /\ IsFiniteSet({[p EXCEPT !.copy = 2]})
        BY FS_Singleton
      <4>2. IsFiniteSet({first} \cup {[p EXCEPT !.copy = 2]})
        BY <4>1, FS_Union
      <4>3. {first} \cup {[p EXCEPT !.copy = 2]} = {first, [p EXCEPT !.copy = 2]}
        OBVIOUS
      <4>4. QED
        BY <4>2, <4>3
    <3>2. landed \in SUBSET {first, [p EXCEPT !.copy = 2]}
      <4>1. 1..copies \subseteq {1, 2}
        OBVIOUS
      <4>2. QED
        BY <4>1
    <3> HIDE DEF first, landed
    <3>3. QED
      BY <3>1, <3>2, FS_Subset
  <2> HIDE DEF first, landed
  <2>5. IsFiniteSet(sent') /\ IsFiniteSet(points')
    <3>1. sent' \in SUBSET sent
      BY <2>1
    <3>2. IsFiniteSet(sent')
      BY <3>1, FS_Subset DEF SampleInv
    <3>3. QED
      BY <2>1, <2>4, <3>2, FS_Union DEF SampleInv
  <2>6. Exported' = Exported
    BY <1>3, SameExported
  <2>7. QED
    BY <2>1, <2>2, <2>3, <2>5, <2>6 DEF SampleInv
<1>4. QED
  BY <1>1, <1>2, <1>3, Steps

LEMMA CounterStep ==
    ASSUME TypeOK, ClockInv, SampleInv, CounterInv, Next
    PROVE  CounterInv'
<1>1. now \in Nat
  BY Bounds DEF TypeOK
<1>2. ASSUME Tick \/ Refresh \/ \E p \in sent, copies \in {1, 2} : Land(p, copies)
      PROVE  CounterInv'
  <2>1. Exported' = Exported
    BY <1>2, SameExported
  <2>2. counter' = counter /\ (now' = now \/ now' = now + 1)
    BY <1>2 DEF Tick, Refresh, Land
  <2>3. \A s \in Series : counter[s].started <= now' /\ counter[s].at <= now'
    BY <1>1, <2>2, CounterTypes DEF CounterInv
  <2>4. QED
    BY <2>1, <2>2, <2>3 DEF CounterInv
<1>3. ASSUME NEW s \in Series, NEW started \in Minutes, NEW v \in Nat, NEW gain \in Gains,
             Sampled(s, started, v, gain)
      PROVE  CounterInv'
  <2> DEFINE n == New(s, started, v, gain)
             last == [started |-> started, v |-> v, at |-> now]
  <2>1. /\ n.series = s /\ n.t = now /\ n.started = started /\ n.v = v
        /\ Exported' = Exported \cup {n} /\ started <= now
    BY <1>3, NewExported DEF New
  <2>2. now' = now /\ counter' = [counter EXCEPT ![s] = last]
    BY <1>3 DEF Sampled, Sample
  <2>3. last.started = started /\ last.v = v /\ last.at = now
    OBVIOUS
  <2> HIDE DEF n, last
  <2>4. counter'[s] = last /\ \A r \in Series \ {s} : counter'[r] = counter[r]
    BY <2>2 DEF TypeOK
  <2>5. SUFFICES ASSUME NEW r \in Series
        PROVE  /\ counter'[r].started <= now /\ counter'[r].at <= now
               /\ \A p \in Exported' : p.series = r => p.t <= counter'[r].at
               /\ IF counter'[r].at = -1 THEN counter'[r].v = 0
                  ELSE \E p \in Exported' :
                          /\ p.series = r /\ p.t = counter'[r].at
                          /\ p.started = counter'[r].started /\ p.v = counter'[r].v
    BY <2>2 DEF CounterInv
  <2>6. CASE r = s
    BY <1>1, <2>1, <2>3, <2>4, <2>6 DEF ClockInv
  <2>7. CASE r # s
    BY <2>1, <2>4, <2>7 DEF CounterInv
  <2>8. QED
    BY <2>6, <2>7
<1>4. QED
  BY <1>2, <1>3, Steps
-----------------------------------------------------------------------------
(***************************************************************************)
(* Increases.                                                              *)
(***************************************************************************)

LEMMA SameIncreases ==
    ASSUME GainInv, SpanInv, Exported' = Exported
    PROVE  GainInv' /\ SpanInv'
<1>1. \A t, p : After(t, p)' = After(t, p)
  BY DEF After
<1>2. \A t, p : Bytes(After(t, p))' = Bytes(After(t, p))
  BY <1>1 DEF Bytes
<1>3. QED
  BY <1>1, <1>2 DEF GainInv, SpanInv

\* A new sample is after every other of its series, and changes none of them.
LEMMA NewAfter ==
    ASSUME TypeOK, ClockInv, SampleInv, CounterInv,
           NEW s \in Series, NEW started \in Minutes, NEW v \in Nat, NEW gain \in Gains,
           Sampled(s, started, v, gain), NEW t \in Int,
           NEW n, n = New(s, started, v, gain)
    PROVE  /\ \A p \in Exported : After(t, p)' = After(t, p)
           /\ t < now => n \in After(t, n)'
           /\ \A l \in Exported : l.series = s /\ l.t = counter[s].at /\ t < now =>
                 After(t, n)' = After(t, l) \cup {n} /\ n \notin After(t, l)
<1>1. /\ n.series = s /\ n.t = now /\ now \in Nat /\ Exported' = Exported \cup {n}
      /\ \A p \in Exported : p.series = s => p.t <= counter[s].at /\ p.t < now
  BY NewExported DEF New
<1>2. \A p \in Exported : p.t \in Nat
  BY ExportedTypes, PointTypes
<1>3. \A p : After(t, p)'
                = {e \in Exported \cup {n} : e.series = p.series /\ t < e.t /\ e.t <= p.t}
  BY <1>1 DEF After
<1>4. \A p \in Exported : After(t, p)' = After(t, p)
  <2> SUFFICES ASSUME NEW p \in Exported PROVE After(t, p)' = After(t, p)
    OBVIOUS
  <2>1. ~(n.series = p.series /\ n.t <= p.t)
    BY <1>1, <1>2
  <2>2. QED
    BY <1>3, <2>1 DEF After
<1>5. t < now => n \in After(t, n)'
  BY <1>1, <1>3
<1>6. ASSUME NEW l \in Exported, l.series = s, l.t = counter[s].at, t < now
      PROVE  After(t, n)' = After(t, l) \cup {n} /\ n \notin After(t, l)
  <2>1. \A e \in Exported : e.series = s => e.t <= l.t /\ e.t <= n.t
    BY <1>1, <1>2, <1>6
  <2>2. ~(n.t <= l.t) /\ t < n.t /\ n.t <= n.t
    BY <1>1, <1>2, <1>6
  <2>3. QED
    BY <1>1, <1>3, <1>6, <2>1, <2>2 DEF After
<1>7. QED
  BY <1>4, <1>5, <1>6

LEMMA NewGain ==
    ASSUME TypeOK, ClockInv, SampleInv, CounterInv, GainInv,
           NEW s \in Series, NEW started \in Minutes, NEW v \in Nat, NEW gain \in Gains,
           Sampled(s, started, v, gain)
    PROVE  GainInv'
<1>. PICK n : n = New(s, started, v, gain)
  OBVIOUS
<1>1. /\ n.series = s /\ n.t = now /\ n.started = started /\ n.v = v /\ n.gain = gain
      /\ gain \in Nat /\ now \in Nat /\ started <= now /\ Exported' = Exported \cup {n}
      /\ \A p \in Exported : p.series = s => p.t <= counter[s].at /\ p.t < now
  BY NewExported DEF New
<1>2. \A p \in Exported : p.t \in Nat /\ p.v \in Nat /\ p.started \in Nat
  BY ExportedTypes, PointTypes
<1>3. \A p, q \in Exported : After(q.t, p)' = After(q.t, p)
  BY <1>2, NewAfter
<1>4. ASSUME NEW p \in Exported
      PROVE  /\ p.series \in Delta => p.v = p.gain
             /\ p.series \in Cumulative =>
                   /\ \A q \in Exported' :
                         q.series = p.series /\ q.t < p.t /\ After(q.t, p)' = {p} =>
                             Over(q, p) = p.gain
                   /\ \/ p.v = p.gain /\ p.t <= p.started + Lookback
                      \/ \E q \in Exported' :
                            q.series = p.series /\ q.t < p.t /\ p.t <= q.t + MaxSilence
  <2>1. ~(n.series = p.series /\ n.t < p.t)
    BY <1>1, <1>2
  <2>2. QED
    BY <1>1, <1>3, <2>1 DEF GainInv
<1>5. s \in Delta => n.v = n.gain
  BY <1>1, BoundsAssumption DEF Sampled, GoesOn, FromZero
<1>6. ASSUME s \in Cumulative, NEW q \in Exported', q.series = s, q.t < now,
             After(q.t, n)' = {n}
      PROVE  Over(q, n) = n.gain
  <2>1. q \in Exported
    BY <1>1, <1>6
  <2>2. counter[s].at # -1
    BY <1>1, <1>2, <1>6, <2>1, CounterTypes
  <2>3. PICK l \in Exported : /\ l.series = s /\ l.t = counter[s].at
                              /\ l.started = counter[s].started /\ l.v = counter[s].v
    BY <2>2, LastSample
  <2>4. q.t = l.t
    <3> SUFFICES ASSUME q.t # l.t PROVE FALSE
      OBVIOUS
    <3>1. q.t < l.t
      BY <1>1, <1>2, <1>6, <2>1, <2>3
    <3>2. l \in After(q.t, l)
      BY <1>2, <1>6, <2>3, <3>1 DEF After
    <3>3. After(q.t, n)' = After(q.t, l) \cup {n} /\ n \notin After(q.t, l)
      <4>1. q.t \in Int
        BY <1>2, <2>1
      <4>2. QED
        BY <1>6, <2>3, <4>1, NewAfter
    <3>4. QED
      BY <1>6, <3>2, <3>3
  <2>5. q = l
    BY <1>6, <2>1, <2>3, <2>4 DEF SampleInv
  <2>6. CASE GoesOn(s, started, v, gain)
    <3>1. s \notin Delta
      BY <1>6, BoundsAssumption
    <3>2. started = q.started /\ v = q.v + gain
      BY <2>3, <2>5, <2>6, <3>1 DEF GoesOn
    <3>3. QED
      BY <1>1, <1>2, <2>1, <3>2 DEF Over
  <2>7. CASE FromZero(s, started, v, gain)
    <3>1. v = gain /\ (q.started < started \/ gain < q.v)
      BY <2>3, <2>5, <2>7 DEF FromZero
    <3>2. started \in Nat
      BY Bounds
    <3>3. ~(started <= q.started /\ v >= q.v)
      BY <1>1, <1>2, <2>1, <3>1, <3>2
    <3>4. QED
      BY <1>1, <3>1, <3>3 DEF Over
  <2>8. QED
    BY <2>6, <2>7 DEF Sampled
<1>7. ASSUME s \in Cumulative
      PROVE  \/ n.v = n.gain /\ n.t <= n.started + Lookback
             \/ \E q \in Exported' :
                   q.series = s /\ q.t < n.t /\ n.t <= q.t + MaxSilence
  <2>1. now <= IF counter[s].at < started THEN started + Lookback
               ELSE counter[s].at + MaxSilence
    BY <1>7 DEF Sampled, Sample
  <2>2. CASE counter[s].at < started
    <3>1. v = gain
      <4>1. CASE GoesOn(s, started, v, gain)
        <5>1. counter[s].at = -1
          <6> SUFFICES ASSUME counter[s].at # -1 PROVE FALSE
            OBVIOUS
          <6>1. PICK l \in Exported : l.t = counter[s].at /\ l.started = counter[s].started
            BY LastSample
          <6>2. l.started <= l.t
            BY <6>1 DEF ClockInv
          <6>3. QED
            BY <1>2, <2>2, <4>1, <6>1, <6>2 DEF GoesOn
        <5>2. counter[s].v = 0
          BY <5>1 DEF CounterInv
        <5>3. QED
          BY <1>1, <4>1, <5>2 DEF GoesOn
      <4>2. CASE FromZero(s, started, v, gain)
        BY <4>2 DEF FromZero
      <4>3. QED
        BY <4>1, <4>2 DEF Sampled
    <3>2. QED
      BY <1>1, <2>1, <2>2, <3>1
  <2>3. CASE ~(counter[s].at < started)
    <3>1. counter[s].at # -1
      BY <2>3, Bounds
    <3>2. PICK l \in Exported : l.series = s /\ l.t = counter[s].at
      BY <3>1, LastSample
    <3>3. l \in Exported' /\ l.t < n.t /\ n.t <= l.t + MaxSilence
      BY <1>1, <2>1, <2>3, <3>2
    <3>4. QED
      BY <3>2, <3>3
  <2>4. QED
    BY <2>2, <2>3
<1>8. QED
  BY <1>1, <1>4, <1>5, <1>6, <1>7 DEF GainInv

LEMMA NewSpan ==
    ASSUME TypeOK, ClockInv, SampleInv, CounterInv, SpanInv,
           NEW s \in Series, NEW started \in Minutes, NEW v \in Nat, NEW gain \in Gains,
           Sampled(s, started, v, gain)
    PROVE  SpanInv'
<1>. PICK n : n = New(s, started, v, gain)
  OBVIOUS
<1>1. /\ n.series = s /\ n.t = now /\ n.started = started /\ n.v = v /\ n.gain = gain
      /\ n \in Points /\ gain \in Nat /\ now \in Nat /\ started \in Nat /\ started <= now
      /\ Exported' = Exported \cup {n}
      /\ \A p \in Exported : p.series = s => p.t <= counter[s].at /\ p.t < now
  BY NewExported, Bounds DEF New
<1>2. \A p \in Exported : p.t \in Nat /\ p.v \in Nat /\ p.started \in Nat
  BY ExportedTypes, PointTypes
<1>3. \A p \in Exported : \A t \in Int :
         After(t, p)' = After(t, p) /\ Bytes(After(t, p))' = Bytes(After(t, p))
  BY NewAfter DEF Bytes
<1>4. ASSUME NEW p \in Exported, p.series \in Cumulative
      PROVE  /\ p.v <= Bytes(After(p.started - 1, p))'
             /\ \A q \in Exported' : q.series = p.series /\ q.t < p.t =>
                                         Over(q, p) <= Bytes(After(q.t, p))'
  <2>1. ~(n.series = p.series /\ n.t < p.t)
    BY <1>1, <1>2
  <2>2. p.started - 1 \in Int
    BY <1>2
  <2>3. QED
    BY <1>1, <1>2, <1>3, <1>4, <2>1, <2>2 DEF SpanInv
\* What the new sample adds to the gains since a time.
<1>5. ASSUME NEW t \in Int, t < now, NEW l \in Exported, l.series = s, l.t = counter[s].at
      PROVE  /\ Bytes(After(t, n))' = Bytes(After(t, l)) + gain
             /\ Bytes(After(t, l)) \in Nat
  <2>1. After(t, n)' = After(t, l) \cup {n} /\ n \notin After(t, l)
    BY <1>5, NewAfter
  <2>2. After(t, l) \in SUBSET Points /\ IsFiniteSet(After(t, l))
    BY AfterTypes
  <2>3. Bytes(After(t, l) \cup {n}) = Bytes(After(t, l)) + Bytes({n})
    <3>1. {n} \in SUBSET Points /\ IsFiniteSet({n}) /\ After(t, l) \cap {n} = {}
      BY <1>1, <2>1, FS_Singleton
    <3>2. QED
      BY <2>2, <3>1, BytesUnion
  <2>4. Bytes(After(t, n))' = Bytes(After(t, l) \cup {n})
    BY <2>1 DEF Bytes
  <2>5. QED
    BY <1>1, <2>2, <2>3, <2>4, BytesOne, BytesNat
<1>6. ASSUME s \in Cumulative, counter[s].at = -1
      PROVE  n.v <= Bytes(After(n.started - 1, n))'
  <2>1. v = gain
    <3>1. counter[s].v = 0
      BY <1>6 DEF CounterInv
    <3>2. QED
      BY <1>1, <3>1 DEF Sampled, GoesOn, FromZero
  <2>2. After(n.started - 1, n)' = {n}
    <3>1. \A p \in Exported : p.series # s
      BY <1>1, <1>2, <1>6
    <3>2. n.started - 1 \in Int /\ n.started - 1 < now
      BY <1>1
    <3>3. QED
      BY <1>1, <3>1, <3>2 DEF After
  <2>3. Bytes(After(n.started - 1, n))' = Bytes({n})
    BY <2>2 DEF Bytes
  <2>4. QED
    BY <1>1, <2>1, <2>3, BytesOne
<1>7. ASSUME s \in Cumulative, counter[s].at # -1
      PROVE  /\ n.v <= Bytes(After(n.started - 1, n))'
             /\ \A q \in Exported : q.series = s => Over(q, n) <= Bytes(After(q.t, n))'
  <2>1. PICK l \in Exported : /\ l.series = s /\ l.t = counter[s].at
                              /\ l.started = counter[s].started /\ l.v = counter[s].v
    BY <1>7, LastSample
  <2>2. s \notin Delta
    BY <1>7, BoundsAssumption
  <2>3. n.v <= Bytes(After(n.started - 1, n))'
    <3>1. n.started - 1 \in Int /\ n.started - 1 < now
      BY <1>1
    <3>2. /\ Bytes(After(n.started - 1, n))' = Bytes(After(n.started - 1, l)) + gain
          /\ Bytes(After(n.started - 1, l)) \in Nat
      <4> DEFINE t == n.started - 1
      <4> HIDE DEF t
      <4>1. t \in Int /\ t < now
        BY <3>1 DEF t
      <4>2. /\ Bytes(After(t, n))' = Bytes(After(t, l)) + gain
            /\ Bytes(After(t, l)) \in Nat
        BY <1>5, <2>1, <4>1
      <4>3. QED
        BY <4>2 DEF t
    <3>3. GoesOn(s, started, v, gain) => l.v <= Bytes(After(n.started - 1, l))
      BY <1>1, <1>7, <2>1 DEF SpanInv, GoesOn
    <3>4. \/ v = gain
          \/ GoesOn(s, started, v, gain) /\ v = l.v + gain
      BY <2>1, <2>2 DEF Sampled, GoesOn, FromZero
    <3>5. QED
      BY <1>1, <1>2, <3>2, <3>3, <3>4
  <2>4. ASSUME NEW q \in Exported, q.series = s PROVE Over(q, n) <= Bytes(After(q.t, n))'
    <3>1. /\ Bytes(After(q.t, n))' = Bytes(After(q.t, l)) + gain
          /\ Bytes(After(q.t, l)) \in Nat
      BY <1>1, <1>2, <1>5, <2>1, <2>4
    <3>2. CASE v = gain
      BY <1>1, <1>2, <3>1, <3>2 DEF Over
    <3>3. CASE v = l.v + gain /\ started = l.started
      <4>1. CASE q.t < l.t
        <5>1. Over(q, l) <= Bytes(After(q.t, l))
          BY <1>7, <2>1, <2>4, <4>1 DEF SpanInv
        <5>2. Over(q, n) <= Over(q, l) + gain
          BY <1>1, <1>2, <2>1, <3>3 DEF Over
        <5>3. Over(q, n) \in Int /\ Over(q, l) \in Int
          BY <1>1, <1>2 DEF Over
        <5>4. QED
          BY <1>1, <3>1, <5>1, <5>2, <5>3
      <4>2. CASE ~(q.t < l.t)
        <5>1. q = l
          BY <1>1, <1>2, <2>1, <2>4, <4>2 DEF SampleInv
        <5>2. Over(q, n) = gain
          BY <1>1, <1>2, <3>3, <5>1 DEF Over
        <5>3. QED
          BY <1>1, <3>1, <5>2
      <4>3. QED
        BY <4>1, <4>2
    <3>4. QED
      BY <2>1, <2>2, <3>2, <3>3 DEF Sampled, GoesOn, FromZero
  <2>5. QED
    BY <2>3, <2>4
<1>8. ASSUME counter[s].at = -1, NEW q \in Exported, q.series = s PROVE FALSE
  BY <1>1, <1>2, <1>8
<1>9. QED
  <2>1. ASSUME s \in Cumulative
        PROVE  /\ n.v <= Bytes(After(n.started - 1, n))'
               /\ \A q \in Exported' : q.series = s /\ q.t < n.t =>
                                           Over(q, n) <= Bytes(After(q.t, n))'
    <3>1. ~(n.t < n.t)
      BY <1>1
    <3>2. QED
      BY <1>1, <1>6, <1>7, <1>8, <2>1, <3>1
  <2>2. QED
    BY <1>1, <1>4, <2>1 DEF SpanInv

LEMMA IncreaseStep ==
    ASSUME TypeOK, ClockInv, SampleInv, CounterInv, GainInv, SpanInv, Next
    PROVE  GainInv' /\ SpanInv'
<1>1. CASE Tick \/ Refresh \/ \E p \in sent, copies \in {1, 2} : Land(p, copies)
  BY <1>1, SameExported, SameIncreases
<1>2. CASE \E s \in Series, started \in Minutes, v \in Nat, gain \in Gains :
              Sampled(s, started, v, gain)
  BY <1>2, NewGain, NewSpan
<1>3. QED
  BY <1>1, <1>2, Steps
-----------------------------------------------------------------------------
(***************************************************************************)
(* What the rows hold.                                                     *)
(***************************************************************************)

\* A minute before the window was recomputed after its last sample landed.
LEMMA BeforeWindow ==
    ASSUME TypeOK, ClockInv, RowInv, InTime, NEW m \in Minutes, m < WindowStart
    PROVE  m < refreshed - MaxLate
<1>1. /\ m \in Nat /\ now \in Nat /\ refreshed \in Nat /\ MaxLate \in Nat /\ MaxGap \in Nat
      /\ MaxBack \in Nat /\ LateWindow \in Nat /\ WindowStart \in Int
      /\ now <= refreshed + MaxGap
  BY Bounds, WindowIs DEF TypeOK, ClockInv
<1>2. CASE WindowStart <= now - MaxBack
  BY <1>1, <1>2 DEF InTime
<1>3. CASE WindowStart <= now - LateWindow /\ WindowStart <= 0
  BY <1>1, <1>3
<1>4. CASE WindowStart <= now - LateWindow /\ WindowStart < refreshed
  BY <1>1, <1>4 DEF InTime
<1>5. QED
  BY <1>2, <1>3, <1>4, WindowIs

\* A minute recomputed once every sample up to it has landed is right.
LEMMA ExactRow ==
    ASSUME TypeOK, ClockInv, SampleInv, GainInv, RowInv, Heard, Refresh,
           NEW m \in DOMAIN Ingest(WindowStart), Settled(m)
    PROVE  Row(m)' = Bytes(Landed(m))
<1> DEFINE from == WindowStart
           inc == [p \in Landed(m) |-> Increase(Once(from), p, from)]
           gains == [p \in Landed(m) |-> p.gain]
<1>1. from \in Int
  BY WindowIs
<1>2. m \in Minutes /\ from <= m /\ Row(m)' = Ingest(from)[m]
  BY RefreshedRows
<1>3. /\ Landed(m) \subseteq Once(from) /\ IsFiniteSet(Landed(m))
      /\ Ingest(from)[m] = SumFunctionOnSet(inc, Landed(m))
      /\ \A p \in Landed(m) : p \in Points /\ p.t = m
  BY <1>1, IngestIs, LandedTypes DEF Landed
<1> HIDE DEF from
<1>4. ASSUME NEW p \in Landed(m) PROVE Increase(Once(from), p, from) = p.gain
  <2>1. p \in Once(from) /\ p.t = m /\ m \in Nat
    BY <1>2, <1>3, Bounds
  <2>2. \A e \in sent : ~(e.t < p.t)
    <3>1. \A e \in sent : m < e.t /\ e.t \in Nat
      BY PointTypes DEF TypeOK, Settled
    <3>2. QED
      BY <2>1, <3>1
  <2>3. QED
    BY <1>1, <1>2, <2>1, <2>2, ExactIncrease
<1>5. \A p \in Landed(m) : gains[p] \in Int /\ inc[p] = gains[p]
  BY <1>3, <1>4, PointTypes
<1>6. SumFunctionOnSet(gains, Landed(m)) = SumFunctionOnSet(inc, Landed(m))
  <2> HIDE DEF gains, inc
  <2> QED BY <1>3, <1>5, SumSame
<1>7. Bytes(Landed(m)) = SumFunctionOnSet(gains, Landed(m))
  BY DEF Bytes, SumFunction
<1>8. QED
  BY <1>2, <1>3, <1>6, <1>7

LEMMA RowStep ==
    ASSUME TypeOK, ClockInv, SampleInv, CounterInv, GainInv, SpanInv, RowInv, Next
    PROVE  RowInv'
<1>1. CASE Tick
  BY <1>1 DEF Tick, RowInv, Landed
<1>2. ASSUME NEW s \in Series, NEW started \in Minutes, NEW v \in Nat, NEW gain \in Gains,
             Sampled(s, started, v, gain)
      PROVE  RowInv'
  BY <1>2 DEF Sampled, Sample, RowInv, Landed
<1>3. ASSUME NEW p \in sent, NEW copies \in {1, 2}, Land(p, copies)
      PROVE  RowInv'
  <2>1. points \subseteq points' /\ UNCHANGED <<usage_minute, refreshed>>
    BY <1>3 DEF Land
  <2>2. \A m : Landed(m) \subseteq Landed(m)'
    BY <2>1 DEF Landed
  <2>3. QED
    BY <2>1, <2>2 DEF RowInv
<1>4. CASE Refresh
  <2>1. /\ WindowStart \in Int /\ now \in Nat /\ refreshed \in Nat
        /\ refreshed' = now /\ refreshed < now
    BY <1>4, WindowIs, Bounds DEF Refresh, TypeOK
  <2>2. \A m : Landed(m)' = Landed(m)
    BY <1>4 DEF Refresh, Landed
  <2>3. DOMAIN usage_minute' = DOMAIN Ingest(WindowStart) \cup DOMAIN usage_minute
    BY <1>4, RefreshedRows
  <2>4. \A m \in DOMAIN Ingest(WindowStart) : m < now /\ Landed(m) # {}
    BY <2>1, IngestIs
  <2>5. \A m \in DOMAIN usage_minute : m < now /\ Landed(m) # {}
    <3>1. \A m \in DOMAIN usage_minute : m \in Nat /\ m < refreshed /\ Landed(m) # {}
      BY Bounds DEF TypeOK, RowInv
    <3>2. QED
      BY <2>1, <3>1
  <2>6. QED
    BY <2>1, <2>2, <2>3, <2>4, <2>5 DEF RowInv
<1>5. QED
  BY <1>1, <1>2, <1>3, <1>4, Steps

LEMMA ExactStep ==
    ASSUME TypeOK, ClockInv, SampleInv, CounterInv, GainInv, SpanInv, RowInv, ExactInv, Next
    PROVE  ExactInv'
<1>1. CASE Tick
  BY <1>1 DEF Tick, ExactInv, Heard, InTime, Row, Landed, Bytes
<1>2. ASSUME NEW s \in Series, NEW started \in Minutes, NEW v \in Nat, NEW gain \in Gains,
             Sampled(s, started, v, gain)
      PROVE  ExactInv'
  BY <1>2 DEF Sampled, Sample, ExactInv, Heard, InTime, Row, Landed, Bytes
<1>3. ASSUME NEW p \in sent, NEW copies \in {1, 2}, Land(p, copies)
      PROVE  ExactInv'
  <2>1. UNCHANGED <<usage_minute, refreshed>>
    BY <1>3 DEF Land
  <2>2. ASSUME NEW m \in Minutes, m < refreshed - MaxLate
        PROVE  Landed(m)' = Landed(m)
    <3>1. \A i \in 1..copies : [p EXCEPT !.copy = i].t = p.t
      BY DEF TypeOK, Points
    <3>2. p.t # m
      <4>1. /\ now \in Nat /\ refreshed \in Nat /\ MaxLate \in Nat /\ p.t \in Nat /\ m \in Nat
        BY Bounds, PointTypes DEF TypeOK
      <4>2. refreshed <= now /\ now <= p.t + MaxLate
        BY DEF ClockInv
      <4>3. QED
        BY <2>2, <4>1, <4>2
    <3>3. points' = points \cup {[p EXCEPT !.copy = i] : i \in 1..copies}
      BY <1>3 DEF Land
    <3>4. QED
      BY <3>1, <3>2, <3>3 DEF Landed
  <2>3. \A m : Row(m)' = Row(m)
    BY <2>1 DEF Row
  <2>4. ASSUME NEW m \in Minutes, m < refreshed - MaxLate
        PROVE  Bytes(Landed(m))' = Bytes(Landed(m))
    BY <2>2, <2>4 DEF Bytes
  <2>5. QED
    BY <2>1, <2>3, <2>4 DEF ExactInv, Heard, InTime
<1>4. CASE Refresh
  <2>1. /\ now \in Nat /\ refreshed' = now /\ MaxLate \in Nat /\ WindowStart \in Int
        /\ UNCHANGED points
    BY <1>4, Bounds, WindowIs DEF Refresh, TypeOK
  <2>2. \A m : Bytes(Landed(m))' = Bytes(Landed(m))
    BY <2>1 DEF Landed, Bytes
  <2>3. ASSUME Heard, InTime, NEW m \in Minutes, m < now - MaxLate
        PROVE  Row(m)' = Bytes(Landed(m))
    <3>1. m \in Nat /\ m < now
      BY <2>1, <2>3, Bounds
    <3>2. CASE m \in DOMAIN Ingest(WindowStart)
      <4>1. Settled(m)
        <5>1. \A e \in sent : e.t \in Nat /\ now <= e.t + MaxLate
          BY PointTypes DEF TypeOK, ClockInv
        <5>2. QED
          BY <2>1, <2>3, <3>1, <5>1 DEF Settled
      <4>2. QED
        BY <1>4, <2>3, <3>2, <4>1, ExactRow
    <3>3. CASE m \notin DOMAIN Ingest(WindowStart) /\ m >= WindowStart
      <4>1. Landed(m) = {}
        BY <2>1, <3>1, <3>3, IngestIs
      <4>2. Row(m)' = Row(m) /\ Row(m) = 0
        BY <1>4, <3>3, RefreshedRows
      <4>3. QED
        BY <4>1, <4>2, BytesNone
    <3>4. CASE m \notin DOMAIN Ingest(WindowStart) /\ m < WindowStart
      <4>1. Row(m)' = Row(m)
        BY <1>4, <3>4, RefreshedRows
      <4>2. m < refreshed - MaxLate
        BY <2>3, <3>4, BeforeWindow
      <4>3. QED
        BY <2>3, <4>1, <4>2 DEF ExactInv
    <3>5. QED
      BY <2>1, <3>1, <3>2, <3>3, <3>4
  <2>4. QED
    BY <2>1, <2>2, <2>3 DEF ExactInv, Heard, InTime
<1>5. QED
  BY <1>1, <1>2, <1>3, <1>4, Steps

LEMMA PrefixStep ==
    ASSUME TypeOK, ClockInv, SampleInv, CounterInv, GainInv, SpanInv, RowInv, PrefixInv, Next
    PROVE  PrefixInv'
<1>1. ASSUME usage_minute' = usage_minute, points \subseteq points',
             Exported \subseteq Exported', Exported' \in SUBSET Points, IsFiniteSet(Exported')
      PROVE  PrefixInv'
  <2>1. \A m : Row(m)' = Row(m)
    BY <1>1 DEF Row
  <2>2. \A m : RowsBefore(m)' = RowsBefore(m)
    BY <2>1 DEF RowsBefore
  <2>3. ASSUME NEW m \in 0..(MaxNow + 1)
        PROVE  Bytes(Covered(m)) <= Bytes(Covered(m)')
    <3>1. Covered(m)' \in SUBSET Exported' /\ Covered(m) \subseteq Covered(m)'
      BY <1>1 DEF Covered
    <3>2. Covered(m)' \in SUBSET Points /\ IsFiniteSet(Covered(m)')
      BY <1>1, <3>1, FS_Subset
    <3>3. QED
      BY <3>1, <3>2, BytesMore
  <2>4. ASSUME NEW m \in 0..(MaxNow + 1)
        PROVE  /\ Bytes(Covered(m)) \in Nat /\ Bytes(Covered(m)') \in Nat
               /\ Bytes(Covered(m))' = Bytes(Covered(m)')
    <3>1. Covered(m)' \in SUBSET Exported'
      BY DEF Covered
    <3>2. Covered(m)' \in SUBSET Points /\ IsFiniteSet(Covered(m)')
      BY <1>1, <3>1, FS_Subset
    <3>3. Bytes(Covered(m))' = Bytes(Covered(m)')
      BY DEF Bytes
    <3>4. QED
      BY <3>2, <3>3, CoveredTypes, BytesNat
  <2>5. \A m \in 0..(MaxNow + 1) : RowsBefore(m) \in Int
    BY RowsBeforeInt
  <2>6. QED
    BY <2>2, <2>3, <2>4, <2>5 DEF PrefixInv
<1>2. CASE Tick \/ \E p \in sent, copies \in {1, 2} : Land(p, copies)
  <2>1. usage_minute' = usage_minute /\ points \subseteq points'
    BY <1>2 DEF Tick, Land
  <2>2. Exported' = Exported
    BY <1>2, SameExported
  <2>3. QED
    BY <1>1, <2>1, <2>2, ExportedTypes
<1>3. ASSUME NEW s \in Series, NEW started \in Minutes, NEW v \in Nat, NEW gain \in Gains,
             Sampled(s, started, v, gain)
      PROVE  PrefixInv'
  <2>1. usage_minute' = usage_minute /\ points' = points
    BY <1>3 DEF Sampled, Sample
  <2>2. PICK n \in Points : Exported' = Exported \cup {n}
    BY <1>3, NewExported
  <2>3. Exported' \in SUBSET Points /\ IsFiniteSet(Exported')
    BY <2>2, ExportedTypes, FS_AddElement
  <2>4. QED
    BY <1>1, <2>1, <2>2, <2>3
<1>4. CASE Refresh
  BY <1>4, RefreshPrefix
<1>5. QED
  BY <1>2, <1>3, <1>4, Steps

-----------------------------------------------------------------------------
(***************************************************************************)
(* What a read of everything that landed counts.                           *)
(***************************************************************************)

LEMMA ArrivedTypes ==
    ASSUME TypeOK, SampleInv
    PROVE  /\ Arrived \in SUBSET Points /\ IsFiniteSet(Arrived)
           /\ Arrived \subseteq Exported
<1>1. Arrived \in SUBSET points
  BY DEF Arrived
<1>2. IsFiniteSet(Arrived)
  BY <1>1, FS_Subset DEF SampleInv
<1>3. QED
  BY <1>1, <1>2 DEF TypeOK, Arrived, Exported

\* A set of samples, each the only one of its series at its time.
Singles(S) ==
    /\ S \in SUBSET Points /\ IsFiniteSet(S)
    /\ \A p, q \in S : p.series = q.series /\ p.t = q.t => p = q

LEMMA SinglesOf ==
    ASSUME TypeOK, SampleInv, NEW S \in SUBSET Exported
    PROVE  Singles(S)
<1>1. IsFiniteSet(S) /\ S \in SUBSET Points
  BY ExportedTypes, FS_Subset
<1>2. QED
  BY <1>1 DEF Singles, SampleInv

\* The sample that p increases over, by its time.
Last(S, p, q) == q \in Earlier(S, p) /\ \A r \in Earlier(S, p) : r.t <= q.t

LEMMA LastExists ==
    ASSUME NEW S, Singles(S), NEW p \in Points, Earlier(S, p) # {}
    PROVE  \E q \in S : Last(S, p, q)
<1>1. Earlier(S, p) \in SUBSET S
  BY DEF Earlier
<1>2. Earlier(S, p) \in SUBSET Points /\ IsFiniteSet(Earlier(S, p))
  BY <1>1, FS_Subset DEF Singles
<1>3. \E q \in Earlier(S, p) : \A r \in Earlier(S, p) : r.t <= q.t
  BY <1>2, LatestExists
<1>4. QED
  BY <1>1, <1>3 DEF Last

\* What an increase is, by what is earlier in the read.
LEMMA IncreaseIs ==
    ASSUME NEW S, Singles(S), NEW p \in Points, NEW from \in Int
    PROVE  /\ p.series \in Delta => Increase(S, p, from) = p.v
           /\ Earlier(S, p) = {} /\ StartedInRead(p, from) => Increase(S, p, from) = p.v
           /\ \A q \in S : p.series \notin Delta /\ Last(S, p, q) =>
                               Increase(S, p, from) = Over(q, p)
<1>1. p.series \in Delta => Increase(S, p, from) = p.v
  BY DEF Increase
<1>2. Earlier(S, p) = {} /\ StartedInRead(p, from) => Increase(S, p, from) = p.v
  BY DEF Increase
<1>3. ASSUME NEW q \in S, p.series \notin Delta, Last(S, p, q)
      PROVE  Increase(S, p, from) = Over(q, p)
  <2>1. Earlier(S, p) # {}
    BY <1>3 DEF Last
  <2>2. /\ Previous(S, p) \in S
        /\ Previous(S, p).series = p.series /\ Previous(S, p).t < p.t
        /\ \A r \in Earlier(S, p) : r.t <= Previous(S, p).t
    BY <2>1, PreviousIs DEF Singles
  <2>3. q.t = Previous(S, p).t /\ q.series = p.series
    <3>1. Previous(S, p) \in Earlier(S, p)
      BY <2>2 DEF Earlier
    <3>2. Previous(S, p).t <= q.t /\ q.t <= Previous(S, p).t /\ q.series = p.series
      BY <1>3, <2>2, <3>1 DEF Last, Earlier
    <3>3. Previous(S, p).t \in Nat /\ q.t \in Nat
      BY <2>2, PointTypes DEF Singles
    <3>4. QED
      BY <3>2, <3>3
  <2>4. q = Previous(S, p)
    BY <2>2, <2>3 DEF Singles
  <2>5. QED
    BY <1>3, <2>1, <2>4 DEF Increase, Over
<1>4. QED
  BY <1>1, <1>2, <1>3

LEMMA FromTheStart ==
    ASSUME NEW p \in Points PROVE StartedInRead(p, 0)
<1>1. p.started \in Nat /\ Lookback \in Nat
  BY PointTypes, Bounds
<1>2. QED
  BY <1>1 DEF StartedInRead

LEMMA ArrivedNat ==
    ASSUME NEW S, Singles(S), NEW p \in Points
    PROVE  Increase(S, p, 0) \in Nat
<1>1. p.v \in Nat
  BY PointTypes
<1>2. CASE p.series \in Delta \/ Earlier(S, p) = {}
  BY <1>1, <1>2, IncreaseIs, FromTheStart
<1>3. CASE p.series \notin Delta /\ Earlier(S, p) # {}
  <2>1. PICK q \in S : Last(S, p, q)
    BY <1>3, LastExists
  <2>2. q.v \in Nat /\ Increase(S, p, 0) = Over(q, p)
    BY <1>3, <2>1, IncreaseIs, PointTypes DEF Singles
  <2>3. QED
    BY <1>1, <2>2 DEF Over
<1>4. QED
  BY <1>2, <1>3

\* Going through a sample in between never makes an increase smaller.
LEMMA OverChain ==
    ASSUME NEW q \in Points, NEW s \in Points, NEW p \in Points,
           q.started <= s.started, s.started <= p.started
    PROVE  Over(q, p) <= Over(q, s) + Over(s, p)
<1>1. /\ q.v \in Nat /\ s.v \in Nat /\ p.v \in Nat
      /\ q.started \in Nat /\ s.started \in Nat /\ p.started \in Nat
  BY PointTypes
<1>2. QED
  BY <1>1 DEF Over

LEMMA OverFirst ==
    ASSUME NEW s \in Points, NEW p \in Points
    PROVE  p.v <= s.v + Over(s, p)
<1>1. s.v \in Nat /\ p.v \in Nat
  BY PointTypes
<1>2. QED
  BY <1>1 DEF Over

\* The sample after one that lands, among those that landed before.
Follows(S, s, p) ==
    /\ p.series = s.series /\ s.t < p.t
    /\ \A z \in S : ~(z.series = s.series /\ s.t < z.t /\ z.t < p.t)

LEMMA LandedIncrease ==
    ASSUME TypeOK, SampleInv, StartInv, NEW S \in SUBSET Exported,
           NEW s \in Exported, s \notin S, NEW p \in S
    PROVE  /\ ~Follows(S, s, p) => Increase(S \cup {s}, p, 0) = Increase(S, p, 0)
           /\ Follows(S, s, p) => Increase(S, p, 0) <=
                  Increase(S \cup {s}, s, 0) + Increase(S \cup {s}, p, 0)
<1> DEFINE R == S \cup {s}
<1>1. R \in SUBSET Exported /\ Singles(S) /\ Singles(R)
  BY SinglesOf
<1>2. /\ s \in Points /\ p \in Points /\ s.t \in Nat /\ p.t \in Nat /\ p.v \in Nat /\ s.v \in Nat
      /\ \A z \in R : z.t \in Nat /\ z \in Points
  BY ExportedTypes, PointTypes
<1>3. Earlier(S, p) \subseteq Earlier(R, p)
      /\ \A z \in Earlier(R, p) : z \in Earlier(S, p) \/ z = s
  BY DEF Earlier
<1>4. Increase(R, s, 0) \in Nat /\ Increase(R, p, 0) \in Nat /\ Increase(S, p, 0) \in Nat
  BY <1>1, <1>2, ArrivedNat
<1>5. CASE p.series \in Delta
  <2>1. Increase(R, p, 0) = p.v /\ Increase(S, p, 0) = p.v
    BY <1>1, <1>2, <1>5, IncreaseIs
  <2>2. Increase(S, p, 0) <= Increase(R, s, 0) + Increase(R, p, 0)
    <3> HIDE DEF R
    <3> QED BY <1>2, <1>4, <2>1
  <2>3. Increase(R, p, 0) = Increase(S, p, 0)
    BY <2>1
  <2>4. QED
    BY <2>2, <2>3
<1>6. CASE p.series \notin Delta /\ ~Follows(S, s, p)
  <2>1. CASE s \in Earlier(R, p)
    <3>1. s.series = p.series /\ s.t < p.t
      BY <2>1 DEF Earlier
    <3>2. PICK z \in S : z.series = s.series /\ s.t < z.t /\ z.t < p.t
      BY <1>6, <3>1 DEF Follows
    <3>3. z \in Earlier(S, p)
      BY <3>1, <3>2 DEF Earlier
    <3>4. PICK q \in S : Last(S, p, q)
      BY <1>1, <1>2, <3>3, LastExists
    <3>5. Last(R, p, q)
      <4>1. s.t <= q.t
        BY <1>2, <3>2, <3>3, <3>4 DEF Last
      <4>2. QED
        BY <1>3, <3>4, <4>1 DEF Last
    <3>6. Increase(R, p, 0) = Over(q, p) /\ Increase(S, p, 0) = Over(q, p)
      BY <1>1, <1>2, <1>6, <3>4, <3>5, IncreaseIs
    <3>7. QED
      BY <1>6, <3>6
  <2>2. CASE s \notin Earlier(R, p)
    <3>1. Earlier(R, p) = Earlier(S, p)
      BY <1>3, <2>2
    <3>2. CASE Earlier(S, p) = {}
      <4>1. StartedInRead(p, 0)
        BY <1>2, FromTheStart
      <4>2. Increase(S, p, 0) = p.v
        BY <1>1, <1>2, <3>2, <4>1, IncreaseIs
      <4>3. Increase(R, p, 0) = p.v
        <5> HIDE DEF R
        <5> QED BY <1>1, <1>2, <3>1, <3>2, <4>1, IncreaseIs
      <4>4. QED
        BY <1>6, <4>2, <4>3
    <3>3. CASE Earlier(S, p) # {}
      <4>1. PICK q \in S : Last(S, p, q)
        BY <1>1, <1>2, <3>3, LastExists
      <4>2. Last(R, p, q) /\ q \in R
        BY <3>1, <4>1 DEF Last
      <4>3. Increase(R, p, 0) = Over(q, p) /\ Increase(S, p, 0) = Over(q, p)
        BY <1>1, <1>2, <1>6, <4>1, <4>2, IncreaseIs
      <4>4. QED
        BY <1>6, <4>3
    <3>4. QED
      BY <3>2, <3>3
  <2>3. QED
    BY <2>1, <2>2
<1>7. CASE p.series \notin Delta /\ Follows(S, s, p)
  <2>1. p.series = s.series /\ s.t < p.t
    BY <1>7 DEF Follows
  <2>2. \A z \in Earlier(S, p) : z.t < s.t /\ z \in Earlier(R, s)
    <3> SUFFICES ASSUME NEW z \in Earlier(S, p) PROVE z.t < s.t /\ z \in Earlier(R, s)
      OBVIOUS
    <3>1. z \in S /\ z.series = s.series /\ z.t < p.t
      BY <2>1 DEF Earlier
    <3>2. ~(s.t < z.t)
      BY <1>7, <3>1 DEF Follows
    <3>3. z.t # s.t
      <4>1. z \in Exported /\ z # s
        BY <3>1
      <4>2. QED
        BY <3>1, <4>1 DEF SampleInv
    <3>4. z.t < s.t
      BY <1>2, <3>1, <3>2, <3>3
    <3>5. QED
      BY <3>1, <3>4 DEF Earlier
  <2>3. Last(R, p, s)
    <3>1. s \in Earlier(R, p)
      BY <2>1 DEF Earlier
    <3>2. \A z \in Earlier(R, p) : z.t <= s.t
      BY <1>2, <1>3, <2>2 DEF Earlier
    <3>3. QED
      BY <3>1, <3>2 DEF Last
  <2>4. Increase(R, p, 0) = Over(s, p)
    BY <1>1, <1>2, <1>7, <2>3, IncreaseIs
  <2>5. s.started <= p.started
    BY <2>1 DEF StartInv
  <2>6. s.series \notin Delta
    BY <1>7, <2>1
  <2>7. CASE Earlier(S, p) = {}
    <3>1. Increase(S, p, 0) = p.v
      BY <1>1, <1>2, <2>7, IncreaseIs, FromTheStart
    <3>2. Earlier(R, s) = {}
      <4>1. ASSUME NEW z \in Earlier(R, s) PROVE FALSE
        <5>1. z \in R /\ z.series = s.series /\ z.t < s.t
          BY DEF Earlier
        <5>2. z \in S /\ z.t < p.t
          BY <1>2, <2>1, <5>1
        <5>3. z \in Earlier(S, p)
          BY <2>1, <5>1, <5>2 DEF Earlier
        <5>4. QED
          BY <2>7, <5>3
      <4>2. QED
        BY <4>1
    <3>3. Increase(R, s, 0) = s.v
      <4>1. StartedInRead(s, 0)
        BY <1>2, FromTheStart
      <4> HIDE DEF R
      <4>2. QED
        BY <1>1, <1>2, <3>2, <4>1, IncreaseIs
    <3>4. p.v <= s.v + Over(s, p)
      BY <1>2, OverFirst
    <3>5. QED
      BY <1>7, <2>4, <3>1, <3>3, <3>4
  <2>8. CASE Earlier(S, p) # {}
    <3>1. PICK q \in S : Last(S, p, q)
      BY <1>1, <1>2, <2>8, LastExists
    <3>2. Increase(S, p, 0) = Over(q, p)
      BY <1>1, <1>2, <1>7, <3>1, IncreaseIs
    <3>3. q.t < s.t /\ q.series = s.series /\ q \in Exported
      BY <2>1, <2>2, <3>1 DEF Last, Earlier
    <3>4. Last(R, s, q)
      <4>1. q \in Earlier(R, s)
        BY <2>2, <3>1 DEF Last
      <4>2. ASSUME NEW z \in Earlier(R, s) PROVE z.t <= q.t
        <5>1. z \in R /\ z.series = s.series /\ z.t < s.t
          BY DEF Earlier
        <5>2. z \in S /\ z.t < p.t
          BY <1>2, <2>1, <5>1
        <5>3. z \in Earlier(S, p)
          BY <2>1, <5>1, <5>2 DEF Earlier
        <5>4. QED
          BY <3>1, <5>3 DEF Last
      <4>3. QED
        BY <4>1, <4>2 DEF Last
    <3>5. Increase(R, s, 0) = Over(q, s)
      BY <1>1, <1>2, <2>6, <3>1, <3>4, IncreaseIs
    <3>6. q.started <= s.started
      BY <3>3 DEF StartInv
    <3>7. Over(q, p) <= Over(q, s) + Over(s, p)
      BY <1>2, <2>5, <3>1, <3>6, OverChain
    <3>8. QED
      BY <1>7, <2>4, <3>2, <3>5, <3>7
  <2>9. QED
    BY <2>7, <2>8
<1>8. QED
  BY <1>5, <1>6, <1>7

\* A sample that lands never makes what counts before a minute smaller.
LEMMA CountedGrows ==
    ASSUME TypeOK, SampleInv, StartInv, NEW S \in SUBSET Exported,
           NEW s \in Exported, s \notin S, NEW m \in Int
    PROVE  Counted(S, m) <= Counted(S \cup {s}, m)
<1> DEFINE R == S \cup {s}
           D == {q \in S : q.t < m}
           E == {q \in R : q.t < m}
           f == [p \in D |-> Increase(S, p, 0)]
           g == [p \in E |-> Increase(R, p, 0)]
<1>1. /\ Singles(S) /\ Singles(R)
      /\ s \in Points /\ s.t \in Nat /\ \A p \in R : p \in Points /\ p.t \in Nat
  <2>1. R \in SUBSET Exported
    OBVIOUS
  <2>2. \A p \in R : p \in Points /\ p.t \in Nat
    BY <2>1, ExportedTypes, PointTypes
  <2>3. QED
    BY <2>1, <2>2, SinglesOf
<1>2. Counted(S, m) = SumFunctionOnSet(f, D) /\ Counted(R, m) = SumFunctionOnSet(g, E)
  BY DEF Counted, SumFunction
<1>3. IsFiniteSet(D) /\ D \in SUBSET S /\ D \subseteq E
  <2>1. D \in SUBSET S
    OBVIOUS
  <2>2. IsFiniteSet(D)
    BY <1>1, <2>1, FS_Subset DEF Singles
  <2>3. QED
    BY <2>1, <2>2
<1>4. /\ \A p \in D : f[p] = Increase(S, p, 0) /\ f[p] \in Nat
      /\ \A p \in E : g[p] = Increase(R, p, 0) /\ g[p] \in Nat
  <2>1. \A p \in D : Increase(S, p, 0) \in Nat
    BY <1>1, ArrivedNat
  <2>2. \A p \in E : Increase(R, p, 0) \in Nat
    <3> HIDE DEF R
    <3> QED BY <1>1, ArrivedNat
  <2>3. QED
    BY <2>1, <2>2
<1>5. ASSUME NEW p \in D
      PROVE  /\ ~Follows(S, s, p) => g[p] = f[p]
             /\ Follows(S, s, p) /\ s.t < m => f[p] <= g[s] + g[p]
  <2>1. /\ ~Follows(S, s, p) => Increase(R, p, 0) = Increase(S, p, 0)
        /\ Follows(S, s, p) => Increase(S, p, 0) <= Increase(R, s, 0) + Increase(R, p, 0)
    BY LandedIncrease
  <2>2. p \in E /\ (s.t < m => s \in E)
    OBVIOUS
  <2> HIDE DEF f, g, R, E
  <2>3. QED
    BY <1>4, <2>1, <2>2
<1>6. CASE ~(s.t < m)
  <2>1. E = D
    BY <1>6
  <2>2. \A p \in D : ~Follows(S, s, p)
    <3> SUFFICES ASSUME NEW p \in D, s.t < p.t PROVE FALSE
      BY DEF Follows
    <3>1. p.t < m /\ p.t \in Nat
      BY <1>1
    <3>2. QED
      BY <1>1, <1>6, <3>1
  <2>3. \A p \in D : f[p] \in Int /\ g[p] = f[p]
    <3> HIDE DEF f, g
    <3> QED BY <1>4, <1>5, <2>2
  <2> HIDE DEF f, g, D, E
  <2>4. SumFunctionOnSet(f, D) = SumFunctionOnSet(g, D) /\ SumFunctionOnSet(f, D) \in Int
    BY <1>3, <2>3, SumSame, SumTake
  <2> HIDE DEF R
  <2>5. Counted(S, m) <= Counted(R, m)
    BY <1>2, <2>1, <2>4
  <2>6. QED
    BY <2>5 DEF R
<1>7. CASE s.t < m
  <2>1. E = D \cup {s} /\ s \notin D /\ s \in E
    BY <1>7
  <2>2. \A p \in D : f[p] \in Int /\ g[p] \in Int /\ g[p] \in Nat
    <3> HIDE DEF f, g, E, D
    <3> QED BY <1>3, <1>4
  <2>3. g[s] \in Int /\ g[s] \in Nat
    <3> HIDE DEF f, g, D, E
    <3> QED BY <1>4, <2>1
  <2>4. SumFunctionOnSet(g, E) = g[s] + SumFunctionOnSet(g, D)
    <3> HIDE DEF f, g, D, E
    <3> QED BY <1>3, <2>1, <2>2, <2>3, SumAdd
  <2>5. SumFunctionOnSet(f, D) \in Int /\ SumFunctionOnSet(g, D) \in Int
    <3> HIDE DEF f, g, D, E
    <3> QED BY <1>3, <2>2, SumTake
  <2>6. SumFunctionOnSet(f, D) <= g[s] + SumFunctionOnSet(g, D)
    <3>1. CASE \A p \in D : ~Follows(S, s, p)
      <4>1. \A p \in D : g[p] = f[p]
        BY <1>5, <3>1
      <4> HIDE DEF f, g, D, E
      <4>2. SumFunctionOnSet(f, D) = SumFunctionOnSet(g, D)
        BY <1>3, <2>2, <4>1, SumSame
      <4>3. QED
        BY <2>3, <2>5, <4>2
    <3>2. ASSUME NEW y \in D, Follows(S, s, y)
          PROVE  SumFunctionOnSet(f, D) <= g[s] + SumFunctionOnSet(g, D)
      <4>1. \A p \in D \ {y} : ~Follows(S, s, p)
        <5> SUFFICES ASSUME NEW p \in D \ {y}, Follows(S, s, p) PROVE FALSE
          OBVIOUS
        <5>1. /\ p.series = s.series /\ y.series = s.series /\ s.t < p.t /\ s.t < y.t
              /\ ~(p.t < y.t) /\ ~(y.t < p.t) /\ p.t \in Nat /\ y.t \in Nat
          BY <1>1, <3>2 DEF Follows
        <5>2. p.t = y.t
          BY <5>1
        <5>3. p = y
          BY <1>1, <5>1, <5>2 DEF Singles
        <5>4. QED
          BY <5>3
      <4>2. \A p \in D \ {y} : f[p] \in Int /\ g[p] = f[p]
        <5> HIDE DEF f, g
        <5> QED BY <1>5, <2>2, <4>1
      <4>3. f[y] <= g[s] + g[y]
        BY <1>5, <1>7, <3>2
      <4>4. IsFiniteSet(D \ {y})
        <5>1. D \ {y} \in SUBSET D
          OBVIOUS
        <5>2. QED
          BY <1>3, <5>1, FS_Subset
      <4>5. f[y] \in Int /\ g[y] \in Int
        BY <2>2
      <4> HIDE DEF f, g, D, E
      <4>6. SumFunctionOnSet(f, D \ {y}) = SumFunctionOnSet(g, D \ {y})
        BY <4>2, <4>4, SumSame
      <4>7. SumFunctionOnSet(f, D \ {y}) \in Int
        BY <4>2, <4>4, SumTake
      <4>8. SumFunctionOnSet(f, D) = f[y] + SumFunctionOnSet(f, D \ {y})
        BY <1>3, <2>2, SumTake
      <4>9. SumFunctionOnSet(g, D) = g[y] + SumFunctionOnSet(g, D \ {y})
        BY <1>3, <2>2, SumTake
      <4>10. QED
        BY <2>3, <4>3, <4>5, <4>6, <4>7, <4>8, <4>9
    <3>3. QED
      BY <3>1, <3>2
  <2> HIDE DEF f, g, D, E, R
  <2>7. Counted(S, m) <= Counted(R, m)
    BY <1>2, <2>4, <2>6
  <2>8. QED
    BY <2>7 DEF R
<1>8. QED
  BY <1>6, <1>7

LEMMA CountedInt ==
    ASSUME NEW S, Singles(S), NEW m PROVE Counted(S, m) \in Int
<1> DEFINE D == {q \in S : q.t < m}
           f == [p \in D |-> Increase(S, p, 0)]
<1>1. D \in SUBSET S
  OBVIOUS
<1>2. IsFiniteSet(D) /\ \A p \in D : p \in Points
  BY <1>1, FS_Subset DEF Singles
<1>3. \A p \in D : f[p] \in Int
  <2>1. \A p \in D : f[p] = Increase(S, p, 0)
    OBVIOUS
  <2>2. \A p \in D : Increase(S, p, 0) \in Nat
    BY <1>2, ArrivedNat
  <2>3. QED
    BY <2>1, <2>2
<1>4. Counted(S, m) = SumFunctionOnSet(f, D)
  BY DEF Counted, SumFunction
<1> HIDE DEF f, D
<1>5. QED
  BY <1>2, <1>3, <1>4, SumTake

\* What counts before a minute, and at it.
LEMMA CountedNext ==
    ASSUME TypeOK, SampleInv, NEW k \in Nat
    PROVE  LET at == SumFunctionOnSet([p \in Landed(k) |-> Increase(Arrived, p, 0)], Landed(k))
           IN  Due(k + 1) = Due(k) + at /\ Due(k) \in Nat /\ at \in Nat
<1> DEFINE B == {q \in Arrived : q.t < k}
           C == {q \in Arrived : q.t < k + 1}
           f == [p \in B |-> Increase(Arrived, p, 0)]
           g == [p \in C |-> Increase(Arrived, p, 0)]
           h == [p \in Landed(k) |-> Increase(Arrived, p, 0)]
<1>1. Singles(Arrived) /\ \A p \in Arrived : p \in Points /\ p.t \in Nat
  BY ArrivedTypes, SinglesOf, PointTypes
<1>2. \A p \in Arrived : Increase(Arrived, p, 0) \in Nat
  BY <1>1, ArrivedNat
<1>3. C = B \cup Landed(k) /\ B \cap Landed(k) = {}
  <2>1. Landed(k) = {q \in Arrived : q.t = k}
    BY DEF Landed, Arrived
  <2>2. QED
    BY <1>1, <2>1
<1>4. IsFiniteSet(B) /\ IsFiniteSet(Landed(k))
  <2>1. B \in SUBSET Arrived /\ Landed(k) \in SUBSET Arrived
    BY DEF Landed, Arrived
  <2>2. QED
    BY <2>1, ArrivedTypes, FS_Subset
<1>5. /\ \A p \in C : g[p] \in Int
      /\ \A p \in B : f[p] \in Int /\ g[p] = f[p] /\ f[p] \in Nat
      /\ \A p \in Landed(k) : h[p] \in Int /\ g[p] = h[p] /\ h[p] \in Nat
  <2>1. \A p \in C : g[p] = Increase(Arrived, p, 0) /\ p \in Arrived
    OBVIOUS
  <2>2. \A p \in B : f[p] = Increase(Arrived, p, 0)
    OBVIOUS
  <2>3. \A p \in Landed(k) : h[p] = Increase(Arrived, p, 0)
    OBVIOUS
  <2> HIDE DEF B, C, f, g, h
  <2>4. QED
    BY <1>2, <1>3, <2>1, <2>2, <2>3
<1>6. Due(k) = SumFunctionOnSet(f, B) /\ Due(k + 1) = SumFunctionOnSet(g, C)
  BY DEF Due, Counted, SumFunction
<1> HIDE DEF B, C, f, g, h
<1>7. SumFunctionOnSet(g, B \cup Landed(k))
         = SumFunctionOnSet(g, B) + SumFunctionOnSet(g, Landed(k))
  BY <1>3, <1>4, <1>5, SumUnion
<1>8. SumFunctionOnSet(f, B) = SumFunctionOnSet(g, B) /\ SumFunctionOnSet(f, B) \in Nat
  BY <1>4, <1>5, SumSame, SumNat
<1>9. /\ SumFunctionOnSet(h, Landed(k)) = SumFunctionOnSet(g, Landed(k))
      /\ SumFunctionOnSet(h, Landed(k)) \in Nat
  BY <1>4, <1>5, SumSame, SumNat
<1>10. /\ Due(k + 1) = Due(k) + SumFunctionOnSet(h, Landed(k))
       /\ Due(k) \in Nat /\ SumFunctionOnSet(h, Landed(k)) \in Nat
  BY <1>3, <1>6, <1>7, <1>8, <1>9
<1>11. QED
  BY <1>10 DEF h

LEMMA DueNone == ASSUME TypeOK PROVE Due(0) = 0
<1> DEFINE D == {q \in Arrived : q.t < 0}
           f == [p \in D |-> Increase(Arrived, p, 0)]
<1>1. D = {}
  BY PointTypes DEF TypeOK, Arrived
<1>2. Due(0) = SumFunctionOnSet(f, D)
  BY DEF Due, Counted, SumFunction
<1> HIDE DEF f, D
<1>3. QED
  BY <1>1, <1>2, SumEmpty

\* A sample whose predecessors all landed counts its gain.
LEMMA ArrivedExact ==
    ASSUME TypeOK, SampleInv, ClockInv, GainInv, NEW p \in Arrived,
           \A e \in Exported : e.series = p.series /\ e.t < p.t => e \notin sent
    PROVE  Increase(Arrived, p, 0) = p.gain
<1>1. /\ Singles(Arrived) /\ p \in Points /\ p \in Exported /\ p.t \in Nat
      /\ p.series \in Series /\ Arrived \subseteq Exported
  BY ArrivedTypes, SinglesOf, PointTypes
<1>2. ASSUME NEW e \in Exported, e.series = p.series, e.t < p.t
      PROVE  e \in Earlier(Arrived, p)
  BY <1>2 DEF Exported, Arrived, Earlier
<1>3. CASE p.series \in Delta
  BY <1>1, <1>3, IncreaseIs DEF GainInv
<1>4. CASE p.series \in Cumulative
  <2>1. p.series \notin Delta
    BY <1>4, BoundsAssumption
  <2>2. CASE Earlier(Arrived, p) = {}
    <3>1. p.v = p.gain
      BY <1>1, <1>2, <1>4, <2>2 DEF GainInv
    <3>2. StartedInRead(p, 0)
      BY <1>1, FromTheStart
    <3>3. Increase(Arrived, p, 0) = p.v
      BY <1>1, <2>2, <3>2, IncreaseIs
    <3>4. QED
      BY <3>1, <3>3
  <2>3. CASE Earlier(Arrived, p) # {}
    <3>1. PICK q \in Arrived : Last(Arrived, p, q)
      BY <1>1, <2>3, LastExists
    <3>2. q \in Exported /\ q.series = p.series /\ q.t < p.t /\ q.t \in Nat
      BY <1>1, <3>1, ExportedTypes, PointTypes DEF Last, Earlier
    <3>3. After(q.t, p) = {p}
      <4>1. ASSUME NEW e \in After(q.t, p) PROVE e = p
        <5>1. e \in Exported /\ e.series = p.series /\ q.t < e.t /\ e.t <= p.t /\ e.t \in Nat
          BY ExportedTypes, PointTypes DEF After
        <5>2. ~(e.t < p.t)
          BY <1>2, <3>1, <3>2, <5>1 DEF Last
        <5>3. e.t = p.t
          BY <1>1, <5>1, <5>2
        <5>4. QED
          BY <1>1, <5>1, <5>3 DEF SampleInv
      <4>2. p \in After(q.t, p)
        BY <1>1, <3>2 DEF After
      <4>3. QED
        BY <4>1, <4>2
    <3>4. Over(q, p) = p.gain
      BY <1>1, <1>4, <3>2, <3>3 DEF GainInv
    <3>5. Increase(Arrived, p, 0) = Over(q, p)
      BY <1>1, <2>1, <3>1, IncreaseIs
    <3>6. QED
      BY <3>4, <3>5
  <2>4. QED
    BY <2>2, <2>3
<1>5. QED
  BY <1>1, <1>3, <1>4 DEF Series

LEMMA EarliestExists ==
    ASSUME NEW S \in SUBSET Points, IsFiniteSet(S), S # {}
    PROVE  \E q \in S : \A r \in S : q.t <= r.t
<1> DEFINE F == {T \in SUBSET S : T # {} => \E q \in T : \A r \in T : q.t <= r.t}
<1>1. {} \in F
  OBVIOUS
<1>2. ASSUME NEW T \in SUBSET S, NEW x \in S, T \in F, x \notin T
      PROVE  T \cup {x} \in F
  <2>1. CASE T = {}
    BY <2>1, PointTypes
  <2>2. CASE T # {}
    <3>1. PICK q \in T : \A r \in T : q.t <= r.t
      BY <1>2, <2>2
    <3>2. \A r \in T \cup {x} : r.t \in Nat
      BY PointTypes
    <3>3. \E z \in T \cup {x} : \A r \in T \cup {x} : z.t <= r.t
      <4>1. CASE q.t <= x.t
        BY <3>1, <3>2, <4>1
      <4>2. CASE x.t <= q.t
        BY <3>1, <3>2, <4>2
      <4>3. QED
        BY <3>2, <4>1, <4>2
    <3>4. QED
      BY <3>3
  <2>3. QED
    BY <2>1, <2>2
<1>3. S \in F
  <2> HIDE DEF F
  <2> QED BY <1>1, <1>2, FiniteInduction
<1>4. QED
  BY <1>3

\* A read that starts the lookback before a window counts each sample of the window
\* as a read of everything does, if no sample before the window is still to land.
LEMMA ReadAll ==
    ASSUME TypeOK, SampleInv, ClockInv, GainInv, StartInv, Heard, NEW from \in Int,
           NEW p \in Once(from), p.t >= from, \A e \in sent : e.t >= from
    PROVE  Increase(Once(from), p, from) = Increase(Arrived, p, 0)
<1> DEFINE S == Once(from)
<1>1. /\ Singles(Arrived) /\ Singles(S) /\ S \subseteq Arrived /\ Arrived \subseteq Exported
      /\ p \in Points /\ p \in Exported /\ p \in Arrived
  BY ArrivedTypes, OnceTypes, SinglesOf DEF Once, Arrived
<1>2. /\ p.t \in Nat /\ p.started \in Nat /\ p.v \in Nat /\ p.t < now /\ now \in Nat
      /\ Lookback \in Nat /\ MaxSilence \in Nat /\ MaxSilence <= Lookback
      /\ p.series \in Series
      /\ \A e \in Exported : e.t \in Nat /\ e.started \in Nat /\ e.started <= e.t
                             /\ e.v \in Nat /\ e \in Points
  BY <1>1, Bounds, PointTypes, ExportedTypes DEF Once, TypeOK, Heard, ClockInv
<1>3. ASSUME NEW e \in Arrived, e.series = p.series, e.t < p.t, e.t >= from - Lookback
      PROVE  e \in Earlier(S, p)
  <2>1. e.t < now
    BY <1>1, <1>2, <1>3
  <2>2. QED
    BY <1>3, <2>1 DEF Once, Arrived, Earlier
<1>4. Earlier(S, p) \subseteq Earlier(Arrived, p)
  BY <1>1 DEF Earlier
<1>5. CASE p.series \in Delta
  BY <1>1, <1>5, IncreaseIs
<1>6. ASSUME p.series \in Cumulative, Earlier(S, p) = {}
      PROVE  p.started >= from - Lookback
  <2> DEFINE E == {e \in Exported : e.series = p.series /\ from <= e.t /\ e.t <= p.t}
  <2>1. E \in SUBSET Points /\ IsFiniteSet(E) /\ p \in E
    <3>1. E \in SUBSET Exported
      OBVIOUS
    <3>2. p \in E
      BY <1>1, <1>2
    <3>3. QED
      BY <3>1, <3>2, ExportedTypes, FS_Subset
  <2>2. PICK x \in E : \A e \in E : x.t <= e.t
    <3> HIDE DEF E
    <3> QED BY <2>1, EarliestExists
  <2>3. x \in Exported /\ x.series = p.series /\ from <= x.t /\ x.t <= p.t
    OBVIOUS
  <2>4. ~ \E q \in Exported : q.series = x.series /\ q.t < x.t /\ x.t <= q.t + MaxSilence
    <3> SUFFICES ASSUME NEW q \in Exported, q.series = x.series, q.t < x.t,
                        x.t <= q.t + MaxSilence
                 PROVE  FALSE
      OBVIOUS
    <3>1. q.t < p.t /\ q.t >= from - Lookback
      BY <1>2, <2>3
    <3>2. q \notin E
      BY <1>2, <2>2, <2>3
    <3>3. q.t < from
      BY <1>2, <2>3, <3>1, <3>2
    <3>4. q \in Arrived
      BY <1>2, <3>3 DEF Exported, Arrived
    <3>5. QED
      BY <1>3, <1>6, <2>3, <3>1, <3>4
  <2>5. x.t <= x.started + Lookback
    BY <1>6, <2>3, <2>4 DEF GainInv
  <2>6. x.started <= p.started
    <3>1. CASE x.t < p.t
      BY <1>1, <2>3, <3>1 DEF StartInv
    <3>2. CASE ~(x.t < p.t)
      <4>1. x.t = p.t
        BY <1>2, <2>3, <3>2
      <4>2. x = p
        BY <1>1, <2>3, <4>1 DEF SampleInv
      <4>3. QED
        BY <1>2, <4>2
    <3>3. QED
      BY <3>1, <3>2
  <2> HIDE DEF E
  <2>7. QED
    BY <1>2, <2>3, <2>5, <2>6
<1>7. CASE p.series \in Cumulative
  <2>1. p.series \notin Delta
    BY <1>7, BoundsAssumption
  <2>2. CASE Earlier(S, p) # {}
    <3>1. PICK q \in S : Last(S, p, q)
      BY <1>1, <2>2, LastExists
    <3>2. Last(Arrived, p, q)
      <4>1. q \in Earlier(Arrived, p) /\ q \in Exported /\ q.t >= from - Lookback
        BY <1>1, <1>4, <3>1 DEF Last, Once
      <4>2. ASSUME NEW e \in Earlier(Arrived, p) PROVE e.t <= q.t
        <5>1. e \in Arrived /\ e \in Exported /\ e.series = p.series /\ e.t < p.t
          BY <1>1 DEF Earlier
        <5>2. CASE e.t >= from - Lookback
          BY <1>3, <3>1, <5>1, <5>2 DEF Last
        <5>3. CASE ~(e.t >= from - Lookback)
          BY <1>2, <4>1, <5>1, <5>3
        <5>4. QED
          BY <5>2, <5>3
      <4>3. QED
        BY <4>1, <4>2 DEF Last
    <3>3. Increase(S, p, from) = Over(q, p)
      BY <1>1, <2>1, <3>1, IncreaseIs
    <3>4. Increase(Arrived, p, 0) = Over(q, p)
      BY <1>1, <2>1, <3>1, <3>2, IncreaseIs
    <3>5. QED
      BY <3>3, <3>4
  <2>3. CASE Earlier(S, p) = {}
    <3>1. p.started >= from - Lookback
      BY <1>6, <1>7, <2>3
    <3>2. StartedInRead(p, from)
      BY <3>1 DEF StartedInRead
    <3>3. Increase(S, p, from) = p.v
      BY <1>1, <2>3, <3>2, IncreaseIs
    <3>4. CASE Earlier(Arrived, p) = {}
      <4>1. StartedInRead(p, 0)
        BY <1>1, FromTheStart
      <4>2. Increase(Arrived, p, 0) = p.v
        BY <1>1, <3>4, <4>1, IncreaseIs
      <4>3. QED
        BY <3>3, <4>2
    <3>5. CASE Earlier(Arrived, p) # {}
      <4>1. PICK q \in Arrived : Last(Arrived, p, q)
        BY <1>1, <3>5, LastExists
      <4>2. q \in Exported /\ q.series = p.series /\ q.t < p.t
        BY <1>1, <4>1 DEF Last, Earlier
      <4>3. q.t < from - Lookback
        BY <1>2, <1>3, <2>3, <4>2
      <4>4. q.started < p.started
        BY <1>2, <3>1, <4>2, <4>3
      <4>5. Over(q, p) = p.v
        BY <1>2, <4>2, <4>4 DEF Over
      <4>6. Increase(Arrived, p, 0) = Over(q, p)
        BY <1>1, <2>1, <4>1, IncreaseIs
      <4>7. QED
        BY <3>3, <4>5, <4>6
    <3>6. QED
      BY <3>4, <3>5
  <2>4. QED
    BY <2>2, <2>3
<1>8. QED
  BY <1>2, <1>5, <1>7 DEF Series

-----------------------------------------------------------------------------
(***************************************************************************)
(* What the rows hold together.                                            *)
(***************************************************************************)

\* A refresh makes a row what a read of everything counts at its minute.
LEMMA RefreshedDue ==
    ASSUME TypeOK, ClockInv, SampleInv, GainInv, StartInv, RowInv, ExactInv,
           Heard, InTime, Refresh, NEW m \in Minutes, m < now
    PROVE  Row(m)' = SumFunctionOnSet(
                         [p \in Landed(m) |-> Increase(Arrived, p, 0)], Landed(m))
<1> DEFINE from == WindowStart
           all == [p \in Landed(m) |-> Increase(Arrived, p, 0)]
           inc == [p \in Landed(m) |-> Increase(Once(from), p, from)]
           gains == [p \in Landed(m) |-> p.gain]
<1>1. /\ m \in Nat /\ now \in Nat /\ refreshed \in Nat /\ MaxLate \in Nat /\ from \in Int
      /\ refreshed <= now
  BY Bounds, WindowIs DEF TypeOK, ClockInv
<1>2. \A e \in sent : e.t >= from /\ e.t \in Nat
  <2> SUFFICES ASSUME NEW e \in sent PROVE e.t >= from /\ e.t \in Nat
    OBVIOUS
  <2>1. e.t \in Minutes /\ e.t \in Nat /\ now <= e.t + MaxLate
    BY PointTypes DEF TypeOK, ClockInv
  <2>2. e.t < from => e.t < refreshed - MaxLate
    BY <2>1, BeforeWindow
  <2> HIDE DEF from
  <2>3. QED
    BY <1>1, <2>1, <2>2
<1>3. /\ IsFiniteSet(Landed(m)) /\ Landed(m) \subseteq Arrived
      /\ \A p \in Landed(m) : p.t = m /\ p \in Points /\ Increase(Arrived, p, 0) \in Nat
  <2>1. Landed(m) \subseteq Arrived /\ \A p \in Landed(m) : p.t = m
    BY DEF Landed, Arrived
  <2>2. Singles(Arrived) /\ \A p \in Arrived : p \in Points
    BY ArrivedTypes, SinglesOf
  <2>3. QED
    BY <2>1, <2>2, ArrivedNat, LandedTypes
<1>4. CASE m \in DOMAIN Ingest(from)
  <2>1. Landed(m) \subseteq Once(from) /\ Ingest(from)[m] = SumFunctionOnSet(inc, Landed(m))
    BY <1>1, <1>4, IngestIs
  <2>2. from <= m /\ Row(m)' = Ingest(from)[m]
    BY <1>4, RefreshedRows
  <2> HIDE DEF from
  <2>3. \A p \in Landed(m) : Increase(Once(from), p, from) = Increase(Arrived, p, 0)
    BY <1>1, <1>2, <1>3, <2>1, <2>2, ReadAll
  <2>4. \A p \in Landed(m) : all[p] \in Int /\ inc[p] = all[p]
    BY <1>3, <2>3
  <2>5. SumFunctionOnSet(all, Landed(m)) = SumFunctionOnSet(inc, Landed(m))
    <3> HIDE DEF all, inc
    <3> QED BY <1>3, <2>4, SumSame
  <2>6. QED
    BY <2>1, <2>2, <2>5
<1>5. CASE m \notin DOMAIN Ingest(from) /\ m >= from
  <2>1. Landed(m) = {}
    BY <1>1, <1>5, IngestIs
  <2>2. Row(m)' = Row(m) /\ Row(m) = 0
    BY <1>5, RefreshedRows
  <2>3. SumFunctionOnSet(all, Landed(m)) = 0
    <3> HIDE DEF all
    <3> QED BY <2>1, SumEmpty
  <2>4. QED
    BY <2>2, <2>3
<1>6. CASE m \notin DOMAIN Ingest(from) /\ m < from
  <2>1. m < refreshed - MaxLate
    BY <1>6, BeforeWindow
  <2>2. Row(m)' = Row(m) /\ Row(m) = Bytes(Landed(m))
    BY <1>6, <2>1, RefreshedRows DEF ExactInv
  <2>3. \A e \in sent : ~(e.t < m)
    BY <1>1, <1>2, <1>6
  <2>4. \A p \in Landed(m) : Increase(Arrived, p, 0) = p.gain
    BY <1>3, <2>3, ArrivedExact
  <2>5. \A p \in Landed(m) : all[p] \in Int /\ gains[p] = all[p]
    BY <1>3, <2>4
  <2>6. SumFunctionOnSet(all, Landed(m)) = SumFunctionOnSet(gains, Landed(m))
    <3> HIDE DEF all, gains
    <3> QED BY <1>3, <2>5, SumSame
  <2>7. Bytes(Landed(m)) = SumFunctionOnSet(gains, Landed(m))
    BY DEF Bytes, SumFunction
  <2>8. QED
    BY <2>2, <2>6, <2>7
<1>7. QED
  BY <1>1, <1>4, <1>5, <1>6

LEMMA RowsBeforeNext ==
    ASSUME TypeOK, NEW k \in Minutes
    PROVE  RowsBefore(k + 1) = RowsBefore(k) + Row(k) /\ RowsBefore(k) \in Nat
<1> DEFINE f == [n \in Minutes |-> Row(n)]
<1>1. f \in [Minutes -> Nat] /\ f[k] = Row(k)
  BY RowTypes
<1>2. (k + 1) - 1 = k
  BY Bounds
<1>3. RowsBefore(k + 1) = SumFunctionOnSet(f, 0..k) /\ RowsBefore(k) = SumFunctionOnSet(f, 0..(k - 1))
  BY <1>2 DEF RowsBefore
<1> HIDE DEF f
<1>4. /\ SumFunctionOnSet(f, 0..k) = f[k] + SumFunctionOnSet(f, 0..(k - 1))
      /\ SumFunctionOnSet(f, 0..(k - 1)) \in Nat
  BY <1>1, SumUpTo
<1>5. QED
  BY <1>1, <1>3, <1>4, RowTypes

\* So together the rows become what it counts, and were no more than that.
LEMMA RefreshDue ==
    ASSUME TypeOK, TypeOK', ClockInv, SampleInv, GainInv, StartInv, RowInv, ExactInv, DueInv,
           Heard, InTime, Refresh
    PROVE  \A m \in 0..(MaxNow + 1) :
              RowsBefore(m) <= RowsBefore(m)' /\ RowsBefore(m)' <= Due(m)
<1> DEFINE g == [n \in Minutes |-> Row(n)']
           T(k) == SumFunctionOnSet(g, 0..(k - 1))
           F == {k \in 0..(MaxNow + 1) :
                   /\ RowsBefore(k) <= T(k) /\ T(k) <= Due(k)
                   /\ k <= now => T(k) = Due(k)}
<1>1. now \in Nat /\ now \in Minutes /\ refreshed \in Nat /\ refreshed < now /\ MaxNow \in Nat
  BY Bounds DEF TypeOK, Refresh
<1>2. \A n : Row(n)' \in Nat
  BY DEF TypeOK, Row
<1>3. ASSUME NEW n \in Minutes, ~(n < now) PROVE Row(n)' = 0 /\ Row(n) = 0
  <2>1. n \notin DOMAIN usage_minute
    BY <1>1, <1>3, Bounds DEF RowInv
  <2>2. n \notin DOMAIN Ingest(WindowStart)
    BY <1>3, WindowIs, IngestIs
  <2>3. QED
    BY <2>1, <2>2, RefreshedRows DEF Row
<1>4. \A k : RowsBefore(k)' = T(k)
  BY DEF RowsBefore
<1>5. g \in [Minutes -> Nat] /\ \A n \in Minutes : g[n] = Row(n)'
  BY <1>2
<1>6. \A k \in 0..(MaxNow + 1) : RowsBefore(k) <= Due(k)
  BY DEF DueInv
<1>7. 0 \in F
  <2>1. 0..(0 - 1) = {} /\ 0 \in 0..(MaxNow + 1) /\ 0 <= now
    BY <1>1
  <2>2. SumFunctionOnSet(g, {}) = 0 /\ T(0) = SumFunctionOnSet(g, {})
    BY <2>1, SumEmpty
  <2>3. Due(0) = 0 /\ RowsBefore(0) <= Due(0)
    BY <1>6, <2>1, DueNone
  <2> HIDE DEF T
  <2>4. QED
    BY <2>1, <2>2, <2>3
<1>8. ASSUME NEW k \in 0..((MaxNow + 1) - 1), k \in F PROVE k + 1 \in F
  <2>1. k \in Minutes /\ k \in Nat /\ k + 1 \in 0..(MaxNow + 1) /\ (k + 1) - 1 = k
    BY Bounds
  <2>2. /\ T(k + 1) = g[k] + T(k) /\ T(k) \in Nat /\ g[k] \in Nat
    <3>1. /\ SumFunctionOnSet(g, 0..k) = g[k] + SumFunctionOnSet(g, 0..(k - 1))
          /\ SumFunctionOnSet(g, 0..(k - 1)) \in Nat
      <4> HIDE DEF g
      <4> QED BY <1>5, <2>1, SumUpTo
    <3>2. T(k + 1) = SumFunctionOnSet(g, 0..k)
      BY <2>1
    <3>3. g[k] \in Nat
      BY <1>5, <2>1
    <3>4. QED
      BY <3>1, <3>2, <3>3
  <2>3. RowsBefore(k + 1) = RowsBefore(k) + Row(k) /\ RowsBefore(k) \in Nat /\ Row(k) \in Nat
    BY <2>1, RowsBeforeNext, RowTypes
  <2> DEFINE at == SumFunctionOnSet([p \in Landed(k) |-> Increase(Arrived, p, 0)], Landed(k))
  <2>4. Due(k + 1) = Due(k) + at /\ Due(k) \in Nat /\ at \in Nat
    BY <2>1, CountedNext
  <2>5. g[k] = Row(k)'
    BY <1>5, <2>1
  <2>6. k < now => g[k] = at
    BY <2>1, <2>5, RefreshedDue
  <2>7. ~(k < now) => g[k] = 0 /\ Row(k) = 0
    BY <1>3, <2>1, <2>5
  <2>8. RowsBefore(k) <= T(k) /\ T(k) <= Due(k) /\ (k <= now => T(k) = Due(k))
    BY <1>8
  <2>9. RowsBefore(k + 1) <= Due(k + 1)
    BY <1>6, <2>1
  <2> HIDE DEF T, g, at
  <2>10. /\ RowsBefore(k + 1) <= T(k + 1) /\ T(k + 1) <= Due(k + 1)
         /\ k + 1 <= now => T(k + 1) = Due(k + 1)
    <3>1. CASE k < now
      BY <1>1, <2>1, <2>2, <2>3, <2>4, <2>6, <2>8, <2>9, <3>1
    <3>2. CASE ~(k < now)
      BY <1>1, <2>1, <2>2, <2>3, <2>4, <2>7, <2>8, <3>2
    <3>3. QED
      BY <3>1, <3>2
  <2>11. QED
    BY <2>1, <2>10
<1>9. \A k \in 0..(MaxNow + 1) : k \in F
  <2> HIDE DEF F
  <2> QED BY <1>1, <1>7, <1>8, UpTo
<1>10. QED
  <2> HIDE DEF T
  <2> QED BY <1>4, <1>9

LEMMA StartStep ==
    ASSUME TypeOK, ClockInv, SampleInv, CounterInv, StartInv, Next
    PROVE  StartInv'
<1>1. CASE Tick \/ Refresh \/ \E p \in sent, copies \in {1, 2} : Land(p, copies)
  <2>1. Exported' = Exported
    BY <1>1, SameExported
  <2>2. QED
    BY <2>1 DEF StartInv
<1>2. ASSUME NEW s \in Series, NEW started \in Minutes, NEW v \in Nat, NEW gain \in Gains,
             Sampled(s, started, v, gain)
      PROVE  StartInv'
  <2>. PICK n : n = New(s, started, v, gain)
    OBVIOUS
  <2>1. /\ n.series = s /\ n.t = now /\ n.started = started /\ now \in Nat
        /\ Exported' = Exported \cup {n}
        /\ \A p \in Exported : p.series = s => p.t <= counter[s].at /\ p.t < now
    BY <1>2, NewExported DEF New
  <2>2. \A p \in Exported : p.t \in Nat /\ p.started \in Nat
    BY ExportedTypes, PointTypes
  <2>3. ASSUME NEW q \in Exported, q.series = s PROVE q.started <= started
    <3>1. counter[s].at # -1
      BY <2>1, <2>2, <2>3, CounterTypes
    <3>2. PICK l \in Exported : /\ l.series = s /\ l.t = counter[s].at
                                /\ l.started = counter[s].started
      BY <3>1, LastSample
    <3>3. q.started <= l.started
      <4>1. CASE q.t < l.t
        BY <2>3, <3>2, <4>1 DEF StartInv
      <4>2. CASE ~(q.t < l.t)
        <5>1. q.t = l.t
          BY <2>1, <2>2, <2>3, <3>2, <4>2
        <5>2. q = l
          BY <2>3, <3>2, <5>1 DEF SampleInv
        <5>3. QED
          BY <2>2, <5>2
      <4>3. QED
        BY <4>1, <4>2
    <3>4. l.started <= started /\ started \in Nat
      <4>1. started \in Nat
        BY Bounds
      <4>2. QED
        BY <1>2, <2>2, <3>2, <4>1 DEF Sampled, GoesOn, FromZero
    <3>5. QED
      BY <2>2, <3>3, <3>4
  <2>4. \A p \in Exported' : p.series = s => ~(n.t < p.t)
    BY <2>1, <2>2
  <2>5. QED
    BY <2>1, <2>3, <2>4 DEF StartInv
<1>3. QED
  BY <1>1, <1>2, Steps

LEMMA DueStep ==
    ASSUME TypeOK, TypeOK', ClockInv, SampleInv, CounterInv, GainInv, SpanInv, StartInv,
           RowInv, ExactInv, DueInv, Next
    PROVE  DueInv'
<1>1. ASSUME UNCHANGED <<points, usage_minute>> PROVE DueInv'
  BY <1>1 DEF DueInv, RowsBefore, Row, Due, Counted, Arrived, Increase, Previous, Earlier,
              StartedInRead, Heard, InTime
<1>2. CASE Tick
  BY <1>1, <1>2 DEF Tick
<1>3. ASSUME NEW s \in Series, NEW started \in Minutes, NEW v \in Nat, NEW gain \in Gains,
             Sampled(s, started, v, gain)
      PROVE  DueInv'
  BY <1>1, <1>3 DEF Sampled, Sample
<1>4. ASSUME NEW s \in sent, NEW copies \in {1, 2}, Land(s, copies)
      PROVE  DueInv'
  <2>1. Arrived' = Arrived \cup {s} /\ s \in Exported
    <3>1. s \in Points /\ s.copy = 1 /\ [s EXCEPT !.copy = 1] = s
      BY DEF TypeOK, SampleInv, Points
    <3>2. \A i \in 1..copies : [s EXCEPT !.copy = i].copy = i
      BY <3>1 DEF Points
    <3>3. points' = points \cup {[s EXCEPT !.copy = i] : i \in 1..copies} /\ 1 \in 1..copies
      BY <1>4 DEF Land
    <3>4. \A q \in points' : q.copy = 1 => q \in points \/ q = s
      BY <3>1, <3>2, <3>3
    <3>5. s \in points' /\ points \subseteq points'
      BY <3>1, <3>3
    <3>6. QED
      BY <3>1, <3>4, <3>5 DEF Arrived, Exported
  <2>2. \A m : RowsBefore(m)' = RowsBefore(m)
    BY <1>4 DEF Land, RowsBefore, Row
  <2>3. ASSUME NEW m \in 0..(MaxNow + 1) PROVE Due(m) <= Due(m)'
    <3>1. Due(m)' = Counted(Arrived \cup {s}, m)
      BY <2>1 DEF Due, Counted, Increase, Previous, Earlier, StartedInRead
    <3>2. Due(m) \in Int
      BY ArrivedTypes, SinglesOf, CountedInt DEF Due
    <3>3. CASE s \in Arrived
      <4>1. Arrived \cup {s} = Arrived
        BY <3>3
      <4>2. Due(m)' = Counted(Arrived, m)
        BY <3>1, <4>1
      <4>3. Due(m) = Counted(Arrived, m)
        BY DEF Due
      <4>4. QED
        BY <3>2, <4>2, <4>3
    <3>4. CASE s \notin Arrived
      <4>1. Counted(Arrived, m) <= Counted(Arrived \cup {s}, m)
        BY <2>1, <3>4, ArrivedTypes, CountedGrows
      <4>2. Due(m) = Counted(Arrived, m)
        BY DEF Due
      <4>3. QED
        BY <3>1, <4>1, <4>2
    <3>5. QED
      BY <3>3, <3>4
  <2>4. ASSUME NEW m \in 0..(MaxNow + 1)
        PROVE  RowsBefore(m) \in Int /\ Due(m) \in Int /\ Due(m)' \in Int
    <3>1. Singles(Arrived \cup {s})
      <4>1. Arrived \cup {s} \in SUBSET Exported
        BY <2>1, ArrivedTypes
      <4>2. QED
        BY <4>1, SinglesOf
    <3>2. Due(m)' = Counted(Arrived \cup {s}, m)
      BY <2>1 DEF Due, Counted, Increase, Previous, Earlier, StartedInRead
    <3>3. Counted(Arrived \cup {s}, m) \in Int
      BY <3>1, CountedInt
    <3>4. Due(m) \in Int
      BY ArrivedTypes, SinglesOf, CountedInt DEF Due
    <3>5. QED
      BY <3>2, <3>3, <3>4, RowsBeforeInt
  <2>5. QED
    BY <2>2, <2>3, <2>4 DEF DueInv, Heard, InTime
<1>5. CASE Refresh
  <2>1. \A m : Due(m)' = Due(m)
    BY <1>5 DEF Refresh, Due, Counted, Arrived, Increase, Previous, Earlier, StartedInRead
  <2>2. QED
    BY <1>5, <2>1, RefreshDue DEF DueInv, Heard, InTime
<1>6. QED
  BY <1>2, <1>3, <1>4, <1>5, Steps

-----------------------------------------------------------------------------
(***************************************************************************)
(* Theorems.                                                               *)
(***************************************************************************)

LEMMA InitIInv == ASSUME Init PROVE IInv
<1>1. 0 \in Minutes /\ MaxGap \in Nat
  BY Bounds
<1>2. Exported = {}
  BY DEF Init, Exported
<1>3. TypeOK
  <2>1. [started |-> 0, v |-> 0, at |-> -1] \in Counters
    BY <1>1 DEF Counters
  <2>2. QED
    BY <1>1, <2>1 DEF Init, TypeOK
<1>4. ClockInv
  BY <1>1, <1>2 DEF Init, ClockInv
<1>5. SampleInv
  BY <1>2, FS_EmptySet DEF Init, SampleInv
<1>6. CounterInv
  BY <1>2 DEF Init, CounterInv
<1>7. GainInv /\ SpanInv
  BY <1>2 DEF GainInv, SpanInv
<1>8. RowInv
  BY DEF Init, RowInv
<1>9. ExactInv
  <2>1. \A m \in Minutes : ~(m < refreshed - MaxLate)
    BY Bounds DEF Init
  <2>2. QED
    BY <2>1 DEF ExactInv
<1>10. PrefixInv
  <2>1. ASSUME NEW m \in 0..(MaxNow + 1) PROVE RowsBefore(m) <= Bytes(Covered(m))
    <3>1. Bytes(Covered(m)) \in Nat
      BY <1>3, <1>5, CoveredTypes, BytesNat
    <3>2. RowsBefore(m) = 0
      <4> DEFINE f == [n \in Minutes |-> Row(n)]
                 g == [n \in Minutes |-> 0]
      <4>1. f = g
        BY DEF Init, Row
      <4> HIDE DEF f, g
      <4>2. RowsBefore(m) = SumFunctionOnSet(g, 0..(m - 1))
        BY <4>1 DEF RowsBefore, f
      <4>3. QED
        BY <4>2, NoRows DEF g
    <3>3. QED
      BY <3>1, <3>2
  <2>2. QED
    BY <2>1 DEF PrefixInv
<1>11. StartInv
  BY <1>2 DEF StartInv
<1>12. DueInv
  <2>1. ASSUME NEW m \in 0..(MaxNow + 1) PROVE RowsBefore(m) <= Due(m)
    <3>1. RowsBefore(m) = 0
      <4> DEFINE f == [n \in Minutes |-> Row(n)]
                 g == [n \in Minutes |-> 0]
      <4>1. f = g
        BY DEF Init, Row
      <4> HIDE DEF f, g
      <4>2. RowsBefore(m) = SumFunctionOnSet(g, 0..(m - 1))
        BY <4>1 DEF RowsBefore, f
      <4>3. QED
        BY <4>2, NoRows DEF g
    <3>2. Due(m) \in Nat
      <4>1. m \in Nat
        OBVIOUS
      <4>2. QED
        BY <1>3, <1>5, <4>1, CountedNext
    <3>3. QED
      BY <3>1, <3>2
  <2>2. QED
    BY <2>1 DEF DueInv
<1>13. QED
  BY <1>3, <1>4, <1>5, <1>6, <1>7, <1>8, <1>9, <1>10, <1>11, <1>12 DEF IInv

LEMMA NextIInv == ASSUME IInv, [Next]_vars PROVE IInv'
<1>1. CASE Next
  <2>1. TypeOK' /\ ClockInv' /\ SampleInv' /\ CounterInv'
    BY <1>1, TypeStep, ClockStep, SampleStep, CounterStep DEF IInv
  <2>2. GainInv' /\ SpanInv'
    BY <1>1, IncreaseStep DEF IInv
  <2>3. RowInv' /\ ExactInv' /\ PrefixInv'
    BY <1>1, RowStep, ExactStep, PrefixStep DEF IInv
  <2>4. StartInv' /\ DueInv'
    BY <1>1, <2>1, StartStep, DueStep DEF IInv
  <2>5. QED
    BY <2>1, <2>2, <2>3, <2>4 DEF IInv
<1>2. CASE UNCHANGED vars
  <2>1. Exported' = Exported
    BY <1>2 DEF vars, Exported
  <2>2. \A m : Row(m)' = Row(m) /\ Landed(m)' = Landed(m)
    BY <1>2 DEF vars, Row, Landed
  <2>3. \A m : Covered(m)' = Covered(m)
    BY <1>2, <2>1 DEF vars, Covered
  <2>4. TypeOK' /\ ClockInv' /\ SampleInv' /\ CounterInv'
    BY <1>2, <2>1 DEF IInv, vars, TypeOK, ClockInv, SampleInv, CounterInv
  <2>5. GainInv' /\ SpanInv'
    BY <2>1, SameIncreases DEF IInv
  <2>6. RowInv' /\ ExactInv' /\ PrefixInv'
    BY <1>2, <2>2, <2>3
    DEF IInv, vars, RowInv, ExactInv, Heard, InTime, PrefixInv, RowsBefore, Bytes
  <2>7. StartInv'
    BY <2>1 DEF IInv, StartInv
  <2>8. DueInv'
    <3>1. \A m : Due(m)' = Due(m)
      BY <1>2 DEF vars, Due, Counted, Arrived, Increase, Previous, Earlier, StartedInRead
    <3>2. \A m : RowsBefore(m)' = RowsBefore(m)
      BY <2>2 DEF RowsBefore
    <3>3. QED
      BY <3>1, <3>2 DEF IInv, DueInv, Heard, InTime
  <2>9. QED
    BY <2>4, <2>5, <2>6, <2>7, <2>8 DEF IInv
<1>3. QED
  BY <1>1, <1>2

\* The inductive invariant: types, the order of the clocks, what a counter and each
\* of its samples say of one another, and what a row may and must hold.
THEOREM Inductive == Spec => []IInv
<1>1. Init => IInv
  BY InitIInv
<1>2. IInv /\ [Next]_vars => IInv'
  BY NextIInv
<1>3. QED
  BY <1>1, <1>2, PTL DEF Spec

\* Every variable has its type; above all, no row is ever negative, though a
\* counter may go back.
THEOREM TypeCorrect == Spec => []TypeOK
<1>1. IInv => TypeOK
  BY DEF IInv
<1>2. QED
  BY <1>1, Inductive, PTL

\* When series are sampled within the lookback, and a late sample lands while a
\* refresh still recomputes its minute, the minutes that the view leaves alone hold
\* exactly the bytes ingested in them, whatever was late, repeated or restarted.
THEOREM FinalRowsExactHolds ==
    ASSUME Heard, InTime
    PROVE  Spec => []FinalRowsExact
<1>1. IInv => FinalRowsExact
  <2> SUFFICES ASSUME IInv, NEW m \in Minutes, m < WindowStart
               PROVE  Row(m) = Bytes(Landed(m))
    BY DEF FinalRowsExact
  <2>1. m < refreshed - MaxLate
    BY BeforeWindow DEF IInv
  <2>2. QED
    BY <2>1 DEF IInv, ExactInv
<1>2. QED
  BY <1>1, Inductive, PTL

\* However late samples land and however seldom the view refreshes, the rows never
\* hold more bytes than were ingested.
THEOREM NeverOvercountsHolds == Spec => []NeverOvercounts
<1>1. IInv => NeverOvercounts
  <2> SUFFICES ASSUME IInv PROVE NeverOvercounts
    OBVIOUS
  <2> DEFINE f == [m \in Minutes |-> Row(m)]
  <2>1. MaxNow + 1 \in 0..(MaxNow + 1) /\ (MaxNow + 1) - 1 = MaxNow /\ Minutes = 0..MaxNow
    BY Bounds
  <2>2. RowsBefore(MaxNow + 1) = SumFunctionOnSet(f, Minutes)
    BY <2>1 DEF RowsBefore
  <2>3. RowsBefore(MaxNow + 1) <= Bytes(Covered(MaxNow + 1))
    BY <2>1 DEF IInv, PrefixInv
  <2>4. Bytes(Covered(MaxNow + 1)) <= Bytes(Exported)
    <3>1. Covered(MaxNow + 1) \in SUBSET Exported
      BY DEF Covered
    <3>2. QED
      BY <3>1, ExportedTypes, BytesMore DEF IInv
  <2>5. /\ Bytes(Covered(MaxNow + 1)) \in Nat /\ Bytes(Exported) \in Nat
        /\ RowsBefore(MaxNow + 1) \in Int
    BY <2>1, CoveredTypes, ExportedTypes, BytesNat, RowsBeforeInt DEF IInv
  <2>6. SumFunction(f) = SumFunctionOnSet(f, Minutes)
    BY DEF SumFunction
  <2> HIDE DEF f
  <2>7. SumFunction(f) <= Bytes(Exported)
    BY <2>2, <2>3, <2>4, <2>5, <2>6
  <2>8. QED
    BY <2>7 DEF NeverOvercounts, f
<1>2. QED
  BY <1>1, Inductive, PTL

\* When series are sampled within the lookback, no refresh replaces a row that is
\* right once every sample up to its minute has landed.
THEOREM RightStaysRightHolds ==
    ASSUME Heard
    PROVE  Spec => RightStaysRight
<1>1. IInv /\ [Next]_vars =>
         [\A m \in Minutes :
             Settled(m) /\ Row(m) = Bytes(Landed(m)) => Row(m)' = Row(m)]_vars
  <2> SUFFICES ASSUME IInv, Next, NEW m \in Minutes,
                      Settled(m), Row(m) = Bytes(Landed(m))
               PROVE  Row(m)' = Row(m)
    OBVIOUS
  <2>1. CASE Refresh
    <3>1. CASE m \in DOMAIN Ingest(WindowStart)
      BY <2>1, <3>1, ExactRow DEF IInv
    <3>2. CASE m \notin DOMAIN Ingest(WindowStart)
      BY <2>1, <3>2, RefreshedRows DEF IInv
    <3>3. QED
      BY <3>1, <3>2
  <2>2. CASE ~Refresh
    <3>1. usage_minute' = usage_minute
      BY <2>2 DEF Next, Tick, Export, Restarted, SetBack, Sample, Land
    <3>2. QED
      BY <3>1 DEF Row
  <2>3. QED
    BY <2>1, <2>2
<1>2. QED
  BY <1>1, Inductive, PTL DEF Spec, RightStaysRight

\* When series are sampled within the lookback and late samples land in time, no
\* refresh takes back any of what the rows before a minute hold together: bytes that
\* a late sample takes from one row it puts in an earlier one.
THEOREM NeverTakenBackHolds ==
    ASSUME Heard, InTime
    PROVE  Spec => NeverTakenBack
<1>1. IInv /\ IInv' /\ [Next]_vars =>
         [\A m \in 0..(MaxNow + 1) : RowsBefore(m) <= RowsBefore(m)']_vars
  <2> SUFFICES ASSUME IInv, IInv', Next, NEW m \in 0..(MaxNow + 1)
               PROVE  RowsBefore(m) <= RowsBefore(m)'
    OBVIOUS
  <2>1. CASE Refresh
    BY <2>1, RefreshDue DEF IInv
  <2>2. CASE ~Refresh
    <3>1. usage_minute' = usage_minute
      BY <2>2 DEF Next, Tick, Export, Restarted, SetBack, Sample, Land
    <3>2. RowsBefore(m)' = RowsBefore(m)
      BY <3>1 DEF RowsBefore, Row
    <3>3. RowsBefore(m) \in Int
      BY RowsBeforeInt DEF IInv
    <3>4. QED
      BY <3>2, <3>3
  <2>3. QED
    BY <2>1, <2>2
<1>2. QED
  BY <1>1, Inductive, PTL DEF Spec, NeverTakenBack
=============================================================================
