--------------------------- MODULE IngestCounter ---------------------------
(***************************************************************************)
(* Bytes ingested per minute, from counters that are exported late, twice  *)
(* and across restarts (views/usage_minute_ingest.sql and                  *)
(* views/usage_minute_ingest_recent.sql).                                  *)
(*                                                                         *)
(* A receiver or fetcher keeps a counter and exports points of it through  *)
(* the otel collector, both outside this repository.  The view turns the   *)
(* points it reads into the increase of each sample over the one before    *)
(* it, and every refresh recomputes the minutes of its window.             *)
(*                                                                         *)
(* Data.  One org: a sample counts towards its org and towards all orgs in *)
(* the same way.  A series exports at most once a minute, and a minute is  *)
(* the unit of time.  A refresh reads and inserts in one step: UsageRollup *)
(* takes it apart.                                                         *)
(***************************************************************************)
EXTENDS Integers, FiniteSets, FiniteSetsExt

CONSTANTS
    Cumulative,     \* series exported with cumulative temporality
    Delta,          \* series exported with delta temporality
    Gains,          \* bytes a series may ingest between two exports
    Lookback,       \* minutes read before the window (6 hours)
    LateWindow,     \* minutes a refresh always recomputes (2 hours)
    MaxBack,        \* minutes back a resumed refresh reaches (5 days)
    MaxNow,         \* bound on the clock
    MaxExports,     \* bound on the exports
    MaxLate,        \* an exported point lands at most this many minutes late
    MaxGap,         \* longest time between two refreshes
    MaxRepeats,     \* bound on the exports that are retried
    MaxSilence      \* longest time between two samples of one counter

Series == Cumulative \cup Delta
Minutes == 0..MaxNow

ASSUME BoundsAssumption ==
    /\ Cumulative \cap Delta = {}
    /\ Gains \subseteq Nat
    /\ {Lookback, LateWindow, MaxBack, MaxNow, MaxExports} \subseteq Nat
    /\ {MaxLate, MaxGap, MaxRepeats, MaxSilence} \subseteq Nat

VARIABLES
    now,            \* the server's clock
    counter,        \* counter[s]: the running process's counter of series s
    sent,           \* exported points that have not landed
    points,         \* otel_metrics_sum
    usage_minute,   \* the ingested_bytes rows, by minute
    refreshed       \* when the last refresh ran

vars == <<now, counter, sent, points, usage_minute, refreshed>>

\* gain is the bytes ingested since the series' last export: what a sample
\* should count.  The view does not see it.
Points == [series : Series, t : Minutes, started : Minutes,
           v : Nat, gain : Gains, copy : {1, 2}]

Counters == [started : Minutes, v : Nat, at : Minutes \cup {-1}]

\* A row is never negative: a counter that went back is a reset.
TypeOK ==
    /\ now \in Minutes
    /\ counter \in [Series -> Counters]
    /\ sent \subseteq Points
    /\ points \subseteq Points
    /\ DOMAIN usage_minute \subseteq Minutes
    /\ \A m \in DOMAIN usage_minute : usage_minute[m] \in Nat
    /\ refreshed \in Minutes

Init ==
    /\ now = 0
    /\ counter = [s \in Series |-> [started |-> 0, v |-> 0, at |-> -1]]
    /\ sent = {}
    /\ points = {}
    /\ usage_minute = <<>>
    /\ refreshed = 0

-----------------------------------------------------------------------------
\* usage_minute_ingest(from, to).

\* Slip: the read starts where the window does.
ReadOfWindow(from) == {p \in points : p.t >= from /\ p.t < now}

\* The read starts Lookback before the window and ends with the last complete
\* minute.
Read(from) == {p \in points : p.t >= from - Lookback /\ p.t < now}

SamePoint(p, q) == p.series = q.series /\ p.started = q.started /\ p.t = q.t

\* Slip: a point that was exported twice counts twice.
Every(read) == read

\* LIMIT 1 BY the series, StartTimeUnix and TimeUnix.
Distinct(read) == {p \in read : \A q \in read : SamePoint(p, q) => p.copy <= q.copy}

Earlier(read, p) == {q \in read : q.series = p.series /\ q.t < p.t}
Previous(read, p) == CHOOSE q \in Earlier(read, p) : \A r \in Earlier(read, p) : r.t <= q.t

\* Slip: a series with no earlier sample in the read never counts its first.
FirstNeverCounts(p, from) == FALSE

\* A counter that started inside the read counted from zero.
StartedInRead(p, from) == p.started >= from - Lookback

\* Slip: only a later StartTimeUnix is a reset.
IncreaseOfStart(read, p, from) ==
    IF p.series \in Delta THEN p.v
    ELSE IF Earlier(read, p) = {} THEN IF StartedInRead(p, from) THEN p.v ELSE 0
    ELSE LET q == Previous(read, p) IN IF p.started > q.started THEN p.v ELSE p.v - q.v

\* multiIf(delta, no earlier sample, a later start, no lower, reset).
Increase(read, p, from) ==
    IF p.series \in Delta THEN p.v
    ELSE IF Earlier(read, p) = {} THEN IF StartedInRead(p, from) THEN p.v ELSE 0
    ELSE LET q == Previous(read, p) IN
         IF p.started <= q.started /\ p.v >= q.v THEN p.v - q.v ELSE p.v

\* One row per minute of the window that has a sample.
Ingest(from) ==
    LET read == Distinct(Read(from))
        window == {p \in read : p.t >= from}
    IN [m \in {p.t : p \in window} |->
           SumFunction([p \in {q \in window : q.t = m} |-> Increase(read, p, from)])]

-----------------------------------------------------------------------------
\* usage_minute_ingest_recent.

\* max(minute) of no row is the epoch.
LastMinute == IF DOMAIN usage_minute = {} THEN 0 ELSE Max(DOMAIN usage_minute)

WindowStart == Max({now - MaxBack, Min({now - LateWindow, LastMinute})})

-----------------------------------------------------------------------------
Tick ==
    /\ now < MaxNow
    /\ now < refreshed + MaxGap
    /\ \A p \in sent : now < p.t + MaxLate
    /\ now' = now + 1
    /\ UNCHANGED <<counter, sent, points, usage_minute, refreshed>>

Exported == {p \in sent \cup points : p.copy = 1}

\* Series s is exported, having ingested this many bytes since its last export.
\* The first sample of a counter comes within the lookback of its start.
Sample(s, started, v, gain) ==
    /\ Cardinality(Exported) < MaxExports
    /\ counter[s].at < now
    /\ s \in Cumulative => now <= IF counter[s].at < started THEN started + Lookback
                                  ELSE counter[s].at + MaxSilence
    /\ counter' = [counter EXCEPT ![s] = [started |-> started, v |-> v, at |-> now]]
    /\ sent' = sent \cup {[series |-> s, t |-> now, started |-> started,
                           v |-> v, gain |-> gain, copy |-> 1]}
    /\ UNCHANGED <<now, points, usage_minute, refreshed>>

Export(s, gain) ==
    Sample(s, counter[s].started, IF s \in Delta THEN gain ELSE counter[s].v + gain, gain)

\* The process restarted since the last export: its counter started from zero.
\* What a delta series exports does not depend on it.
Restarted(s, started, gain) ==
    /\ s \in Cumulative
    /\ Max({counter[s].started, counter[s].at}) < started
    /\ started <= now
    /\ Sample(s, started, gain, gain)

\* The counter went back to zero under its old StartTimeUnix, and its value, lower
\* than before, shows it.
SetBack(s, gain) ==
    /\ s \in Cumulative
    /\ gain < counter[s].v
    /\ Sample(s, counter[s].started, gain, gain)

\* A point lands, in any order; a retried export lands it twice.
Land(p, copies) ==
    /\ p \in sent
    /\ copies = 2 => Cardinality({q \in points : q.copy = 2}) < MaxRepeats
    /\ sent' = sent \ {p}
    /\ points' = points \cup {[p EXCEPT !.copy = i] : i \in 1..copies}
    /\ UNCHANGED <<now, counter, usage_minute, refreshed>>

\* Rows replace the ones of their minutes.
Replacing(new, old) ==
    [m \in DOMAIN new \cup DOMAIN old |-> IF m \in DOMAIN new THEN new[m] ELSE old[m]]

\* usage_minute_ingest_mv: recomputed rows replace the ones they meet.  It is
\* scheduled, so it refreshes once in a unit of time at most.
Refresh ==
    /\ refreshed < now
    /\ usage_minute' = Replacing(Ingest(WindowStart), usage_minute)
    /\ refreshed' = now
    /\ UNCHANGED <<now, counter, sent, points>>

Next ==
    \/ Tick
    \/ \E s \in Series, gain \in Gains : Export(s, gain)
    \/ \E s \in Series, started \in Minutes, gain \in Gains : Restarted(s, started, gain)
    \/ \E s \in Series, gain \in Gains : SetBack(s, gain)
    \/ \E p \in sent, copies \in {1, 2} : Land(p, copies)
    \/ Refresh

Spec == Init /\ [][Next]_vars

-----------------------------------------------------------------------------
(***************************************************************************)
(* Properties.                                                             *)
(***************************************************************************)

Bytes(ps) == SumFunction([p \in ps |-> p.gain])
Landed(m) == {p \in points : p.copy = 1 /\ p.t = m}
Row(m) == IF m \in DOMAIN usage_minute THEN usage_minute[m] ELSE 0

\* "The read starts six hours before the window, so a series' first sample
\* inside the window has the one before it": a minute that the next refresh will
\* not recompute holds the bytes of its samples, late, repeated or restarted.
FinalRowsExact == \A m \in Minutes : m < WindowStart => Row(m) = Bytes(Landed(m))

\* A deployment is licensed on these rows: however samples arrive, all of them
\* together never hold more bytes than were ingested.
NeverOvercounts == SumFunction([m \in Minutes |-> Row(m)]) <= Bytes(Exported)

\* Every sample up to the minute has landed.
Settled(m) == \A p \in sent : m < p.t

\* usage_minute.yaml: "a refresh that sees more of a minute than the last one
\* replaces its row", and no recompute may replace a complete row with a short
\* one: once every sample up to a minute landed, a row that is right stays right.
RightStaysRight ==
    [][\A m \in Minutes :
          Settled(m) /\ Row(m) = Bytes(Landed(m)) => Row(m)' = Row(m)]_vars

RowsBefore(m) == SumFunctionOnSet([n \in Minutes |-> Row(n)], 0..(m - 1))

\* A sample that lands late takes bytes from the row of the sample after it.  They
\* only move to an earlier row: of what the rows before a minute hold together, no
\* recompute takes any back.
NeverTakenBack ==
    [][\A m \in 0..(MaxNow + 1) : RowsBefore(m) <= RowsBefore(m)']_vars

-----------------------------------------------------------------------------
(***************************************************************************)
(* The inductive invariant.                                                *)
(***************************************************************************)

\* A series is sampled within the lookback.
Heard == MaxSilence <= Lookback

\* Every sample lands while a later refresh still recomputes its minute: however
\* long a stall, the window starts at the last minute that has a row, so only
\* samples late by more than a minute need the late window.
InTime ==
    /\ MaxLate + MaxGap <= MaxBack
    /\ MaxLate <= 1 \/ MaxLate + MaxGap <= LateWindow

ClockInv ==
    /\ refreshed <= now /\ now <= refreshed + MaxGap
    /\ \A p \in sent : now <= p.t + MaxLate
    /\ \A p \in Exported : p.started <= p.t /\ p.t <= now

\* A sample is the one of its series at its time, and a copy comes with the first.
SampleInv ==
    /\ IsFiniteSet(sent) /\ IsFiniteSet(points)
    /\ \A p \in sent : p.copy = 1
    /\ \A p \in points : [p EXCEPT !.copy = 1] \in points
    /\ \A p, q \in Exported : p.series = q.series /\ p.t = q.t => p = q

\* A counter is what its last sample says.
CounterInv ==
    \A s \in Series :
        /\ counter[s].started <= now /\ counter[s].at <= now
        /\ \A p \in Exported : p.series = s => p.t <= counter[s].at
        /\ IF counter[s].at = -1 THEN counter[s].v = 0
           ELSE \E p \in Exported :
                   /\ p.series = s /\ p.t = counter[s].at
                   /\ p.started = counter[s].started /\ p.v = counter[s].v

\* The increase of a cumulative sample over another.
Over(q, p) == IF p.started <= q.started /\ p.v >= q.v THEN p.v - q.v ELSE p.v

\* The samples of p's series after a time, up to p.
After(t, p) == {e \in Exported : e.series = p.series /\ t < e.t /\ e.t <= p.t}

\* Over the sample before it, a sample increases by its gain; one that counts
\* from the start of its counter has that start within the lookback.
GainInv ==
    \A p \in Exported :
        /\ p.series \in Delta => p.v = p.gain
        /\ p.series \in Cumulative =>
              /\ \A q \in Exported :
                    q.series = p.series /\ q.t < p.t /\ After(q.t, p) = {p} =>
                        Over(q, p) = p.gain
              /\ \/ p.v = p.gain /\ p.t <= p.started + Lookback
                 \/ \E q \in Exported :
                       q.series = p.series /\ q.t < p.t /\ p.t <= q.t + MaxSilence

\* Over any sample before it, or from the start of its counter, it increases by
\* no more than the gains in between.
SpanInv ==
    \A p \in Exported :
        p.series \in Cumulative =>
            /\ p.v <= Bytes(After(p.started - 1, p))
            /\ \A q \in Exported :
                  q.series = p.series /\ q.t < p.t => Over(q, p) <= Bytes(After(q.t, p))

\* Only a minute with samples, at the last refresh, has a row.
RowInv == \A m \in DOMAIN usage_minute : m < refreshed /\ Landed(m) # {}

\* A minute whose samples all landed by the last refresh is right.
ExactInv ==
    Heard /\ InTime =>
        \A m \in Minutes : m < refreshed - MaxLate => Row(m) = Bytes(Landed(m))

\* The samples before a minute, each up to the last of its series that landed.
Covered(m) ==
    {e \in Exported : \E p \in points : p.series = e.series /\ e.t <= p.t /\ p.t < m}

\* The rows before a minute hold no more bytes than the samples they cover.
PrefixInv == \A m \in 0..(MaxNow + 1) : RowsBefore(m) <= Bytes(Covered(m))

\* A counter never starts before the one it replaces.
StartInv ==
    \A p, q \in Exported : p.series = q.series /\ q.t < p.t => q.started <= p.started

\* What a read of all that landed counts before a minute.
Arrived == {p \in points : p.copy = 1}
Counted(read, m) == SumFunction([p \in {q \in read : q.t < m} |-> Increase(read, p, 0)])
Due(m) == Counted(Arrived, m)

\* The rows before a minute hold no more than that.
DueInv == Heard /\ InTime => \A m \in 0..(MaxNow + 1) : RowsBefore(m) <= Due(m)

IInv == /\ TypeOK /\ ClockInv /\ SampleInv /\ CounterInv /\ GainInv /\ SpanInv
        /\ RowInv /\ ExactInv /\ PrefixInv /\ StartInv /\ DueInv
=============================================================================
