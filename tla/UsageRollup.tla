---------------------------- MODULE UsageRollup ----------------------------
(***************************************************************************)
(* The usage rollup: three refreshable materialised views append recent    *)
(* minutes to usage_minute, and a fourth rolls its days up into            *)
(* usage_daily (views/usage_*_recent.sql, views/usage_daily_rollup.sql,    *)
(* tables/usage/usage_minute.yaml and usage_daily.yaml).                   *)
(*                                                                         *)
(* A refresh reads its sources when it starts, stamps the rows it computes *)
(* with that moment (computed_at DEFAULT now64(3)) and inserts them when   *)
(* it ends.  In between time passes, readings land, and the other views    *)
(* refresh.  One view has at most one refresh under way.  A refresh may    *)
(* fail, and a view may stall for any time MaxGap allows.                  *)
(*                                                                         *)
(* Data.  The value of a minute is the number of its readings that the     *)
(* refresh saw, and usage_daily keeps what each minute added to its day's  *)
(* row; whether a metric sums or takes the highest minute is left out.     *)
(* How a minute's readings become bytes is IngestCounter's subject.        *)
(* ReplacingMergeTree keeps the latest computation of a row.  The          *)
(* superseded ones a read without FINAL may still meet change neither      *)
(* max(minute) nor the oldest rewritten minute, so only the latest is kept.*)
(***************************************************************************)
EXTENDS Integers

CONSTANTS
    Views,          \* the minute views: cores, ingest, events
    DayLen,         \* minutes in a UTC day
    LateWindow,     \* LateWindow[v]: minutes a refresh always recomputes
    MaxBackDays,    \* days back a resumed refresh reaches (5)
    FixedBackDays,  \* days back the daily view always recomputes (2)
    Overlap,        \* minutes of overlap with the last daily write (10)
    RetentionDays,  \* ttl_days of usage_minute (7)
    MaxNow,         \* bound on the clock
    Active,         \* bound: the minutes whose readings are followed
    MaxReadings,    \* bound on the readings of one minute
    MaxLate,        \* a reading lands at most this many minutes late
    MaxGap,         \* the clock never gets further past the start of a view's
                    \* last successful refresh: the longest stall
    MinuteRun,      \* the longest a minute refresh runs
    DailyRun,       \* the longest a daily refresh runs
    HandDays        \* days an operator may recompute by hand

Minutes == 0..MaxNow
Day(m) == m \div DayLen
Days == 0..Day(MaxNow)

ASSUME ClockAssumption ==
    /\ DayLen \in Nat \ {0}
    /\ MaxNow \in Nat
    /\ Active \subseteq Nat
    /\ LateWindow \in [Views -> Nat]
    /\ {MaxBackDays, FixedBackDays, Overlap, RetentionDays} \subseteq Nat
    /\ {MaxReadings, MaxLate, MaxGap, MinuteRun, DailyRun} \subseteq Nat
    /\ HandDays \subseteq Nat

\* usage_minute keeps a day until no refresh can reach it any more.
ASSUME RetentionAssumption == MaxBackDays < RetentionDays

VARIABLES
    now,            \* the server's clock, in minutes
    source,         \* source[v][m]: readings of minute m that have landed
    usage_minute,   \* usage_minute[v][m]: the row of minute m, value 0 if none
    refresh,        \* refresh[v]: the running refresh of minute view v
    last_started,   \* last_started[v]: start of v's last successful refresh
    usage_daily,    \* usage_daily[v][m]: what m adds to the row of its day
    daily_at,       \* daily_at[v][d]: computed_at of day d's row, 0 if none
    daily           \* the running refresh of usage_daily_mv

vars == <<now, source, usage_minute, refresh, last_started,
          usage_daily, daily_at, daily>>

NoRow == [value |-> 0, computed_at |-> 0]
NoCounts == [m \in Minutes |-> 0]
NoRefresh == [running |-> FALSE, started |-> 0, window |-> {}, seen |-> NoCounts]
NoDaily == [running |-> FALSE, started |-> 0, window |-> {},
            seen |-> [v \in Views |-> NoCounts]]

TypeOK ==
    /\ now \in Minutes
    /\ source \in [Views -> [Minutes -> Nat]]
    /\ usage_minute \in [Views -> [Minutes -> [value : Nat, computed_at : Minutes]]]
    /\ refresh \in [Views -> [running : BOOLEAN, started : Minutes,
                              window : SUBSET Minutes, seen : [Minutes -> Nat]]]
    /\ last_started \in [Views -> Minutes]
    /\ usage_daily \in [Views -> [Minutes -> Nat]]
    /\ daily_at \in [Views -> [Days -> Minutes]]
    /\ daily \in [running : BOOLEAN, started : Minutes, window : SUBSET Days,
                  seen : [Views -> [Minutes -> Nat]]]

Init ==
    /\ now = 0
    /\ source = [v \in Views |-> NoCounts]
    /\ usage_minute = [v \in Views |-> [m \in Minutes |-> NoRow]]
    /\ refresh = [v \in Views |-> NoRefresh]
    /\ last_started = [v \in Views |-> 0]
    /\ usage_daily = [v \in Views |-> NoCounts]
    /\ daily_at = [v \in Views |-> [d \in Days |-> 0]]
    /\ daily = NoDaily

-----------------------------------------------------------------------------
\* The recompute windows.

HasRow(v, m) == usage_minute[v][m].value > 0

\* Slip: usage_minute kept only as long as a refresh reaches back.
ExpiredAtReach(m) == m + MaxBackDays * DayLen <= now
Expired(m) == m + RetentionDays * DayLen <= now

\* The furthest back a refresh that stalled for long resumes from.
InReach(m) == m >= now - MaxBackDays * DayLen

\* Slip: max(minute) over every metric of usage_minute.
AfterAnyLastWritten(v, m) == \A u \in Views, w \in Minutes : HasRow(u, w) => m >= w

\* No minute of v written so far is later than m (none at all reads as 1970).
AtOrAfterLastWritten(v, m) == \A w \in Minutes : HasRow(v, w) => m >= w

\* Slip: a fixed window, which does not resume from the last minute.
InFixedWindow(v, m) == m < now /\ InReach(m) /\ m >= now - LateWindow[v]

\* from <= m < to of usage_minute_*_recent:
\* greatest(now - 5 DAY, least(now - LateWindow, max(minute))) and now.
InMinuteWindow(v, m) ==
    /\ m < now
    /\ InReach(m)
    /\ \/ m >= now - LateWindow[v]
       \/ AtOrAfterLastWritten(v, m)

MinuteWindow(v) == {m \in Minutes : InMinuteWindow(v, m)}

\* Slip: no overlap with the last daily write.
SinceLastDailyExactly(v, m) ==
    /\ HasRow(v, m)
    /\ \A u \in Views, d \in Days : usage_minute[v][m].computed_at > daily_at[u][d]

\* A minute row computed after max(computed_at) of usage_daily, less Overlap.
SinceLastDaily(v, m) ==
    /\ HasRow(v, m)
    /\ \A u \in Views, d \in Days :
          usage_minute[v][m].computed_at > daily_at[u][d] - Overlap

\* A minute row the daily refresh reads its window from.
Rewritten(v, m) ==
    /\ Day(m) >= Day(now) - MaxBackDays
    /\ SinceLastDaily(v, m)

\* Slip: the furthest day back left out.
InDailyWindowAboveFloor(d) ==
    /\ d > Day(now) - MaxBackDays
    /\ d <= Day(now)
    /\ \/ d >= Day(now) - FixedBackDays
       \/ \E v \in Views, m \in Minutes : Rewritten(v, m) /\ Day(m) <= d

\* from <= d < to of usage_daily_recent: greatest(today - 5,
\* least(today - 2, the oldest rewritten minute's day)) and today + 1.
InDailyWindow(d) ==
    /\ d >= Day(now) - MaxBackDays
    /\ d <= Day(now)
    /\ \/ d >= Day(now) - FixedBackDays
       \/ \E v \in Views, m \in Minutes : Rewritten(v, m) /\ Day(m) <= d

DailyWindow == {d \in Days : InDailyWindow(d)}

-----------------------------------------------------------------------------
\* The clock, the sources, and retention.

\* Time passes, within the bounds on a refresh's run time and a view's stall.
Tick ==
    /\ now < MaxNow
    /\ \A v \in Views :
          /\ now < last_started[v] + MaxGap
          /\ refresh[v].running => now < refresh[v].started + MinuteRun
    /\ daily.running => now < daily.started + DailyRun
    /\ now' = now + 1
    /\ UNCHANGED <<source, usage_minute, refresh, last_started,
                   usage_daily, daily_at, daily>>

\* A reading of minute m lands in v's source, in its minute or late.
Land(v, m) ==
    /\ m <= now
    /\ now <= m + MaxLate
    /\ m \in Active
    /\ source[v][m] < MaxReadings
    /\ source' = [source EXCEPT ![v][m] = @ + 1]
    /\ UNCHANGED <<now, usage_minute, refresh, last_started,
                   usage_daily, daily_at, daily>>

\* TTL: a part of one day's partition drops once all its rows have expired.
Expire(v, part) ==
    /\ part # {}
    /\ \E d \in Days : \A m \in part : Day(m) = d
    /\ \A m \in part : HasRow(v, m) /\ Expired(m)
    /\ usage_minute' = [usage_minute EXCEPT ![v] =
           [m \in Minutes |-> IF m \in part THEN NoRow ELSE @[m]]]
    /\ UNCHANGED <<now, source, refresh, last_started,
                   usage_daily, daily_at, daily>>

-----------------------------------------------------------------------------
\* usage_minute_cores_mv, usage_minute_ingest_mv, usage_minute_events_mv:
\* REFRESH EVERY 5 MINUTE APPEND.

StartMinute(v) ==
    /\ ~refresh[v].running
    /\ LET window == MinuteWindow(v) IN
       refresh' = [refresh EXCEPT ![v] =
           [running |-> TRUE, started |-> now, window |-> window,
            seen |-> [m \in Minutes |->
                        IF m \in window THEN source[v][m] ELSE 0]]]
    /\ UNCHANGED <<now, source, usage_minute, last_started,
                   usage_daily, daily_at, daily>>

\* The rows land together; a minute with no reading yields no row.
CommitMinute(v) ==
    /\ refresh[v].running
    /\ usage_minute' = [usage_minute EXCEPT ![v] =
           [m \in Minutes |->
              IF m \in refresh[v].window /\ refresh[v].seen[m] > 0
                THEN [value |-> refresh[v].seen[m],
                      computed_at |-> refresh[v].started]
                ELSE @[m]]]
    /\ last_started' = [last_started EXCEPT ![v] = refresh[v].started]
    /\ refresh' = [refresh EXCEPT ![v] = NoRefresh]
    /\ UNCHANGED <<now, source, usage_daily, daily_at, daily>>

\* A failed refresh inserts nothing; each view fails alone.
FailMinute(v) ==
    /\ refresh[v].running
    /\ refresh' = [refresh EXCEPT ![v] = NoRefresh]
    /\ UNCHANGED <<now, source, usage_minute, last_started,
                   usage_daily, daily_at, daily>>

-----------------------------------------------------------------------------
\* usage_daily_mv: REFRESH EVERY 5 MINUTE OFFSET 1 MINUTE APPEND.

\* The rows usage_daily_rollup yields for these counts: a day with no minute
\* row yields none.
YieldsRow(counts, v, d) == \E m \in Minutes : Day(m) = d /\ counts[v][m] > 0

\* Slip: the last insert wins, whatever its computed_at.
ReplacesUnversioned(days, counts, at, v, d) == d \in days /\ YieldsRow(counts, v, d)

\* A row computed later than the one it meets replaces it, whole.
Replaces(days, counts, at, v, d) ==
    /\ d \in days
    /\ YieldsRow(counts, v, d)
    /\ daily_at[v][d] <= at

InsertDaily(days, counts, at) ==
    /\ usage_daily' = [v \in Views |-> [m \in Minutes |->
           IF Replaces(days, counts, at, v, Day(m))
             THEN counts[v][m] ELSE usage_daily[v][m]]]
    /\ daily_at' = [v \in Views |-> [d \in Days |->
           IF Replaces(days, counts, at, v, d) THEN at ELSE daily_at[v][d]]]

\* usage_daily_rollup(from, to): usage_minute FINAL over these days.
MinutesOf(days) == [v \in Views |-> [m \in Minutes |->
    IF Day(m) \in days THEN usage_minute[v][m].value ELSE 0]]

StartDaily ==
    /\ ~daily.running
    /\ LET window == DailyWindow IN
       daily' = [running |-> TRUE, started |-> now, window |-> window,
                 seen |-> MinutesOf(window)]
    /\ UNCHANGED <<now, source, usage_minute, refresh, last_started,
                   usage_daily, daily_at>>

CommitDaily ==
    /\ daily.running
    /\ InsertDaily(daily.window, daily.seen, daily.started)
    /\ daily' = NoDaily
    /\ UNCHANGED <<now, source, usage_minute, refresh, last_started>>

FailDaily ==
    /\ daily.running
    /\ daily' = NoDaily
    /\ UNCHANGED <<now, source, usage_minute, refresh, last_started,
                   usage_daily, daily_at>>

\* "Room to recompute a missed day by hand": an operator inserts one kept day.
\* computed_at has milliseconds, so no two inserts of a day share one.
HandRecompute(d) ==
    /\ d \in HandDays
    /\ d <= Day(now)
    /\ Day(now) < d + RetentionDays
    /\ daily.running => daily.started < now
    /\ InsertDaily({d}, MinutesOf({d}), now)
    /\ UNCHANGED <<now, source, usage_minute, refresh, last_started, daily>>

-----------------------------------------------------------------------------
Next ==
    \/ Tick
    \/ \E v \in Views, m \in Minutes : Land(v, m)
    \/ \E v \in Views, part \in SUBSET {m \in Minutes : Expired(m)} : Expire(v, part)
    \/ \E v \in Views : StartMinute(v)
    \/ \E v \in Views : CommitMinute(v)
    \/ \E v \in Views : FailMinute(v)
    \/ StartDaily
    \/ CommitDaily
    \/ FailDaily
    \/ \E d \in Days : HandRecompute(d)

Spec == Init /\ [][Next]_vars

\* The views in Up keep being scheduled, and not every one of their refreshes
\* fails; the others may stop for good.  Time passes.
Fairness(Up) ==
    /\ SF_vars(Tick)
    /\ \A v \in Up : WF_vars(StartMinute(v)) /\ SF_vars(CommitMinute(v))
    /\ WF_vars(StartDaily) /\ SF_vars(CommitDaily)

-----------------------------------------------------------------------------
(***************************************************************************)
(* Properties.                                                             *)
(***************************************************************************)

\* Readings land no later than the window forgives: on time, or early enough
\* that a refresh starts while the window still holds their minute.
Timely == \A v \in Views : MaxLate = 0 \/ MaxLate + MaxGap <= LateWindow[v]

\* A minute refresh ends before its computed_at falls out of the overlap, and
\* nothing but usage_daily_mv writes usage_daily.
OverlapCovers == MinuteRun < Overlap /\ HandDays = {}

\* "A late reading lands in a minute that is still in the window, so the next
\* refresh replaces that minute's row" and "a refresh that failed for longer
\* resumes from its last minute" (usage_minute_cores_recent.sql): a minute that
\* the next refresh will not read again, and could reach, has been counted whole.
NothingLeftBehind ==
    \A v \in Views, m \in Minutes :
        m < now /\ InReach(m) /\ ~InMinuteWindow(v, m) =>
            usage_minute[v][m].value = source[v][m]

\* usage_daily.yaml: usage_daily_mv recomputes "any older day a minute rollup
\* rewrote since": whatever order refreshes start and end in, a minute row its
\* day does not count yet is in the window of the next daily refresh.
NothingStranded ==
    \A v \in Views, m \in Minutes :
        /\ Day(m) >= Day(now) - MaxBackDays
        /\ usage_minute[v][m].value > usage_daily[v][m]
        => InDailyWindow(Day(m))

\* A write of usage_daily made while the day of m was in its reach.
CouldHaveRead(at, m) == Day(at) <= Day(m) + MaxBackDays

\* The floor of the daily window moves a whole day at UTC midnight, so a row
\* written just before it may belong to a day that no daily refresh reads again:
\* within the window's reach or past it, the only rows a day may lack are those
\* computed too late for the overlap of the last daily write that could read it.
MissesOnlyTheLatest ==
    \A v \in Views, m \in Minutes :
        usage_minute[v][m].value > usage_daily[v][m] =>
            \A u \in Views, d \in Days : CouldHaveRead(daily_at[u][d], m) =>
                usage_minute[v][m].computed_at > daily_at[u][d] - Overlap

\* usage_minute.yaml: no recompute "replaces a complete row with a short one",
\* and no row counts what never landed, through every refresh, expiry and
\* recompute by hand: the tables implement the ledger.
Ledger == INSTANCE UsageLedger WITH readings <- source, published <- usage_daily
ImplementsLedger == Ledger!LedgerSpec

\* usage_minute.yaml: "Each source has its own view, so one that fails does not
\* hold the others back": the views in Up end with every minute still in reach
\* published in usage_daily, whatever the other views do.
Published(v) ==
    \A m \in Minutes : m < now /\ InReach(m) => usage_daily[v][m] = source[v][m]
Converges(Up) == \A v \in Up : <>[]Published(v)

-----------------------------------------------------------------------------
(***************************************************************************)
(* The inductive invariant: what the properties above rest on.             *)
(***************************************************************************)

\* Refreshes are dated in order, and nothing is dated in the future.
DatesInv ==
    /\ \A v \in Views :
          /\ last_started[v] <= now
          /\ now <= last_started[v] + MaxGap
          /\ refresh[v].running =>
                /\ last_started[v] <= refresh[v].started
                /\ refresh[v].started <= now
                /\ now <= refresh[v].started + MinuteRun
                /\ \A m \in refresh[v].window : m < refresh[v].started
    /\ \A v \in Views, d \in Days : daily_at[v][d] <= now
    /\ daily.running => daily.started <= now

\* A row counts readings that landed, no refresh under way will lower it, and
\* only minutes complete before the last refresh have one.
RowsInv ==
    \A v \in Views, m \in Minutes :
        /\ usage_minute[v][m].value <= source[v][m]
        /\ HasRow(v, m) => m < last_started[v]
        /\ refresh[v].running =>
              /\ refresh[v].seen[m] <= source[v][m]
              /\ m \in refresh[v].window =>
                    usage_minute[v][m].value <= refresh[v].seen[m]

\* A reading not counted yet landed after the last refresh started, so its
\* minute is at most MaxLate before that; likewise for the refresh under way.
CountedInv ==
    \A v \in Views, m \in Minutes : InReach(m) =>
        /\ usage_minute[v][m].value < source[v][m] =>
              m >= last_started[v] - MaxLate
        /\ refresh[v].running =>
              /\ m \in refresh[v].window /\ refresh[v].seen[m] < source[v][m] =>
                    m >= refresh[v].started - MaxLate
              /\ m \notin refresh[v].window /\ usage_minute[v][m].value < source[v][m] =>
                    m >= refresh[v].started - MaxLate

\* A published day counts what landed, the rows it came from hold as much
\* until they expire, and no daily refresh under way will lower it.
DailyInv ==
    \A v \in Views, m \in Minutes :
        /\ usage_daily[v][m] <= source[v][m]
        /\ ~Expired(m) => usage_daily[v][m] <= usage_minute[v][m].value
        /\ daily.running =>
              /\ daily.seen[v][m] <= source[v][m]
              /\ Day(m) \in daily.window =>
                    /\ ~Expired(m) => daily.seen[v][m] <= usage_minute[v][m].value
                    /\ daily_at[v][Day(m)] <= daily.started =>
                          usage_daily[v][m] <= daily.seen[v][m]

\* A row its day does not count yet was computed within Overlap of the last
\* daily write that could read it, and of the daily refresh under way, if that
\* could read it and did not.
RolledInv ==
    /\ daily.running => \A v \in Views, d \in Days : daily_at[v][d] <= daily.started
    /\ MissesOnlyTheLatest
    /\ daily.running =>
          \A v \in Views, m \in Minutes : CouldHaveRead(daily.started, m) =>
              /\ Day(m) \in daily.window /\ usage_minute[v][m].value > daily.seen[v][m] =>
                    usage_minute[v][m].computed_at > daily.started - Overlap
              /\ Day(m) \notin daily.window /\ usage_minute[v][m].value > usage_daily[v][m] =>
                    usage_minute[v][m].computed_at > daily.started - Overlap

IInv ==
    /\ TypeOK /\ DatesInv /\ RowsInv /\ DailyInv
    /\ Timely => CountedInv
    /\ OverlapCovers => RolledInv
=============================================================================
