------------------------- MODULE UsageRollup_proofs -------------------------
(***************************************************************************)
(* Proofs about UsageRollup, for every number of views and minutes, every  *)
(* window, retention, run time and stall that the assumptions allow.       *)
(***************************************************************************)
EXTENDS UsageRollup, TLAPS

-----------------------------------------------------------------------------
(***************************************************************************)
(* Days.                                                                   *)
(***************************************************************************)

\* The day of a minute, as quotient and remainder.
LEMMA DayOf ==
    ASSUME NEW m \in Nat
    PROVE  /\ Day(m) \in Nat
           /\ DayLen * Day(m) <= m
           /\ m < DayLen * (Day(m) + 1)
<1>1. DayLen \in Nat /\ DayLen > 0
  BY ClockAssumption
<1>2. QED
  BY <1>1 DEF Day

\* A minute whose retention has run out is that many days behind the clock.
LEMMA DaysApart ==
    ASSUME NEW m \in Nat, NEW n \in Nat, NEW k \in Nat, m + k * DayLen <= n
    PROVE  Day(m) + k <= Day(n)
<1>1. DayLen \in Nat /\ DayLen > 0
  BY ClockAssumption
<1>2. /\ Day(m) \in Nat /\ DayLen * Day(m) <= m
      /\ Day(n) \in Nat /\ n < DayLen * (Day(n) + 1)
  BY DayOf
<1>3. SUFFICES ASSUME Day(n) + 1 <= Day(m) + k PROVE FALSE
  BY <1>2
<1>4. DayLen * (Day(n) + 1) <= DayLen * (Day(m) + k)
  BY <1>1, <1>2, <1>3
<1>5. DayLen * (Day(m) + k) = DayLen * Day(m) + k * DayLen
  BY <1>1, <1>2
<1>6. QED
  BY <1>1, <1>2, <1>4, <1>5

\* Later minutes are in later days.
LEMMA DayMonotone ==
    ASSUME NEW m \in Nat, NEW n \in Nat, m <= n
    PROVE  Day(m) <= Day(n)
<1>1. m + 0 * DayLen <= n
  BY ClockAssumption
<1>2. Day(m) + 0 <= Day(n)
  BY <1>1, DaysApart
<1>3. QED
  BY <1>2, DayOf

LEMMA DayInDays == ASSUME NEW m \in Minutes PROVE Day(m) \in Days
<1>1. MaxNow \in Nat /\ m \in Nat /\ m <= MaxNow
  BY ClockAssumption DEF Minutes
<1>2. QED
  BY <1>1, DayMonotone, DayOf DEF Days

-----------------------------------------------------------------------------
(***************************************************************************)
(* Types.                                                                  *)
(***************************************************************************)

LEMMA InitType == Init => TypeOK
  BY ClockAssumption DEF Init, TypeOK, NoCounts, NoRow, NoRefresh, NoDaily, Minutes

LEMMA InsertDailyType ==
    ASSUME TypeOK, NEW days, NEW counts \in [Views -> [Minutes -> Nat]],
           NEW at \in Minutes, InsertDaily(days, counts, at)
    PROVE  /\ usage_daily' \in [Views -> [Minutes -> Nat]]
           /\ daily_at' \in [Views -> [Days -> Minutes]]
  BY DEF TypeOK, InsertDaily

Row == [value : Nat, computed_at : Minutes]
Run == [running : BOOLEAN, started : Minutes,
        window : SUBSET Minutes, seen : [Minutes -> Nat]]
DailyRunType == [running : BOOLEAN, started : Minutes, window : SUBSET Days,
                 seen : [Views -> [Minutes -> Nat]]]

LEMMA IdleTypes == NoRow \in Row /\ NoRefresh \in Run /\ NoDaily \in DailyRunType
<1>1. 0 \in Minutes /\ NoCounts \in [Minutes -> Nat]
  BY ClockAssumption DEF NoCounts, Minutes
<1>2. QED
  BY <1>1 DEF NoRow, NoRefresh, NoDaily, Row, Run, DailyRunType

LEMMA MinutesOfType ==
    ASSUME TypeOK, NEW days
    PROVE  MinutesOf(days) \in [Views -> [Minutes -> Nat]]
<1>1. ASSUME NEW v \in Views, NEW m \in Minutes
      PROVE  usage_minute[v][m].value \in Nat
  <2>1. usage_minute[v] \in [Minutes -> Row]
    BY DEF TypeOK, Row
  <2>2. usage_minute[v][m] \in Row
    BY <2>1
  <2>3. QED
    BY <2>2 DEF Row
<1>2. QED
  BY <1>1 DEF MinutesOf

LEMMA StepType == TypeOK /\ [Next]_vars => TypeOK'
<1> SUFFICES ASSUME TypeOK, [Next]_vars PROVE TypeOK'
  OBVIOUS
<1>1. CASE Tick
  <2>1. now' \in Minutes
    BY <1>1, ClockAssumption DEF Tick, TypeOK, Minutes
  <2>2. QED
    BY <1>1, <2>1 DEF Tick, TypeOK
<1>2. ASSUME NEW v \in Views, NEW m \in Minutes, Land(v, m) PROVE TypeOK'
  <2>1. source[v] \in [Minutes -> Nat]
    BY DEF TypeOK
  <2>2. [source[v] EXCEPT ![m] = @ + 1] \in [Minutes -> Nat]
    <3>1. source[v][m] \in Nat
      BY <2>1
    <3>2. source[v][m] + 1 \in Nat
      BY <3>1
    <3>3. QED
      BY <2>1, <3>2
  <2>3. source' = [source EXCEPT ![v] = [source[v] EXCEPT ![m] = @ + 1]]
    BY <1>2 DEF Land
  <2>4. source' \in [Views -> [Minutes -> Nat]]
    BY <2>2, <2>3 DEF TypeOK
  <2>5. QED
    BY <1>2, <2>4 DEF Land, TypeOK
<1>3. ASSUME NEW v \in Views, NEW part, Expire(v, part) PROVE TypeOK'
  <2>1. usage_minute[v] \in [Minutes -> Row]
    BY DEF TypeOK, Row
  <2>2. [m \in Minutes |-> IF m \in part THEN NoRow ELSE usage_minute[v][m]]
            \in [Minutes -> Row]
    BY <2>1, IdleTypes
  <2>3. usage_minute' \in [Views -> [Minutes -> Row]]
    BY <1>3, <2>2 DEF Expire, TypeOK, Row
  <2>4. QED
    BY <1>3, <2>3 DEF Expire, TypeOK, Row
<1>4. ASSUME NEW v \in Views, StartMinute(v) PROVE TypeOK'
  <2> DEFINE window == MinuteWindow(v)
             run == [running |-> TRUE, started |-> now, window |-> window,
                     seen |-> [m \in Minutes |->
                        IF m \in window THEN source[v][m] ELSE 0]]
  <2>0. source[v] \in [Minutes -> Nat] /\ window \in SUBSET Minutes /\ now \in Minutes
    BY DEF TypeOK, MinuteWindow
  <2> HIDE DEF window
  <2>1. run \in Run
    BY <2>0 DEF Run
  <2>2. refresh' = [refresh EXCEPT ![v] = run]
    BY <1>4 DEF StartMinute, window
  <2> HIDE DEF run
  <2>4. refresh' \in [Views -> Run]
    BY <2>1, <2>2 DEF TypeOK, Run
  <2>3. QED
    BY <1>4, <2>4 DEF StartMinute, TypeOK, Run
<1>6. ASSUME NEW v \in Views, CommitMinute(v) PROVE TypeOK'
  <2>1. refresh[v] \in Run /\ usage_minute[v] \in [Minutes -> Row]
    BY DEF TypeOK, Run, Row
  <2>2. refresh[v].started \in Minutes /\ refresh[v].seen \in [Minutes -> Nat]
    BY <2>1 DEF Run
  <2>3. [m \in Minutes |->
              IF m \in refresh[v].window /\ refresh[v].seen[m] > 0
                THEN [value |-> refresh[v].seen[m],
                      computed_at |-> refresh[v].started]
                ELSE usage_minute[v][m]] \in [Minutes -> Row]
    BY <2>1, <2>2 DEF Row
  <2>4. usage_minute' \in [Views -> [Minutes -> Row]]
    BY <1>6, <2>3 DEF CommitMinute, TypeOK, Row
  <2>5. last_started' \in [Views -> Minutes] /\ refresh' \in [Views -> Run]
    BY <1>6, <2>2, IdleTypes DEF CommitMinute, TypeOK, Run
  <2>6. QED
    BY <1>6, <2>4, <2>5 DEF CommitMinute, TypeOK, Row, Run
<1>7. ASSUME NEW v \in Views, FailMinute(v) PROVE TypeOK'
  <2>1. refresh' \in [Views -> Run]
    BY <1>7, IdleTypes DEF FailMinute, TypeOK, Run
  <2>2. QED
    BY <1>7, <2>1 DEF FailMinute, TypeOK, Run
<1>9. CASE StartDaily
  <2>1. MinutesOf(DailyWindow) \in [Views -> [Minutes -> Nat]]
    BY MinutesOfType
  <2>2. daily' \in DailyRunType
    BY <1>9, <2>1 DEF StartDaily, DailyWindow, TypeOK, DailyRunType
  <2>3. QED
    BY <1>9, <2>2 DEF StartDaily, TypeOK, DailyRunType
<1>11. CASE CommitDaily
  <2>1. daily.seen \in [Views -> [Minutes -> Nat]] /\ daily.started \in Minutes
    BY DEF TypeOK
  <2>2. /\ usage_daily' \in [Views -> [Minutes -> Nat]]
        /\ daily_at' \in [Views -> [Days -> Minutes]]
    BY <1>11, <2>1, InsertDailyType DEF CommitDaily
  <2>3. daily' \in DailyRunType
    BY <1>11, IdleTypes DEF CommitDaily
  <2>4. QED
    BY <1>11, <2>2, <2>3 DEF CommitDaily, TypeOK, DailyRunType
<1>12. CASE FailDaily
  <2>1. daily' \in DailyRunType
    BY <1>12, IdleTypes DEF FailDaily
  <2>2. QED
    BY <1>12, <2>1 DEF FailDaily, TypeOK, DailyRunType
<1>13. ASSUME NEW d \in Days, HandRecompute(d) PROVE TypeOK'
  <2>1. now \in Minutes
    BY DEF TypeOK
  <2>2. MinutesOf({d}) \in [Views -> [Minutes -> Nat]]
    BY MinutesOfType
  <2>3. /\ usage_daily' \in [Views -> [Minutes -> Nat]]
        /\ daily_at' \in [Views -> [Days -> Minutes]]
    BY <1>13, <2>1, <2>2, InsertDailyType DEF HandRecompute
  <2>4. QED
    BY <1>13, <2>3 DEF HandRecompute, TypeOK
<1>14. CASE UNCHANGED vars
  BY <1>14 DEF vars, TypeOK
<1>15. QED
  BY <1>1, <1>2, <1>3, <1>4, <1>6, <1>7, <1>9, <1>11, <1>12, <1>13, <1>14 DEF Next

\* Every variable keeps its type.
THEOREM TypeCorrect == Spec => []TypeOK
  BY InitType, StepType, PTL DEF Spec

-----------------------------------------------------------------------------
(***************************************************************************)
(* The variables and the actions, point by point.                          *)
(***************************************************************************)

LEMMA Bounds ==
    /\ MaxBackDays \in Nat /\ FixedBackDays \in Nat /\ Overlap \in Nat
    /\ RetentionDays \in Nat /\ MaxLate \in Nat /\ MaxGap \in Nat
    /\ MinuteRun \in Nat /\ DailyRun \in Nat /\ DayLen \in Nat /\ DayLen > 0
    /\ \A v \in Views : LateWindow[v] \in Nat
  BY ClockAssumption

LEMMA Reaches ==
    /\ MaxBackDays * DayLen \in Nat /\ RetentionDays * DayLen \in Nat
    /\ MaxBackDays * DayLen <= RetentionDays * DayLen
  BY Bounds, RetentionAssumption

LEMMA Typed ==
    ASSUME TypeOK, NEW v \in Views, NEW m \in Minutes
    PROVE  /\ m \in Nat /\ now \in Nat
           /\ source[v][m] \in Nat
           /\ usage_minute[v][m].value \in Nat
           /\ usage_minute[v][m].computed_at \in Nat
           /\ last_started[v] \in Nat
           /\ refresh[v].running \in BOOLEAN /\ refresh[v].started \in Nat
           /\ refresh[v].window \in SUBSET Minutes /\ refresh[v].seen[m] \in Nat
           /\ usage_daily[v][m] \in Nat
           /\ daily.running \in BOOLEAN /\ daily.started \in Nat
           /\ daily.window \in SUBSET Days /\ daily.seen[v][m] \in Nat
           /\ Day(m) \in Days /\ Day(m) \in Nat /\ Day(now) \in Nat
<1>1. \A n \in Minutes : n \in Nat
  BY ClockAssumption DEF Minutes
<1>2. usage_minute[v][m] \in Row /\ refresh[v] \in Run /\ daily \in DailyRunType
  BY DEF TypeOK, Row, Run, DailyRunType
<1>3. /\ usage_minute[v][m].value \in Nat
      /\ usage_minute[v][m].computed_at \in Nat
  BY <1>1, <1>2 DEF Row
<1>4. /\ refresh[v].running \in BOOLEAN /\ refresh[v].started \in Nat
      /\ refresh[v].window \in SUBSET Minutes /\ refresh[v].seen[m] \in Nat
  BY <1>1, <1>2 DEF Run
<1>5. /\ daily.running \in BOOLEAN /\ daily.started \in Nat
      /\ daily.window \in SUBSET Days /\ daily.seen[v][m] \in Nat
  BY <1>1, <1>2 DEF DailyRunType
<1>6. /\ m \in Nat /\ now \in Nat /\ now \in Minutes /\ last_started[v] \in Nat
      /\ source[v] \in [Minutes -> Nat] /\ usage_daily[v] \in [Minutes -> Nat]
  BY <1>1 DEF TypeOK
<1>7. QED
  BY <1>3, <1>4, <1>5, <1>6, DayInDays, DayOf

LEMMA TypedDay ==
    ASSUME TypeOK, NEW v \in Views, NEW d \in Days
    PROVE  daily_at[v][d] \in Nat /\ d \in Nat
<1>1. daily_at[v][d] \in Minutes
  BY DEF TypeOK
<1>2. MaxNow \in Nat /\ Day(MaxNow) \in Nat
  BY ClockAssumption, DayOf
<1>3. QED
  BY <1>1, <1>2 DEF Days, Minutes

LEMMA LandEffect ==
    ASSUME TypeOK, NEW w \in Views, NEW n \in Minutes, Land(w, n)
    PROVE  \A v \in Views, m \in Minutes :
              source'[v][m] = IF v = w /\ m = n THEN source[v][m] + 1 ELSE source[v][m]
<1>1. source[w] \in [Minutes -> Nat]
  BY DEF TypeOK
<1>2. source' = [source EXCEPT ![w] = [source[w] EXCEPT ![n] = source[w][n] + 1]]
  BY DEF Land
<1>3. QED
  BY <1>1, <1>2 DEF TypeOK

LEMMA ExpireEffect ==
    ASSUME TypeOK, NEW w \in Views, NEW part, Expire(w, part)
    PROVE  \A v \in Views, m \in Minutes :
              /\ usage_minute'[v][m] =
                    IF v = w /\ m \in part THEN NoRow ELSE usage_minute[v][m]
              /\ v = w /\ m \in part => Expired(m)
  BY DEF TypeOK, Expire

LEMMA StartMinuteEffect ==
    ASSUME TypeOK, NEW w \in Views, StartMinute(w)
    PROVE  /\ ~refresh[w].running
           /\ refresh'[w].running
           /\ refresh'[w].started = now
           /\ \A m \in Minutes : m \in refresh'[w].window <=> InMinuteWindow(w, m)
           /\ \A m \in Minutes : refresh'[w].seen[m] =
                 IF InMinuteWindow(w, m) THEN source[w][m] ELSE 0
           /\ \A v \in Views : v # w => refresh'[v] = refresh[v]
<1> DEFINE window == MinuteWindow(w)
           run == [running |-> TRUE, started |-> now, window |-> window,
                   seen |-> [m \in Minutes |-> IF m \in window THEN source[w][m] ELSE 0]]
<1>1. refresh' = [refresh EXCEPT ![w] = run]
  BY DEF StartMinute
<1>2. refresh'[w] = run /\ \A v \in Views : v # w => refresh'[v] = refresh[v]
  <2> HIDE DEF run
  <2> QED
    BY <1>1 DEF TypeOK
<1>3. /\ run.running /\ run.started = now /\ run.window = window
      /\ \A m \in Minutes : run.seen[m] = IF m \in window THEN source[w][m] ELSE 0
  <2> HIDE DEF window
  <2> QED
    OBVIOUS
<1>4. \A m \in Minutes : m \in window <=> InMinuteWindow(w, m)
  BY DEF MinuteWindow
<1>5. ~refresh[w].running
  BY DEF StartMinute
<1> HIDE DEF run, window
<1>6. QED
  BY <1>2, <1>3, <1>4, <1>5

LEMMA CommitMinuteEffect ==
    ASSUME TypeOK, NEW w \in Views, CommitMinute(w)
    PROVE  /\ refresh[w].running
           /\ ~refresh'[w].running
           /\ \A v \in Views : v # w =>
                 /\ refresh'[v] = refresh[v]
                 /\ last_started'[v] = last_started[v]
                 /\ usage_minute'[v] = usage_minute[v]
           /\ last_started'[w] = refresh[w].started
           /\ \A m \in Minutes :
                 IF m \in refresh[w].window /\ refresh[w].seen[m] > 0
                   THEN /\ usage_minute'[w][m].value = refresh[w].seen[m]
                        /\ usage_minute'[w][m].computed_at = refresh[w].started
                   ELSE usage_minute'[w][m] = usage_minute[w][m]
<1>1. /\ refresh' = [refresh EXCEPT ![w] = NoRefresh]
      /\ last_started' = [last_started EXCEPT ![w] = refresh[w].started]
  BY DEF CommitMinute
<1>2. ~NoRefresh.running
  BY DEF NoRefresh
<1>3. QED
  BY <1>1, <1>2 DEF CommitMinute, TypeOK

LEMMA FailMinuteEffect ==
    ASSUME TypeOK, NEW w \in Views, FailMinute(w)
    PROVE  /\ ~refresh'[w].running
           /\ \A v \in Views : v # w => refresh'[v] = refresh[v]
<1>1. ~NoRefresh.running
  BY DEF NoRefresh
<1>2. QED
  BY <1>1 DEF FailMinute, TypeOK

LEMMA MinutesOfValue ==
    ASSUME TypeOK, NEW days, NEW v \in Views, NEW m \in Minutes
    PROVE  MinutesOf(days)[v][m] =
              IF Day(m) \in days THEN usage_minute[v][m].value ELSE 0
  BY DEF MinutesOf

LEMMA StartDailyEffect ==
    ASSUME TypeOK, StartDaily
    PROVE  /\ daily'.running /\ daily'.started = now
           /\ \A d \in Days : d \in daily'.window <=> InDailyWindow(d)
           /\ \A v \in Views, m \in Minutes : daily'.seen[v][m] =
                 IF Day(m) \in daily'.window THEN usage_minute[v][m].value ELSE 0
<1>1. daily' = [running |-> TRUE, started |-> now, window |-> DailyWindow,
                seen |-> MinutesOf(DailyWindow)]
  BY DEF StartDaily
<1>2. /\ daily'.running /\ daily'.started = now
      /\ daily'.window = DailyWindow /\ daily'.seen = MinutesOf(DailyWindow)
  BY <1>1
<1>3. \A d \in Days : d \in DailyWindow <=> InDailyWindow(d)
  BY DEF DailyWindow
<1>4. QED
  BY <1>2, <1>3, MinutesOfValue

LEMMA InsertDailyEffect ==
    ASSUME NEW days, NEW counts, NEW at, InsertDaily(days, counts, at),
           NEW v \in Views
    PROVE  /\ \A m \in Minutes : usage_daily'[v][m] =
                 IF Replaces(days, counts, at, v, Day(m))
                   THEN counts[v][m] ELSE usage_daily[v][m]
           /\ \A d \in Days : daily_at'[v][d] =
                 IF Replaces(days, counts, at, v, d) THEN at ELSE daily_at[v][d]
  BY DEF InsertDaily

-----------------------------------------------------------------------------
(***************************************************************************)
(* The inductive invariant, part by part.                                  *)
(***************************************************************************)

LEMMA InitIInv == Init => IInv
<1> SUFFICES ASSUME Init PROVE IInv
  OBVIOUS
<1>1. TypeOK
  BY InitType
<1>2. \A v \in Views, m \in Minutes :
        /\ source[v][m] = 0 /\ usage_minute[v][m].value = 0 /\ usage_daily[v][m] = 0
        /\ last_started[v] = 0 /\ ~refresh[v].running
  BY DEF Init, NoCounts, NoRow, NoRefresh
<1>3. ~daily.running /\ now = 0 /\ \A v \in Views, d \in Days : daily_at[v][d] = 0
  BY DEF Init, NoDaily
<1>4. \A v \in Views : last_started[v] = 0 /\ ~refresh[v].running
  BY DEF Init, NoRefresh
<1>5. DatesInv
  BY <1>3, <1>4, Bounds DEF DatesInv
<1>6. RowsInv /\ DailyInv /\ CountedInv /\ RolledInv
  BY <1>2, <1>3 DEF RowsInv, DailyInv, CountedInv, RolledInv, MissesOnlyTheLatest, HasRow
<1>7. QED
  BY <1>1, <1>5, <1>6 DEF IInv

LEMMA DatesStep == TypeOK /\ DatesInv /\ [Next]_vars => DatesInv'
<1> SUFFICES ASSUME TypeOK, DatesInv, [Next]_vars PROVE DatesInv'
  OBVIOUS
<1>0. now \in Nat /\ \A m \in Minutes : m \in Nat
  BY ClockAssumption DEF TypeOK, Minutes
<1>1. CASE Tick
  <2>1. now' = now + 1
    BY <1>1 DEF Tick
  <2>2. \A v \in Views :
          /\ now < last_started[v] + MaxGap
          /\ refresh[v].running => now < refresh[v].started + MinuteRun
          /\ last_started[v] \in Nat /\ refresh[v].started \in Nat
    BY <1>1, Typed, ClockAssumption DEF Tick, Minutes
  <2>3. \A v \in Views, d \in Days : daily_at[v][d] \in Nat
    BY TypedDay
  <2>4. daily.started \in Nat
    BY <1>0 DEF TypeOK
  <2>5. UNCHANGED <<refresh, last_started, daily_at, daily>>
    BY <1>1 DEF Tick
  <2>6. ASSUME NEW v \in Views
        PROVE  /\ last_started[v] <= now + 1
               /\ now + 1 <= last_started[v] + MaxGap
               /\ refresh[v].running =>
                     /\ refresh[v].started <= now + 1
                     /\ now + 1 <= refresh[v].started + MinuteRun
    BY <1>0, <2>2, Bounds DEF DatesInv
  <2>7. \A v \in Views, d \in Days : daily_at[v][d] <= now + 1
    BY <1>0, <2>3 DEF DatesInv
  <2>8. daily.running => daily.started <= now + 1
    BY <1>0, <2>4 DEF DatesInv
  <2>9. QED
    BY <2>1, <2>5, <2>6, <2>7, <2>8 DEF DatesInv
<1>2. ASSUME NEW v \in Views, StartMinute(v) PROVE DatesInv'
  <2>1. \A m \in Minutes : InMinuteWindow(v, m) => m < now
    BY DEF InMinuteWindow
  <2>2. refresh'[v].window \in SUBSET Minutes
    BY <1>2 DEF StartMinute, MinuteWindow, TypeOK
  <2>3. UNCHANGED <<now, last_started, daily_at, daily>>
    BY <1>2 DEF StartMinute
  <2>4. QED
    BY <1>0, <1>2, <2>1, <2>2, <2>3, StartMinuteEffect, Bounds DEF DatesInv
<1>3. ASSUME NEW v \in Views, CommitMinute(v) PROVE DatesInv'
  <2>1. UNCHANGED <<now, daily_at, daily>>
    BY <1>3 DEF CommitMinute
  <2>2. last_started[v] \in Nat /\ refresh[v].started \in Nat
    BY Typed, ClockAssumption DEF Minutes
  <2>3. now <= refresh[v].started + MaxGap
    BY <1>0, <1>3, <2>2, CommitMinuteEffect, Bounds DEF DatesInv
  <2>4. QED
    BY <1>0, <1>3, <2>1, <2>2, <2>3, CommitMinuteEffect DEF DatesInv
<1>4. ASSUME NEW v \in Views, FailMinute(v) PROVE DatesInv'
  <2>1. UNCHANGED <<now, last_started, daily_at, daily>>
    BY <1>4 DEF FailMinute
  <2>2. QED
    BY <1>4, <2>1, FailMinuteEffect DEF DatesInv
<1>5. CASE StartDaily
  <2>1. UNCHANGED <<now, last_started, refresh, daily_at>>
    BY <1>5 DEF StartDaily
  <2>2. QED
    BY <1>0, <1>5, <2>1, StartDailyEffect DEF DatesInv
<1>6. ASSUME NEW days, NEW counts, NEW at, at <= now, InsertDaily(days, counts, at)
      PROVE  \A v \in Views, d \in Days : daily_at'[v][d] <= now
  BY <1>6, InsertDailyEffect DEF DatesInv
<1>7. CASE CommitDaily
  <2>1. UNCHANGED <<now, last_started, refresh>> /\ ~daily'.running
    BY <1>7 DEF CommitDaily, NoDaily
  <2>2. \A v \in Views, d \in Days : daily_at'[v][d] <= now
    BY <1>6, <1>7 DEF CommitDaily, DatesInv
  <2>3. QED
    BY <2>1, <2>2 DEF DatesInv
<1>8. CASE FailDaily
  BY <1>8 DEF FailDaily, NoDaily, DatesInv
<1>9. ASSUME NEW d \in Days, HandRecompute(d) PROVE DatesInv'
  <2>1. UNCHANGED <<now, last_started, refresh, daily>>
    BY <1>9 DEF HandRecompute
  <2>2. \A v \in Views, e \in Days : daily_at'[v][e] <= now
    BY <1>0, <1>6, <1>9 DEF HandRecompute
  <2>3. QED
    BY <2>1, <2>2 DEF DatesInv
<1>10. ASSUME NEW v \in Views, NEW m \in Minutes, Land(v, m) PROVE DatesInv'
  BY <1>10 DEF Land, DatesInv
<1>11. ASSUME NEW v \in Views, NEW part, Expire(v, part) PROVE DatesInv'
  BY <1>11 DEF Expire, DatesInv
<1>12. CASE UNCHANGED vars
  BY <1>12 DEF vars, DatesInv
<1>13. QED
  BY <1>1, <1>2, <1>3, <1>4, <1>5, <1>7, <1>8, <1>9, <1>10, <1>11, <1>12 DEF Next

LEMMA RowsStep == TypeOK /\ DatesInv /\ RowsInv /\ [Next]_vars => RowsInv'
<1> SUFFICES ASSUME TypeOK, DatesInv, RowsInv, [Next]_vars PROVE RowsInv'
  OBVIOUS
<1>1. ASSUME NEW w \in Views, NEW n \in Minutes, Land(w, n) PROVE RowsInv'
  <2>1. UNCHANGED <<usage_minute, refresh, last_started>>
    BY <1>1 DEF Land
  <2>2. \A v \in Views, m \in Minutes : source'[v][m] >= source[v][m] /\ source'[v][m] \in Nat
    BY <1>1, LandEffect, Typed
  <2>3. QED
    BY <2>1, <2>2, Typed DEF RowsInv, HasRow
<1>2. ASSUME NEW w \in Views, NEW part, Expire(w, part) PROVE RowsInv'
  <2>1. UNCHANGED <<source, refresh, last_started>>
    BY <1>2 DEF Expire
  <2>2. \A v \in Views, m \in Minutes :
          \/ usage_minute'[v][m] = usage_minute[v][m]
          \/ usage_minute'[v][m].value = 0
    BY <1>2, ExpireEffect DEF NoRow
  <2>3. QED
    BY <2>1, <2>2, Typed DEF RowsInv, HasRow
<1>3. ASSUME NEW w \in Views, StartMinute(w) PROVE RowsInv'
  <2>1. UNCHANGED <<source, usage_minute, last_started>>
    BY <1>3 DEF StartMinute
  <2>2. QED
    BY <1>3, <2>1, StartMinuteEffect, Typed DEF RowsInv, HasRow
<1>4. ASSUME NEW w \in Views, CommitMinute(w) PROVE RowsInv'
  <2>1. UNCHANGED source
    BY <1>4 DEF CommitMinute
  <2>2. /\ last_started[w] <= refresh[w].started
        /\ \A m \in refresh[w].window : m < refresh[w].started
    BY <1>4, CommitMinuteEffect DEF DatesInv
  <2>3. ASSUME NEW v \in Views, NEW m \in Minutes
        PROVE  /\ usage_minute'[v][m].value <= source[v][m]
               /\ usage_minute'[v][m].value > 0 => m < last_started'[v]
    BY <1>4, <2>2, CommitMinuteEffect, Typed DEF RowsInv, HasRow
  <2>4. ASSUME NEW v \in Views, NEW m \in Minutes, refresh'[v].running
        PROVE  /\ refresh'[v].seen[m] <= source[v][m]
               /\ m \in refresh'[v].window =>
                    usage_minute'[v][m].value <= refresh'[v].seen[m]
    BY <1>4, <2>4, CommitMinuteEffect DEF RowsInv
  <2>5. QED
    BY <2>1, <2>3, <2>4 DEF RowsInv, HasRow
<1>5. ASSUME NEW w \in Views, FailMinute(w) PROVE RowsInv'
  <2>1. UNCHANGED <<source, usage_minute, last_started>>
    BY <1>5 DEF FailMinute
  <2>2. QED
    BY <1>5, <2>1, FailMinuteEffect DEF RowsInv, HasRow
<1>6. ASSUME UNCHANGED <<source, usage_minute, refresh, last_started>> PROVE RowsInv'
  BY <1>6 DEF RowsInv, HasRow
<1>7. CASE Tick
  BY <1>6, <1>7 DEF Tick
<1>8. CASE StartDaily
  BY <1>6, <1>8 DEF StartDaily
<1>9. CASE CommitDaily
  BY <1>6, <1>9 DEF CommitDaily
<1>10. CASE FailDaily
  BY <1>6, <1>10 DEF FailDaily
<1>11. ASSUME NEW d \in Days, HandRecompute(d) PROVE RowsInv'
  BY <1>6, <1>11 DEF HandRecompute
<1>12. CASE UNCHANGED vars
  BY <1>6, <1>12 DEF vars
<1>13. QED
  BY <1>1, <1>2, <1>3, <1>4, <1>5, <1>7, <1>8, <1>9, <1>10, <1>11, <1>12 DEF Next

\* A minute older than any refresh reaches stays so, and a kept one is not expired.
LEMMA ReachableIsKept ==
    ASSUME TypeOK, NEW m \in Minutes, InReach(m)
    PROVE  ~Expired(m)
<1>1. m \in Nat /\ now \in Nat
  BY ClockAssumption DEF TypeOK, Minutes
<1>2. MaxBackDays * DayLen < RetentionDays * DayLen
  BY Bounds, RetentionAssumption
<1> DEFINE back == MaxBackDays * DayLen
           kept == RetentionDays * DayLen
<1>3. back \in Nat /\ kept \in Nat /\ back < kept /\ m >= now - back
  BY <1>2, Reaches DEF InReach
<1>4. ~(m + kept <= now)
  <2> HIDE DEF back, kept
  <2> QED
    BY <1>1, <1>3
<1>5. QED
  BY <1>4 DEF Expired

\* What the next refresh will not read again was counted, as long as readings
\* are timely: the heart of NothingLeftBehind, and of CountedInv at a start.
LEMMA OutsideIsCounted ==
    ASSUME TypeOK, DatesInv, RowsInv, CountedInv, Timely,
           NEW v \in Views, NEW m \in Minutes,
           m < now, InReach(m), ~InMinuteWindow(v, m)
    PROVE  usage_minute[v][m].value = source[v][m]
<1>1. /\ m < now - LateWindow[v]
      /\ ~AtOrAfterLastWritten(v, m)
  BY Typed, Bounds DEF InMinuteWindow
<1>2. PICK w \in Minutes : HasRow(v, w) /\ ~(m >= w)
  BY <1>1 DEF AtOrAfterLastWritten
<1>3. m < last_started[v]
  BY <1>2, Typed DEF RowsInv
<1>4. now <= last_started[v] + MaxGap
  BY DEF DatesInv
<1>5. MaxLate = 0 \/ MaxLate + MaxGap <= LateWindow[v]
  BY DEF Timely
<1>6. ~(m >= last_started[v] - MaxLate)
  BY <1>1, <1>3, <1>4, <1>5, Typed, Bounds
<1>7. ~(usage_minute[v][m].value < source[v][m])
  BY <1>6 DEF CountedInv
<1>8. QED
  BY <1>7, Typed DEF RowsInv

LEMMA CountedStep ==
    TypeOK /\ DatesInv /\ RowsInv /\ Timely /\ CountedInv /\ [Next]_vars => CountedInv'
<1> SUFFICES ASSUME TypeOK, DatesInv, RowsInv, Timely, CountedInv, [Next]_vars
             PROVE  CountedInv'
  OBVIOUS
<1>1. CASE Tick
  <2>1. UNCHANGED <<source, usage_minute, refresh, last_started>>
    BY <1>1 DEF Tick
  <2>2. ASSUME NEW m \in Minutes, InReach(m)' PROVE InReach(m)
    <3> DEFINE back == MaxBackDays * DayLen
    <3>1. now' = now + 1 /\ now \in Nat /\ m \in Nat /\ back \in Nat /\ m >= now' - back
      BY <1>1, <2>2, Reaches, ClockAssumption DEF Tick, TypeOK, Minutes, InReach
    <3>2. m >= now - back
      <4> HIDE DEF back
      <4> QED
        BY <3>1
    <3>3. QED
      BY <3>2 DEF InReach
  <2>3. QED
    BY <2>1, <2>2 DEF CountedInv
<1>2. ASSUME NEW w \in Views, NEW n \in Minutes, Land(w, n) PROVE CountedInv'
  <2>1. UNCHANGED <<now, usage_minute, refresh, last_started>> /\ now <= n + MaxLate
    BY <1>2 DEF Land
  <2>2. \A m \in Minutes : InReach(m)' <=> InReach(m)
    BY <2>1 DEF InReach
  <2>3. /\ n >= last_started[w] - MaxLate
        /\ refresh[w].running => n >= refresh[w].started - MaxLate
    BY <2>1, Typed, Bounds DEF DatesInv
  <2>4. QED
    BY <1>2, <2>1, <2>2, <2>3, LandEffect DEF CountedInv
<1>3. ASSUME NEW w \in Views, NEW part, Expire(w, part) PROVE CountedInv'
  <2>1. UNCHANGED <<now, source, refresh, last_started>>
    BY <1>3 DEF Expire
  <2>2. ASSUME NEW v \in Views, NEW m \in Minutes, InReach(m)'
        PROVE  InReach(m) /\ usage_minute'[v][m] = usage_minute[v][m]
    <3>1. InReach(m)
      BY <2>1, <2>2 DEF InReach
    <3>2. QED
      BY <1>3, <3>1, ReachableIsKept, ExpireEffect
  <2>3. QED
    BY <2>1, <2>2 DEF CountedInv
<1>4. ASSUME NEW w \in Views, StartMinute(w) PROVE CountedInv'
  <2>1. UNCHANGED <<now, source, usage_minute, last_started>>
    BY <1>4 DEF StartMinute
  <2>2. \A m \in Minutes : InReach(m)' <=> InReach(m)
    BY <2>1 DEF InReach
  <2>3. ASSUME NEW m \in Minutes, InReach(m), m \notin refresh'[w].window,
               usage_minute[w][m].value < source[w][m]
        PROVE  m >= now - MaxLate
    <3>1. ~InMinuteWindow(w, m)
      BY <1>4, <2>3, StartMinuteEffect
    <3>2. ~(m < now)
      BY <2>3, <3>1, OutsideIsCounted, Typed
    <3>3. QED
      BY <3>2, Typed, Bounds
  <2>4. ASSUME NEW m \in Minutes, m \in refresh'[w].window
        PROVE  refresh'[w].seen[m] = source[w][m]
    BY <1>4, <2>4, StartMinuteEffect
  <2>5. QED
    BY <1>4, <2>1, <2>2, <2>3, <2>4, StartMinuteEffect, Typed DEF CountedInv
<1>5. ASSUME NEW w \in Views, CommitMinute(w) PROVE CountedInv'
  <2>1. UNCHANGED <<now, source>>
    BY <1>5 DEF CommitMinute
  <2>2. \A m \in Minutes : InReach(m)' <=> InReach(m)
    BY <2>1 DEF InReach
  <2>3. ASSUME NEW m \in Minutes, InReach(m), usage_minute'[w][m].value < source[w][m]
        PROVE  m >= refresh[w].started - MaxLate
    <3>1. CASE m \in refresh[w].window
      <4>1. refresh[w].seen[m] < source[w][m]
        BY <1>5, <2>3, <3>1, CommitMinuteEffect, Typed DEF RowsInv
      <4>2. QED
        BY <1>5, <2>3, <3>1, <4>1, CommitMinuteEffect DEF CountedInv
    <3>2. CASE m \notin refresh[w].window
      BY <1>5, <2>3, <3>2, CommitMinuteEffect DEF CountedInv
    <3>3. QED
      BY <3>1, <3>2
  <2>4. QED
    BY <1>5, <2>1, <2>2, <2>3, CommitMinuteEffect DEF CountedInv
<1>6. ASSUME NEW w \in Views, FailMinute(w) PROVE CountedInv'
  <2>1. UNCHANGED <<now, source, usage_minute, last_started>>
    BY <1>6 DEF FailMinute
  <2>2. QED
    BY <1>6, <2>1, FailMinuteEffect DEF CountedInv, InReach
<1>7. ASSUME UNCHANGED <<now, source, usage_minute, refresh, last_started>> PROVE CountedInv'
  BY <1>7 DEF CountedInv, InReach
<1>8. CASE StartDaily
  BY <1>7, <1>8 DEF StartDaily
<1>9. CASE CommitDaily
  BY <1>7, <1>9 DEF CommitDaily
<1>10. CASE FailDaily
  BY <1>7, <1>10 DEF FailDaily
<1>11. ASSUME NEW d \in Days, HandRecompute(d) PROVE CountedInv'
  BY <1>7, <1>11 DEF HandRecompute
<1>12. CASE UNCHANGED vars
  BY <1>7, <1>12 DEF vars
<1>13. QED
  BY <1>1, <1>2, <1>3, <1>4, <1>5, <1>6, <1>8, <1>9, <1>10, <1>11, <1>12 DEF Next

LEMMA DailyStep == TypeOK /\ DatesInv /\ RowsInv /\ DailyInv /\ [Next]_vars => DailyInv'
<1> SUFFICES ASSUME TypeOK, DatesInv, RowsInv, DailyInv, [Next]_vars PROVE DailyInv'
  OBVIOUS
<1>1. CASE Tick
  <2>1. UNCHANGED <<source, usage_minute, usage_daily, daily_at, daily>>
    BY <1>1 DEF Tick
  <2>2. ASSUME NEW m \in Minutes, ~Expired(m)' PROVE ~Expired(m)
    <3> DEFINE kept == RetentionDays * DayLen
    <3>1. now' = now + 1 /\ now \in Nat /\ m \in Nat /\ kept \in Nat /\ ~(m + kept <= now')
      BY <1>1, <2>2, Reaches, ClockAssumption DEF Tick, TypeOK, Minutes, Expired
    <3>2. ~(m + kept <= now)
      <4> HIDE DEF kept
      <4> QED
        BY <3>1
    <3>3. QED
      BY <3>2 DEF Expired
  <2>3. QED
    BY <2>1, <2>2 DEF DailyInv
<1>2. ASSUME NEW w \in Views, NEW n \in Minutes, Land(w, n) PROVE DailyInv'
  <2>1. UNCHANGED <<now, usage_minute, usage_daily, daily_at, daily>>
    BY <1>2 DEF Land
  <2>2. \A v \in Views, m \in Minutes : source'[v][m] >= source[v][m] /\ source'[v][m] \in Nat
    BY <1>2, LandEffect, Typed
  <2>3. \A m \in Minutes : Expired(m)' <=> Expired(m)
    BY <2>1 DEF Expired
  <2>4. QED
    BY <2>1, <2>2, <2>3, Typed DEF DailyInv
<1>3. ASSUME NEW w \in Views, NEW part, Expire(w, part) PROVE DailyInv'
  <2>1. UNCHANGED <<now, source, usage_daily, daily_at, daily>>
    BY <1>3 DEF Expire
  <2>2. \A v \in Views, m \in Minutes :
          ~Expired(m)' => ~Expired(m) /\ usage_minute'[v][m] = usage_minute[v][m]
    BY <1>3, <2>1, ExpireEffect DEF Expired
  <2>3. QED
    BY <2>1, <2>2 DEF DailyInv
<1>4. ASSUME NEW w \in Views, CommitMinute(w) PROVE DailyInv'
  <2>1. UNCHANGED <<now, source, usage_daily, daily_at, daily>>
    BY <1>4 DEF CommitMinute
  <2>2. \A v \in Views, m \in Minutes :
          usage_minute'[v][m].value >= usage_minute[v][m].value /\ usage_minute'[v][m].value \in Nat
    BY <1>4, CommitMinuteEffect, Typed DEF RowsInv
  <2>3. \A m \in Minutes : Expired(m)' <=> Expired(m)
    BY <2>1 DEF Expired
  <2>4. QED
    BY <2>1, <2>2, <2>3, Typed DEF DailyInv
<1>5. CASE StartDaily
  <2>1. UNCHANGED <<now, source, usage_minute, usage_daily, daily_at>>
    BY <1>5 DEF StartDaily
  <2>2. \A m \in Minutes : Expired(m)' <=> Expired(m)
    BY <2>1 DEF Expired
  <2>3. ASSUME NEW v \in Views, NEW m \in Minutes
        PROVE  /\ daily'.seen[v][m] <= source[v][m]
               /\ Day(m) \in daily'.window =>
                    /\ daily'.seen[v][m] = usage_minute[v][m].value
                    /\ usage_daily[v][m] <= daily'.seen[v][m]
    <3>1. /\ Day(m) \in daily'.window => daily'.seen[v][m] = usage_minute[v][m].value
          /\ Day(m) \notin daily'.window => daily'.seen[v][m] = 0
      BY <1>5, StartDailyEffect
    <3>2. ASSUME Day(m) \in daily'.window PROVE ~Expired(m)
      <4>1. Day(m) >= Day(now) - MaxBackDays
        BY <1>5, <3>2, StartDailyEffect, Typed DEF InDailyWindow
      <4>2. ASSUME Expired(m) PROVE FALSE
        <5>1. Day(m) + RetentionDays <= Day(now)
          BY <4>2, DaysApart, Typed, Bounds DEF Expired
        <5>2. QED
          BY <4>1, <5>1, Typed, Bounds, RetentionAssumption
      <4>3. QED
        BY <4>2
    <3>3. QED
      BY <3>1, <3>2, Typed DEF RowsInv, DailyInv
  <2>4. QED
    BY <2>1, <2>2, <2>3, Typed DEF DailyInv
<1>6. CASE CommitDaily
  <2>1. UNCHANGED <<now, source, usage_minute>> /\ daily.running /\ ~daily'.running
    BY <1>6 DEF CommitDaily, NoDaily
  <2>2. \A m \in Minutes : Expired(m)' <=> Expired(m)
    BY <2>1 DEF Expired
  <2>3. ASSUME NEW v \in Views, NEW m \in Minutes
        PROVE  \/ usage_daily'[v][m] = usage_daily[v][m]
               \/ Day(m) \in daily.window /\ usage_daily'[v][m] = daily.seen[v][m]
    BY <1>6, InsertDailyEffect DEF CommitDaily, Replaces
  <2>4. QED
    BY <2>1, <2>2, <2>3 DEF DailyInv
<1>7. ASSUME NEW d \in Days, HandRecompute(d) PROVE DailyInv'
  <2>1. UNCHANGED <<now, source, usage_minute, daily>>
    BY <1>7 DEF HandRecompute
  <2>2. \A m \in Minutes : Expired(m)' <=> Expired(m)
    BY <2>1 DEF Expired
  <2>3. ASSUME NEW v \in Views, NEW m \in Minutes
        PROVE  \/ /\ usage_daily'[v][m] = usage_daily[v][m]
                  /\ daily_at'[v][Day(m)] = daily_at[v][Day(m)]
               \/ /\ usage_daily'[v][m] = usage_minute[v][m].value
                  /\ daily_at'[v][Day(m)] = now
    BY <1>7, InsertDailyEffect, MinutesOfValue, Typed DEF HandRecompute, Replaces
  <2>4. daily.running => daily.started < now
    BY <1>7 DEF HandRecompute
  <2>5. QED
    BY <2>1, <2>2, <2>3, <2>4, Typed DEF DailyInv, RowsInv
<1>8. CASE FailDaily
  BY <1>8 DEF FailDaily, NoDaily, DailyInv, Expired
<1>9. ASSUME UNCHANGED <<now, source, usage_minute, usage_daily, daily_at, daily>> PROVE DailyInv'
  BY <1>9 DEF DailyInv, Expired
<1>10. ASSUME NEW v \in Views, StartMinute(v) PROVE DailyInv'
  BY <1>9, <1>10 DEF StartMinute
<1>11. ASSUME NEW v \in Views, FailMinute(v) PROVE DailyInv'
  BY <1>9, <1>11 DEF FailMinute
<1>12. CASE UNCHANGED vars
  BY <1>9, <1>12 DEF vars
<1>13. QED
  BY <1>1, <1>2, <1>3, <1>4, <1>5, <1>6, <1>7, <1>8, <1>10, <1>11, <1>12 DEF Next

\* A row the daily window leaves out is counted by its day already.
LEMMA OutsideIsRolled ==
    ASSUME TypeOK, DatesInv, RowsInv, RolledInv,
           NEW v \in Views, NEW m \in Minutes,
           Day(m) >= Day(now) - MaxBackDays,
           usage_minute[v][m].value > usage_daily[v][m]
    PROVE  InDailyWindow(Day(m))
<1>1. SinceLastDaily(v, m) /\ HasRow(v, m)
  <2>1. \A u \in Views, d \in Days : CouldHaveRead(daily_at[u][d], m)
    <3>1. ASSUME NEW u \in Views, NEW d \in Days PROVE CouldHaveRead(daily_at[u][d], m)
      <4>1. daily_at[u][d] \in Nat /\ daily_at[u][d] <= now /\ now \in Nat
        BY Typed, TypedDay DEF DatesInv
      <4>2. Day(daily_at[u][d]) <= Day(now) /\ Day(daily_at[u][d]) \in Nat
        BY <4>1, DayMonotone, DayOf
      <4>3. QED
        BY <4>2, Typed, Bounds DEF CouldHaveRead
    <3>2. QED
      BY <3>1
  <2>2. HasRow(v, m)
    BY Typed DEF HasRow
  <2>3. QED
    BY <2>1, <2>2 DEF RolledInv, MissesOnlyTheLatest, SinceLastDaily
<1>2. m <= now
  BY <1>1, Typed DEF RowsInv, DatesInv
<1>3. Day(m) <= Day(now)
  BY <1>2, DayMonotone, Typed
<1>4. Rewritten(v, m) /\ Day(m) <= Day(m)
  BY <1>1, Typed DEF Rewritten
<1>5. QED
  BY <1>3, <1>4 DEF InDailyWindow

LEMMA RolledStep ==
    TypeOK /\ DatesInv /\ RowsInv /\ DailyInv /\ OverlapCovers /\ RolledInv /\ [Next]_vars
        => RolledInv'
<1> SUFFICES ASSUME TypeOK, DatesInv, RowsInv, DailyInv, OverlapCovers, RolledInv,
                    [Next]_vars
             PROVE  RolledInv'
  OBVIOUS
<1>1. CASE Tick
  <2>1. UNCHANGED <<usage_minute, usage_daily, daily_at, daily>>
    BY <1>1 DEF Tick
  <2>2. QED
    BY <2>1 DEF RolledInv, MissesOnlyTheLatest, CouldHaveRead, Day
<1>2. ASSUME NEW w \in Views, NEW part, Expire(w, part) PROVE RolledInv'
  <2>1. UNCHANGED <<now, usage_daily, daily_at, daily>>
    BY <1>2 DEF Expire
  <2>2. \A v \in Views, m \in Minutes :
          \/ usage_minute'[v][m] = usage_minute[v][m]
          \/ usage_minute'[v][m].value = 0
    BY <1>2, ExpireEffect DEF NoRow
  <2>3. QED
    BY <2>1, <2>2, Typed DEF RolledInv, MissesOnlyTheLatest, CouldHaveRead, Day
<1>3. ASSUME NEW w \in Views, CommitMinute(w) PROVE RolledInv'
  <2>1. UNCHANGED <<now, usage_daily, daily_at, daily>>
    BY <1>3 DEF CommitMinute
  <2>2. /\ \A u \in Views, d \in Days : refresh[w].started > daily_at[u][d] - Overlap
        /\ daily.running => refresh[w].started > daily.started - Overlap
    <3>1. /\ refresh[w].started \in Nat /\ now \in Nat /\ daily.started \in Nat
          /\ MinuteRun \in Nat /\ Overlap \in Nat /\ MinuteRun < Overlap
      BY Typed, Bounds, ClockAssumption DEF OverlapCovers, Minutes
    <3>2. now <= refresh[w].started + MinuteRun
      BY <1>3, CommitMinuteEffect DEF DatesInv
    <3>3. \A u \in Views, d \in Days : daily_at[u][d] <= now /\ daily_at[u][d] \in Nat
      BY TypedDay DEF DatesInv
    <3>4. daily.running => daily.started <= now
      BY DEF DatesInv
    <3>5. QED
      BY <3>1, <3>2, <3>3, <3>4
  <2>3. ASSUME NEW v \in Views, NEW m \in Minutes
        PROVE  \/ usage_minute'[v][m] = usage_minute[v][m]
               \/ /\ usage_minute'[v][m].value > 0
                  /\ usage_minute'[v][m].computed_at = refresh[w].started
    BY <1>3, CommitMinuteEffect
  <2>4. QED
    BY <2>1, <2>2, <2>3 DEF RolledInv, MissesOnlyTheLatest, CouldHaveRead, Day
<1>4. CASE StartDaily
  <2>1. UNCHANGED <<now, usage_minute, usage_daily, daily_at>>
    BY <1>4 DEF StartDaily
  <2>2. \A v \in Views, d \in Days : daily_at[v][d] <= daily'.started
    BY <1>4, StartDailyEffect DEF DatesInv
  <2>3. ASSUME NEW v \in Views, NEW m \in Minutes, CouldHaveRead(now, m)
        PROVE  /\ Day(m) \in daily'.window => usage_minute[v][m].value = daily'.seen[v][m]
               /\ Day(m) \notin daily'.window =>
                    ~(usage_minute[v][m].value > usage_daily[v][m])
    <3>1. Day(m) >= Day(now) - MaxBackDays
      BY <2>3, Typed, Bounds DEF CouldHaveRead
    <3>2. QED
      BY <1>4, <3>1, StartDailyEffect, OutsideIsRolled, Typed
  <2>4. daily'.running /\ daily'.started = now
    BY <1>4, StartDailyEffect
  <2>5. MissesOnlyTheLatest'
    BY <2>1 DEF RolledInv, MissesOnlyTheLatest, CouldHaveRead, Day
  <2>6. ASSUME NEW v \in Views, NEW m \in Minutes, CouldHaveRead(daily.started, m)'
        PROVE  /\ Day(m) \in daily'.window => ~(usage_minute[v][m].value > daily'.seen[v][m])
               /\ Day(m) \notin daily'.window =>
                    ~(usage_minute[v][m].value > usage_daily[v][m])
    <3>1. CouldHaveRead(now, m)
      BY <2>4, <2>6 DEF CouldHaveRead, Day
    <3>2. QED
      BY <2>3, <3>1, Typed
  <2>7. QED
    BY <2>1, <2>2, <2>5, <2>6 DEF RolledInv, Day
<1>5. CASE CommitDaily
  <2>1. UNCHANGED <<now, usage_minute>> /\ daily.running /\ ~daily'.running
    BY <1>5 DEF CommitDaily, NoDaily
  <2>2. \A v \in Views, d \in Days :
          daily_at'[v][d] = daily_at[v][d] \/ daily_at'[v][d] = daily.started
    BY <1>5, InsertDailyEffect DEF CommitDaily
  <2>3. ASSUME NEW v \in Views, NEW m \in Minutes,
               usage_minute[v][m].value > usage_daily'[v][m]
        PROVE  /\ usage_minute[v][m].value > usage_daily[v][m]
               /\ CouldHaveRead(daily.started, m) =>
                    usage_minute[v][m].computed_at > daily.started - Overlap
    <3> DEFINE replaced == Replaces(daily.window, daily.seen, daily.started, v, Day(m))
    <3>1. usage_daily'[v][m] = IF replaced THEN daily.seen[v][m] ELSE usage_daily[v][m]
      BY <1>5, InsertDailyEffect DEF CommitDaily
    <3>2. Day(m) \in daily.window => daily_at[v][Day(m)] <= daily.started
      BY <2>1, Typed DEF RolledInv
    <3>3. CASE replaced
      <4>1. Day(m) \in daily.window /\ usage_daily[v][m] <= daily.seen[v][m]
        BY <2>1, <3>2, <3>3 DEF Replaces, DailyInv
      <4>2. QED
        BY <2>1, <2>3, <3>1, <3>3, <4>1, Typed DEF RolledInv
    <3>4. CASE ~replaced
      <4>1. Day(m) \in daily.window => ~(daily.seen[v][m] > 0)
        BY <3>2, <3>4 DEF Replaces, YieldsRow
      <4>2. Day(m) \in daily.window => usage_minute[v][m].value > daily.seen[v][m]
        BY <2>3, <3>1, <3>4, <4>1, Typed
      <4>3. QED
        BY <2>1, <2>3, <3>1, <3>4, <4>2 DEF RolledInv
    <3>5. QED
      BY <3>3, <3>4
  <2>4. QED
    BY <2>1, <2>2, <2>3 DEF RolledInv, MissesOnlyTheLatest, CouldHaveRead, Day
<1>6. CASE FailDaily
  BY <1>6 DEF FailDaily, NoDaily, RolledInv, MissesOnlyTheLatest, CouldHaveRead, Day
<1>7. ASSUME NEW d \in Days, HandRecompute(d) PROVE RolledInv'
  BY <1>7 DEF HandRecompute, OverlapCovers
<1>8. ASSUME UNCHANGED <<now, usage_minute, usage_daily, daily_at, daily>> PROVE RolledInv'
  BY <1>8 DEF RolledInv, MissesOnlyTheLatest, CouldHaveRead, Day
<1>9. ASSUME NEW v \in Views, NEW m \in Minutes, Land(v, m) PROVE RolledInv'
  BY <1>8, <1>9 DEF Land
<1>10. ASSUME NEW v \in Views, StartMinute(v) PROVE RolledInv'
  BY <1>8, <1>10 DEF StartMinute
<1>11. ASSUME NEW v \in Views, FailMinute(v) PROVE RolledInv'
  BY <1>8, <1>11 DEF FailMinute
<1>12. CASE UNCHANGED vars
  BY <1>8, <1>12 DEF vars
<1>13. QED
  BY <1>1, <1>2, <1>3, <1>4, <1>5, <1>6, <1>7, <1>9, <1>10, <1>11, <1>12 DEF Next

\* Every reachable state satisfies the inductive invariant.
THEOREM Inductive == Spec => []IInv
<1>1. IInv /\ [Next]_vars => IInv'
  <2> SUFFICES ASSUME IInv, [Next]_vars PROVE IInv'
    OBVIOUS
  <2>1. TypeOK' /\ DatesInv' /\ RowsInv' /\ DailyInv'
    BY StepType, DatesStep, RowsStep, DailyStep DEF IInv
  <2>2. Timely => CountedInv'
    BY CountedStep DEF IInv
  <2>3. OverlapCovers => RolledInv'
    BY RolledStep DEF IInv
  <2>4. QED
    BY <2>1, <2>2, <2>3 DEF IInv, Timely, OverlapCovers
<1>2. QED
  BY <1>1, InitIInv, PTL DEF Spec

-----------------------------------------------------------------------------
(***************************************************************************)
(* The properties.                                                         *)
(***************************************************************************)

\* As long as readings are timely, for whatever stalls: what the minute views
\* will not read again was counted whole.
THEOREM MinutesComplete == ASSUME Timely PROVE Spec => []NothingLeftBehind
<1>1. IInv => NothingLeftBehind
  BY OutsideIsCounted DEF IInv, NothingLeftBehind
<1>2. QED
  BY <1>1, Inductive, PTL

\* As long as a minute refresh is shorter than the overlap and nobody else
\* writes usage_daily: the daily window covers every row its day lacks.
THEOREM DaysComplete == ASSUME OverlapCovers PROVE Spec => []NothingStranded
<1>1. IInv => NothingStranded
  BY OutsideIsRolled DEF IInv, NothingStranded
<1>2. QED
  BY <1>1, Inductive, PTL

\* Under the same two conditions, of the rows whose day the daily window has left
\* at midnight or by a stall, only those of the last Overlap before the last daily
\* write that could read them are missing from it.
THEOREM MidnightLosesOnlyTheLatest == ASSUME OverlapCovers PROVE Spec => []MissesOnlyTheLatest
<1>1. IInv => MissesOnlyTheLatest
  BY DEF IInv, RolledInv
<1>2. QED
  BY <1>1, Inductive, PTL

\* A number in usage_daily is only ever replaced by a larger one.
LEMMA DailyGrows ==
    ASSUME TypeOK, RowsInv, DailyInv, NEW v \in Views, NEW m \in Minutes,
           CommitDaily \/ \E d \in Days : HandRecompute(d)
    PROVE  usage_daily'[v][m] >= usage_daily[v][m]
<1>1. CASE CommitDaily
  <2>1. \/ usage_daily'[v][m] = usage_daily[v][m]
        \/ /\ Replaces(daily.window, daily.seen, daily.started, v, Day(m))
           /\ usage_daily'[v][m] = daily.seen[v][m]
    BY <1>1, InsertDailyEffect DEF CommitDaily
  <2>2. daily.running
    BY <1>1 DEF CommitDaily
  <2>3. QED
    BY <2>1, <2>2, Typed DEF DailyInv, Replaces
<1>2. ASSUME NEW d \in Days, HandRecompute(d)
      PROVE  usage_daily'[v][m] >= usage_daily[v][m]
  <2>1. \/ usage_daily'[v][m] = usage_daily[v][m]
        \/ Day(m) = d /\ usage_daily'[v][m] = usage_minute[v][m].value
    BY <1>2, InsertDailyEffect, MinutesOfValue DEF HandRecompute, Replaces
  <2>2. ASSUME Day(m) = d PROVE ~Expired(m)
    <3>1. Day(now) < Day(m) + RetentionDays
      BY <1>2, <2>2 DEF HandRecompute
    <3>2. ASSUME Expired(m) PROVE FALSE
      <4>1. Day(m) + RetentionDays <= Day(now)
        BY <3>2, DaysApart, Typed, Bounds DEF Expired
      <4>2. QED
        BY <3>1, <4>1, Typed, Bounds
    <3>3. QED
      BY <3>2
  <2>3. QED
    BY <2>1, <2>2, Typed DEF DailyInv
<1>3. QED
  BY <1>1, <1>2

LEMMA LedgerStep ==
    IInv /\ IInv' /\ [Next]_vars =>
        [Ledger!Arrive \/ Ledger!Publish]_<<source, usage_daily>>
<1> SUFFICES ASSUME IInv, IInv', [Next]_vars
             PROVE  [Ledger!Arrive \/ Ledger!Publish]_<<source, usage_daily>>
  OBVIOUS
<1>1. TypeOK /\ TypeOK' /\ RowsInv /\ DailyInv /\ DailyInv'
  BY DEF IInv
<1>2. ASSUME NEW w \in Views, NEW n \in Minutes, Land(w, n) PROVE Ledger!Arrive
  <2>1. UNCHANGED usage_daily /\ source' \in [Views -> [Minutes -> Nat]]
    BY <1>1, <1>2 DEF Land, TypeOK
  <2>2. \A v \in Views, m \in Minutes : source'[v][m] >= source[v][m]
    BY <1>1, <1>2, LandEffect, Typed
  <2>3. QED
    BY <2>1, <2>2 DEF Ledger!Arrive
<1>3. ASSUME CommitDaily \/ \E d \in Days : HandRecompute(d) PROVE Ledger!Publish
  <2>1. UNCHANGED source /\ usage_daily' \in [Views -> [Minutes -> Nat]]
    BY <1>1, <1>3 DEF CommitDaily, HandRecompute, TypeOK
  <2>2. ASSUME NEW v \in Views, NEW m \in Minutes
        PROVE  usage_daily'[v][m] >= usage_daily[v][m]
    BY <1>1, <1>3, DailyGrows
  <2>3. \A v \in Views, m \in Minutes : usage_daily'[v][m] <= source[v][m]
    BY <1>1, <2>1 DEF DailyInv
  <2>4. QED
    BY <2>1, <2>2, <2>3 DEF Ledger!Publish
<1>4. ASSUME UNCHANGED <<source, usage_daily>>
      PROVE  [Ledger!Arrive \/ Ledger!Publish]_<<source, usage_daily>>
  BY <1>4
<1>5. CASE Tick
  BY <1>5 DEF Tick
<1>6. ASSUME NEW v \in Views, NEW part, Expire(v, part)
      PROVE  UNCHANGED <<source, usage_daily>>
  BY <1>6 DEF Expire
<1>7. ASSUME NEW v \in Views, StartMinute(v) \/ CommitMinute(v) \/ FailMinute(v)
      PROVE  UNCHANGED <<source, usage_daily>>
  BY <1>7 DEF StartMinute, CommitMinute, FailMinute
<1>8. CASE StartDaily \/ FailDaily
  BY <1>8 DEF StartDaily, FailDaily
<1>9. CASE UNCHANGED vars
  BY <1>9 DEF vars
<1>10. QED
  BY <1>2, <1>3, <1>4, <1>5, <1>6, <1>7, <1>8, <1>9 DEF Next

\* The tables implement the ledger, whatever is late, stalled, expired or
\* recomputed by hand: usage_daily counts only what landed and never shrinks.
THEOREM LedgerImplemented == Spec => ImplementsLedger
<1>1. Init => Ledger!LedgerInit
  BY DEF Init, Ledger!LedgerInit, Ledger!Nothing, NoCounts
<1>2. QED
  BY <1>1, Inductive, LedgerStep, PTL
     DEF Spec, ImplementsLedger, Ledger!LedgerSpec, Ledger!ledger
=============================================================================
