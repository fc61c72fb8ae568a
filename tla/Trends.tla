------------------------------ MODULE Trends ------------------------------
(***************************************************************************)
(* The level of one supply of one device over time: the samples the polls  *)
(* leave, the daily rows retention makes of them before it deletes them    *)
(* (printaudit/monitoring/retention.py), and the date of exhaustion that   *)
(* the forecasts estimate from those rows alone                            *)
(* (printaudit/forecasting/supply.py, pipeline.py).                        *)
(*                                                                         *)
(* Retention deletes what is older than a moment, not a day: a day is      *)
(* usually aggregated in two parts by two runs, and the second part takes  *)
(* the place of the first.  A daily row is named by the samples it was     *)
(* made of; its minimum, average, maximum and count follow.  Samples with  *)
(* an unknown level are left out: they are deleted without a trace.        *)
(***************************************************************************)
EXTENDS Integers, FiniteSets, FiniteSetsExt, Functions

CONSTANTS
    MaxTime,     \* bound of the clock
    DayLength,   \* ticks in a day
    Unit,        \* parts of a percent, so many that every average of a day is whole
    Keep,        \* RAW_RETENTION_DAYS, in ticks
    Lookback,    \* SUPPLY_TREND_LOOKBACK_DAYS
    Levels,      \* levels in percent
    Jump,        \* RESET_JUMP_THRESHOLD_PERCENT
    MinPoints,   \* MIN_POINTS_FOR_TREND
    MinSpan,     \* MIN_SPAN_DAYS_FOR_TREND
    NotTaken     \* no poll at that time

Times == 0 .. MaxTime
DayOf(t) == t \div DayLength
Days == 0 .. DayOf(MaxTime)

ASSUME TimeAssumption ==
    /\ MaxTime \in Nat /\ DayLength \in Nat \ {0} /\ Keep \in Nat \ {0} /\ Lookback \in Nat
ASSUME UnitAssumption ==
    Unit \in Nat \ {0} /\ \A n \in 1 .. DayLength : Unit % n = 0
ASSUME LevelAssumption == Levels \subseteq 0 .. 100 /\ NotTaken \notin Levels /\ Jump \in Nat
ASSUME TrendAssumption == MinPoints \in Nat \ {0} /\ MinSpan \in Nat

VARIABLES
    now,        \* the clock
    level,      \* level[t]: what the poll at t read, or NotTaken
    raw,        \* the times whose rows of printer_supply_samples are there
    daily,      \* daily[d]: the samples the row of day d was made of; {} without a row
    retention,  \* what a run of run_retention has read
    forecast    \* the row of forecast_runs: days it used and days of the trend

vars == <<now, level, raw, daily, retention, forecast>>

Idle == [op |-> "idle"]
NoForecast == [days |-> {}, trend |-> {}]

TypeOK ==
    /\ now \in Times
    /\ level \in [Times -> Levels \cup {NotTaken}]
    /\ raw \subseteq {t \in 0 .. now : level[t] # NotTaken}
    /\ \A d \in Days : daily[d] \subseteq {t \in Times : level[t] # NotTaken /\ DayOf(t) = d}
    \* What a row was made of is gone from the samples: nothing is counted twice.
    /\ \A d \in Days : daily[d] \cap raw = {}
    /\ retention = Idle
       \/ /\ retention.op = "purge" /\ retention.before \in Int
          /\ retention.selected \subseteq raw
    /\ forecast.trend \subseteq forecast.days /\ forecast.days \subseteq Days

Init ==
    /\ now = 0
    /\ level = [t \in Times |-> NotTaken]
    /\ raw = {}
    /\ daily = [d \in Days |-> {}]
    /\ retention = Idle
    /\ forecast = NoForecast

-----------------------------------------------------------------------------
(* Samples and retention                                                   *)

Tick ==
    /\ now < MaxTime
    /\ now' = now + 1
    /\ UNCHANGED <<level, raw, daily, retention, forecast>>

\* A poll of the minute `now`; a second one adds no row.
Sample(l) ==
    /\ level[now] = NotTaken
    /\ level' = [level EXCEPT ![now] = l]
    /\ raw' = raw \cup {now}
    /\ UNCHANGED <<now, daily, retention, forecast>>

\* The cutoff is taken once, and the samples older than it are read.
SelectOld ==
    /\ retention = Idle
    /\ LET before == now - Keep IN
       retention' = [op |-> "purge", before |-> before, selected |-> {t \in raw : t < before}]
    /\ UNCHANGED <<now, level, raw, daily, forecast>>

SelectedOf(d) == {t \in retention.selected : DayOf(t) = d}

\* Slip: a day that has a row is not aggregated again.
Aggregated_Once(d) == IF SelectedOf(d) = {} \/ daily[d] # {} THEN daily[d] ELSE SelectedOf(d)

\* aggregate_supply_samples_to_daily: every field of the row is written anew.
Aggregated(d) == IF SelectedOf(d) = {} THEN daily[d] ELSE SelectedOf(d)

\* Slip: the selected samples stay.
Purge_Keeps ==
    /\ retention.op = "purge"
    /\ daily' = [d \in Days |-> Aggregated(d)]
    /\ UNCHANGED raw
    /\ retention' = Idle
    /\ UNCHANGED <<now, level, forecast>>

\* The daily rows and the deletion are one transaction.
Purge ==
    /\ retention.op = "purge"
    /\ daily' = [d \in Days |-> Aggregated(d)]
    /\ raw' = {t \in raw : t >= retention.before}
    /\ retention' = Idle
    /\ UNCHANGED <<now, level, forecast>>

\* The run fails or dies before its commit.
FailRetention ==
    /\ retention # Idle
    /\ retention' = Idle
    /\ UNCHANGED <<now, level, raw, daily, forecast>>

-----------------------------------------------------------------------------
(* The estimate                                                            *)

\* The average of a day, in units.
Average(d) == (Unit * SumFunctionOnSet(level, daily[d])) \div Cardinality(daily[d])

Before(d, days) == Max({c \in days : c < d})

\* _find_last_reset_index: the first day of the cartridge in use.
LastReset(days) ==
    LET resets == {d \in days : /\ \E c \in days : c < d
                                /\ Average(d) - Average(Before(d, days)) > Jump * Unit}
    IN  IF resets = {} THEN Min(days) ELSE Max(resets)

\* Slip: the trend starts with the last day of the old cartridge.
TrendDays_OneEarly(days) ==
    {d \in days : \/ d >= LastReset(days)
                  \/ LastReset(days) # Min(days) /\ d = Before(LastReset(days), days)}

TrendDays(days) == {d \in days : d >= LastReset(days)}

\* The sign of _linear_slope_per_day: least squares, multiplied by its denominator.
Falls(trend) ==
    LET x == [d \in trend |-> d - Min(trend)]
        y == [d \in trend |-> Average(d)]
        xy == [d \in trend |-> x[d] * y[d]]
    IN  Cardinality(trend) * SumFunction(xy) < SumFunction(x) * SumFunction(y)

\* estimate_exhaustion: the days the date is computed from, {} without a date.
Estimate(days) ==
    LET trend == TrendDays(days) IN
    IF /\ Cardinality(trend) >= MinPoints
       /\ Max(trend) - Min(trend) >= MinSpan
       /\ Cardinality(trend) >= 2 /\ Falls(trend)
       /\ Average(Max(trend)) > 0
    THEN trend ELSE {}

\* compute_toner_exhaustion; without a daily row the forecast stays as it is.
Forecast ==
    LET days == {d \in Days : daily[d] # {} /\ d >= DayOf(now) - Lookback} IN
    /\ days # {}
    /\ forecast' = [days |-> days, trend |-> Estimate(days)]
    /\ UNCHANGED <<now, level, raw, daily, retention>>

-----------------------------------------------------------------------------
Next == Tick \/ (\E l \in Levels : Sample(l)) \/ SelectOld \/ Purge \/ FailRetention \/ Forecast

Spec == Init /\ [][Next]_vars

-----------------------------------------------------------------------------
(* Properties                                                              *)

Purged(d) == {t \in Times : level[t] # NotTaken /\ t \notin raw /\ DayOf(t) = d}

\* Retention never takes a sample the trend has not seen: a day that lost samples has a
\* row, and the row knows the latest of them, however runs fail, however the cutoff
\* falls and whatever polls add meanwhile (retention.py:76-80).
TrendKept ==
    \A d \in Days : \A t \in Purged(d) : (\A s \in Purged(d) : s <= t) => t \in daily[d]

\* The days since the level last jumped up from one day to the next.
Rises(d, days) ==
    \E c \in days : /\ c < d /\ \A e \in days : ~(c < e /\ e < d)
                    /\ Average(d) > Average(c) + Jump * Unit

SinceRise(days) == {d \in days : \A e \in days : e > d => ~Rises(e, days)}

\* Drops(trend)[c]: how much lower the other days are, each weighed by its distance.
Drops(trend) ==
    [c \in trend |-> SumFunction([d \in trend |-> (d - c) * (Average(c) - Average(d))])]

\* The days a date should be computed from, {} if there should be none.
FallingDays(days) ==
    LET trend == SinceRise(days)
        last == CHOOSE d \in days : \A e \in days : e <= d
    IN  IF /\ Cardinality(trend) >= MinPoints
           /\ \E d \in trend : last - d >= MinSpan
           /\ SumFunction(Drops(trend)) > 0
           /\ \E t \in daily[last] : level[t] > 0
        THEN trend ELSE {}

\* A date of exhaustion is given exactly for a cartridge that empties: among the days
\* since the level last jumped up there are enough, over enough time, the level of a
\* later day is lower than that of an earlier one more than it is higher, every two days
\* weighed by their distance, and something is left (supply.py:1-10).
DateMeansFalling ==
    [][forecast' # forecast => forecast'.trend = FallingDays(forecast'.days)]_vars
=============================================================================
