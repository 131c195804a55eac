---------------------------- MODULE DriverStats -----------------------------
(***************************************************************************)
(* The date ranges behind a driver's statistics, getPeriodRange, as day    *)
(* follows day: the current period up to today, the previous one that the  *)
(* trends compare it with, and the days of the bar chart.                  *)
(*                                                                         *)
(* A day is its number; day 1 is Monday, 1 January 2035.                   *)
(* The server's clock is in UTC, so that the chart's keys are its days.    *)
(* External: a Date's setDate and setMonth, which overflow into the next   *)
(* months or the previous ones.                                            *)
(***************************************************************************)
EXTENDS Integers, FiniteSetsExt

CONSTANT Years  \* how many years are walked through

ASSUME YearsAssumption == Years \in Nat \ {0}

VARIABLES today,  \* the day
          stats  \* the statistics computed last today: their period, ranges and chart

statsVars == <<today, stats>>

-----------------------------------------------------------------------------
(* The calendar *)

Months == 0..12 * Years

\* Days of a common year before each of its months; 2036 is a leap year.
DaysBefore == <<0, 31, 59, 90, 120, 151, 181, 212, 243, 273, 304, 334>>

\* The first day of month m, January 2035 being month 0.
FirstOf(m) == 1 + (365 * (m \div 12)) + DaysBefore[(m % 12) + 1] + ((m + 34) \div 48)

MonthOf(n) == CHOOSE m \in Months : FirstOf(m) <= n /\ n < FirstOf(m + 1)
DateOf(n) == n - FirstOf(MonthOf(n)) + 1

\* setDate(k): the k-th day of n's month.
SetDate(n, k) == FirstOf(MonthOf(n)) + k - 1

\* setMonth(m): the date stays, and runs over the end of a shorter month.
SetMonth(n, m) == FirstOf(m) + DateOf(n) - 1

SinceMonday(n) == (n - 1) % 7

-----------------------------------------------------------------------------
(* getPeriodRange *)

Periods == {"today", "week", "month"}

DateRange(start, end, prevStart, prevEnd) ==
    [start |-> start, end |-> end, prevStart |-> prevStart, prevEnd |-> prevEnd]

TodayRange(now) == DateRange(now, now, SetDate(now, DateOf(now) - 1), SetDate(now, DateOf(now) - 1))

\* Mutant: the previous week ends on this week's Monday.
WeekRangeOverlapping(now) ==
    LET start == SetDate(now, DateOf(now) - SinceMonday(now))
    IN  DateRange(start, now, SetDate(now, DateOf(start) - 7), SetDate(now, DateOf(start)))

\* prevStart and prevEnd are copies of now on which the Monday's date is counted from.
WeekRange(now) ==
    LET start == SetDate(now, DateOf(now) - SinceMonday(now))
    IN  DateRange(start, now, SetDate(now, DateOf(start) - 7), SetDate(now, DateOf(start) - 1))

\* prevStart goes back a month before it goes to the first; prevEnd is day 0 of this month.
MonthRange(now) ==
    DateRange(SetDate(now, 1), now,
          SetDate(SetMonth(now, MonthOf(now) - 1), 1), SetDate(now, 0))

PeriodRange(period, now) ==
    CASE period = "today" -> TodayRange(now)
      [] period = "week"  -> WeekRange(now)
      [] period = "month" -> MonthRange(now)

\* getDailyEarnings: a bar for each day of the period, and the last seven of them are kept.
Chart(start, end) == {d \in start..end : end - d < 7}

-----------------------------------------------------------------------------
NoStats == [period |-> "none"]

\* There is a month before the first day, and one after the last.
StatsInit == today = FirstOf(1) /\ stats = NoStats

\* getStats, its answer not being in the cache.
GetStats(period) ==
    /\ LET r == PeriodRange(period, today)
       IN  stats' = [period |-> period, range |-> r, chart |-> Chart(r.start, r.end)]
    /\ UNCHANGED today

\* Midnight.
NextDay ==
    /\ today + 1 < FirstOf(12 * Years - 1)
    /\ today' = today + 1
    /\ stats' = NoStats

StatsNext == (\E period \in Periods : GetStats(period)) \/ NextDay

StatsSpec == StatsInit /\ [][StatsNext]_statsVars

-----------------------------------------------------------------------------
(* Properties *)

\* The day and the statistics keep their types.
StatsTypeOK ==
    /\ today \in FirstOf(1)..FirstOf(12 * Years)
    /\ stats = NoStats \/ stats.period \in Periods

\* The first day of the period that day n belongs to.
PeriodStart(period, n) ==
    CASE period = "today" -> n
      [] period = "week"  -> n - SinceMonday(n)
      [] period = "month" -> FirstOf(MonthOf(n))

\* The previous range is the whole period before the current one.
ComparedWithPrevious ==
    LET r == stats.range
    IN  r.prevEnd = r.start - 1 /\ r.prevStart = PeriodStart(stats.period, r.prevEnd)

\* This week began last month.
WeekSpansMonths == MonthOf(PeriodStart("week", today)) # MonthOf(today)

\* Last month has no such date as today's.
DateIsTooLate == FirstOf(MonthOf(today) - 1) + DateOf(today) > FirstOf(MonthOf(today))

\* The current range is the period up to today; the chart shows its last days, today's bar
\* the last; and the trends compare with the period before, across months and years, but
\* for the week in which a month begins and the last days of a month longer than the one
\* before it.
StatsPeriodsAdjoin ==
    stats # NoStats =>
        /\ stats.range.start = PeriodStart(stats.period, today) /\ stats.range.end = today
        /\ today = Max(stats.chart) /\ stats.range.start <= Min(stats.chart)
        /\ \/ ComparedWithPrevious
           \/ stats.period = "week" /\ WeekSpansMonths
           \/ stats.period = "month" /\ DateIsTooLate

\* Claim of roadmap.md:1451, "returning current + previous period date ranges
\* (today/week/month)".
PreviousPeriodIsPrevious == stats # NoStats => ComparedWithPrevious
=============================================================================
