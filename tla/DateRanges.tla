------------------------------ MODULE DateRanges ------------------------------
(***************************************************************************)
(* parseDateRange() of shared/utils/dates.ts: the inclusive window in UTC  *)
(* that two boundaries denote. A boundary is a date (a record of what the  *)
(* YYYY-MM-DD string says, which need not be in any calendar), an instant, *)
(* or Blank. Time is counted in ticks from 1970-01-01, TicksPerDay to a    *)
(* day: the code's milliseconds, 86 400 000.                               *)
(***************************************************************************)
EXTENDS Integers

CONSTANTS
  TicksPerDay,
  Blank, Refused

ASSUME TicksAssumption == TicksPerDay \in Nat \ {0}

DateString == [y : {n \in Nat : n <= 9999}, m : 0..99, d : 0..99]
Instant    == [time : Int]

\* Days from 1970-01-01 to the first of January of a year, and of a month, as
\* Date.UTC counts them: months past December belong to the next year.
DayOfYear(y) ==
  365 * (y - 1970) + (y - 1969) \div 4 - (y - 1901) \div 100 + (y - 1601) \div 400

IsLeap(y) == (y % 4 = 0 /\ y % 100 # 0) \/ y % 400 = 0

DaysBefore == <<0, 31, 59, 90, 120, 151, 181, 212, 243, 273, 304, 334>>

\* Date.UTC takes the years 0 to 99 for 1900 to 1999.
FullYear(y) == IF y \in 0..99 THEN 1900 + y ELSE y

DayOfMonth(y, m) ==
  IF m = 13 THEN DayOfYear(y + 1)
  ELSE DayOfYear(y) + DaysBefore[m] + IF IsLeap(y) /\ m > 2 THEN 1 ELSE 0

\* The UTC day of a date.
UtcDay(v) == DayOfMonth(FullYear(v.y), v.m) + v.d - 1

\* Day 0 of the next month is the last day of this one.
LastDayOfMonth(y, m) == DayOfMonth(FullYear(y), m + 1) - DayOfMonth(FullYear(y), m)

IsRealCalendarDate(v) ==
  v.m \in 1..12 /\ v.d >= 1 /\ v.d <= LastDayOfMonth(v.y, v.m)

\* Mutation: an end of a range is the start of its day.
ParseBoundaryAtMidnight(v, edge) ==
  IF v = Blank THEN Refused
  ELSE IF v \in Instant THEN v.time
  ELSE IF ~IsRealCalendarDate(v) THEN Refused
  ELSE UtcDay(v) * TicksPerDay

\* A start is the first tick of its day, an end the last; an instant is itself.
ParseBoundary(v, edge) ==
  IF v = Blank THEN Refused
  ELSE IF v \in Instant THEN v.time
  ELSE IF ~IsRealCalendarDate(v) THEN Refused
  ELSE UtcDay(v) * TicksPerDay + IF edge = "start" THEN 0 ELSE TicksPerDay - 1

\* Mutation: the span is taken between the boundaries themselves.
SpanOfBoundaries(start, end) == (end - start + TicksPerDay - 1) \div TicksPerDay

\* Between the starts of the two days.
SpanDays(start, end) == end \div TicksPerDay - start \div TicksPerDay

ParseDateRange(from, to, maxRangeDays) ==
  LET start == ParseBoundary(from, "start")
      end   == ParseBoundary(to, "end")
  IN IF start = Refused \/ end = Refused THEN Refused
     ELSE IF start > end THEN Refused
     ELSE IF SpanDays(start, end) > maxRangeDays THEN Refused
     ELSE [startDate |-> start, endDate |-> end]
===============================================================================
