-------------------------- MODULE ExportCenter_proofs --------------------------
(***************************************************************************)
(* Proofs about ExportCenter and DateRanges, for every set of exports,     *)
(* rows and dates, every limit, and any number of actions and failures.    *)
(***************************************************************************)
EXTENDS ExportCenter, FiniteSetTheorems, TLAPS

(* Dates *)

LEMMA DaysAreIntegers ==
  ASSUME NEW v \in DateString, IsRealCalendarDate(v)
  PROVE  UtcDay(v) \in Int
<1>1. PICK y \in Int, m \in 1..12, d \in Int : y = v.y /\ m = v.m /\ d = v.d
  BY DEF DateString, IsRealCalendarDate
<1>2. FullYear(y) \in Int
  BY DEF FullYear
<1>3. PICK full \in Int : full = FullYear(y)
  BY <1>2
<1>4. DayOfYear(full) \in Int /\ DayOfYear(full + 1) \in Int
  BY DEF DayOfYear
<1>5. DaysBefore[m] \in Int
  BY DEF DaysBefore
<1>6. DayOfMonth(full, m) \in Int
  <2>1. DayOfMonth(full, m) = DayOfYear(full) + DaysBefore[m]
                              + (IF IsLeap(full) /\ m > 2 THEN 1 ELSE 0)
    BY DEF DayOfMonth
  <2> QED
    BY <1>4, <1>5, <2>1
<1>7. UtcDay(v) = DayOfMonth(full, m) + d - 1
  BY <1>1, <1>3 DEF UtcDay
<1> QED
  BY <1>6, <1>7

\* The ticks of the days a to b, and no others, are from a's first to b's last.
LEMMA TicksOfDays ==
  ASSUME NEW K \in Nat \ {0}, NEW a \in Int, NEW b \in Int, NEW t \in Int
  PROVE  (a * K <= t /\ t <= b * K + (K - 1)) <=> (a <= t \div K /\ t \div K <= b)
<1> DEFINE q == t \div K
           m == t % K
<1>1. q \in Int /\ m \in 0..(K - 1) /\ t = q * K + m
  OBVIOUS
<1>2. \A x, y \in Int : x <= y => x * K <= y * K
  OBVIOUS
<1>3. \A x, y \in Int : (x + 1) * K = x * K + K
  OBVIOUS
<1> HIDE DEF q, m
<1>4. a <= q => a * K <= t
  BY <1>1, <1>2
<1>5. a > q => a * K > t
  <2>1. ASSUME a > q PROVE a * K > t
    <3>1. (q + 1) * K <= a * K
      BY <1>1, <1>2, <2>1
    <3> QED
      BY <1>1, <1>3, <3>1
  <2> QED
    BY <2>1
<1>6. q <= b => t <= b * K + (K - 1)
  BY <1>1, <1>2
<1>7. q > b => t > b * K + (K - 1)
  <2>1. ASSUME q > b PROVE t > b * K + (K - 1)
    <3>1. (b + 1) * K <= q * K
      BY <1>1, <1>2, <2>1
    <3> QED
      BY <1>1, <1>3, <3>1
  <2> QED
    BY <2>1
<1> QED
  BY <1>1, <1>4, <1>5, <1>6, <1>7 DEF q

LEMMA DayOfBoundary ==
  ASSUME NEW K \in Nat \ {0}, NEW a \in Int, NEW k \in 0..(K - 1)
  PROVE  (a * K + k) \div K = a
<1>1. a * K + k \in Int /\ a * K <= a * K + k /\ a * K + k <= a * K + (K - 1)
  OBVIOUS
<1>2. a <= (a * K + k) \div K /\ (a * K + k) \div K <= a
  BY <1>1, TicksOfDays
<1> QED
  BY <1>1, <1>2

(* A range of two dates is refused exactly if a date is not in the         *)
(* calendar, the first is after the last, or the last is more than         *)
(* maxRangeDays days later; else it holds the ticks of the days from the   *)
(* first to the last and no others: parseDateRange() (dates.ts:35-63).     *)
THEOREM RangesAreWholeDays ==
  ASSUME NEW from \in DateString, NEW to \in DateString, NEW maxRangeDays \in Nat,
         from # Blank, to # Blank, from \notin Instant, to \notin Instant,
         Refused \notin Int, \A x : x \in [startDate : Int, endDate : Int] => x # Refused
  PROVE  LET range == ParseDateRange(from, to, maxRangeDays) IN
         /\ range # Refused <=>
              /\ IsRealCalendarDate(from) /\ IsRealCalendarDate(to)
              /\ UtcDay(from) <= UtcDay(to)
              /\ UtcDay(to) - UtcDay(from) <= maxRangeDays
         /\ range # Refused =>
              \A t \in Int :
                range.startDate <= t /\ t <= range.endDate <=>
                  UtcDay(from) <= t \div TicksPerDay /\ t \div TicksPerDay <= UtcDay(to)
<1> DEFINE range == ParseDateRange(from, to, maxRangeDays)
           start == ParseBoundary(from, "start")
           end   == ParseBoundary(to, "end")
<1>1. CASE ~IsRealCalendarDate(from) \/ ~IsRealCalendarDate(to)
  BY <1>1 DEF ParseDateRange, ParseBoundary
<1>2. CASE IsRealCalendarDate(from) /\ IsRealCalendarDate(to)
  <2> DEFINE a == UtcDay(from)
             b == UtcDay(to)
  <2>1. a \in Int /\ b \in Int
    BY <1>2, DaysAreIntegers
  <2>2. start = a * TicksPerDay + 0 /\ end = b * TicksPerDay + (TicksPerDay - 1)
    BY <1>2, <2>1, TicksAssumption DEF ParseBoundary
  <2> HIDE DEF a, b, start, end
  <2>3. start \in Int /\ end \in Int /\ start # Refused /\ end # Refused
    BY <2>1, <2>2, TicksAssumption
  <2>4. start \div TicksPerDay = a /\ end \div TicksPerDay = b
    BY <2>1, <2>2, DayOfBoundary, TicksAssumption
  <2>5. start <= end <=> a <= b
    <3>1. a * TicksPerDay <= end /\ end <= b * TicksPerDay + (TicksPerDay - 1)
            <=> a <= end \div TicksPerDay /\ end \div TicksPerDay <= b
      BY <2>1, <2>3, TicksOfDays, TicksAssumption
    <3> QED
      BY <2>1, <2>2, <2>3, <2>4, <3>1, TicksAssumption
  <2>6. range = IF start > end THEN Refused
                ELSE IF b - a > maxRangeDays THEN Refused
                ELSE [startDate |-> start, endDate |-> end]
    BY <2>3, <2>4 DEF ParseDateRange, SpanDays, start, end
  <2>7. [startDate |-> start, endDate |-> end] # Refused
    BY <2>3
  <2> HIDE DEF range
  <2>8. range # Refused <=> a <= b /\ b - a <= maxRangeDays
    BY <2>1, <2>3, <2>5, <2>6, <2>7
  <2>9. range # Refused => range.startDate = start /\ range.endDate = end
    BY <2>6
  <2>10. \A t \in Int : (start <= t /\ t <= end)
            <=> (a <= t \div TicksPerDay /\ t \div TicksPerDay <= b)
    <3>1. start = a * TicksPerDay
      BY <2>1, <2>2, TicksAssumption
    <3> QED
      BY <2>1, <2>2, <3>1, TicksOfDays, TicksAssumption
  <2> QED
    BY <1>2, <2>8, <2>9, <2>10 DEF a, b, range
<1> QED
  BY <1>1, <1>2

(* The order of dates is that of their days, as months follow each other   *)
(* without gaps.                                                           *)
LEMMA MonthsFollow ==
  ASSUME NEW y \in Int, NEW m \in 1..12
  PROVE  DayOfMonth(y, m) \in Int /\ DayOfMonth(y, m) <= DayOfMonth(y, m + 1)
<1>1. DayOfYear(y) \in Int /\ DayOfYear(y + 1) \in Int
      /\ DayOfYear(y) + 335 <= DayOfYear(y + 1)
  BY DEF DayOfYear
<1> DEFINE leap == IF IsLeap(y) THEN 1 ELSE 0
<1>2. leap \in {0, 1}
  OBVIOUS
<1>3. \A k \in 1..12 : DayOfMonth(y, k) =
        DayOfYear(y) + DaysBefore[k] + IF k > 2 THEN leap ELSE 0
  BY DEF DayOfMonth
<1>4. DayOfMonth(y, 13) = DayOfYear(y + 1)
  BY DEF DayOfMonth
<1>5. DaysBefore = <<0, 31, 59, 90, 120, 151, 181, 212, 243, 273, 304, 334>>
  BY DEF DaysBefore
<1> HIDE DEF leap
<1>6. CASE m = 12
  BY <1>1, <1>2, <1>3, <1>4, <1>5, <1>6
<1>7. CASE m \in 1..11
  <2>1. m + 1 \in 1..12
    BY <1>7
  <2>2. DaysBefore[m] \in Int /\ DaysBefore[m + 1] \in Int
        /\ DaysBefore[m] <= DaysBefore[m + 1]
    BY <1>5, <1>7
  <2> QED
    BY <1>1, <1>2, <1>3, <1>7, <2>1, <2>2
<1> QED
  BY <1>6, <1>7

LEMMA LaterMonth ==
  ASSUME NEW y \in Int, NEW m \in 1..12, NEW n \in 1..12, m < n
  PROVE  DayOfMonth(y, m + 1) <= DayOfMonth(y, n)
<1>1. DayOfYear(y) \in Int
  BY DEF DayOfYear
<1> DEFINE leap == IF IsLeap(y) THEN 1 ELSE 0
<1>2. leap \in {0, 1}
  OBVIOUS
<1>3. \A k \in 1..12 : DayOfMonth(y, k) =
        DayOfYear(y) + DaysBefore[k] + IF k > 2 THEN leap ELSE 0
  BY DEF DayOfMonth
<1> HIDE DEF leap
<1>4. m + 1 \in 1..12
  OBVIOUS
<1>5. DaysBefore[m + 1] \in Int /\ DaysBefore[n] \in Int
      /\ DaysBefore[m + 1] <= DaysBefore[n]
  BY DEF DaysBefore
<1> QED
  BY <1>1, <1>2, <1>3, <1>4, <1>5

LEMMA LaterYear ==
  ASSUME NEW y \in Int, NEW z \in Int, y < z, NEW m \in 1..12, NEW n \in 1..12
  PROVE  DayOfMonth(y, m + 1) <= DayOfMonth(z, n)
<1>1. DayOfYear(y) \in Int /\ DayOfYear(y + 1) \in Int /\ DayOfYear(z) \in Int
      /\ DayOfYear(y) + 335 <= DayOfYear(y + 1) /\ DayOfYear(y + 1) <= DayOfYear(z)
  BY DEF DayOfYear
<1>2. DayOfYear(z) <= DayOfMonth(z, n) /\ DayOfMonth(z, n) \in Int
  <2>1. DaysBefore[n] \in Nat
    BY DEF DaysBefore
  <2>2. DayOfMonth(z, n) =
          DayOfYear(z) + DaysBefore[n] + IF IsLeap(z) /\ n > 2 THEN 1 ELSE 0
    BY DEF DayOfMonth
  <2> QED
    BY <1>1, <2>1, <2>2
<1>3. DayOfMonth(y, m + 1) <= DayOfYear(y + 1) /\ DayOfMonth(y, m + 1) \in Int
  <2>1. CASE m = 12
    BY <1>1, <2>1 DEF DayOfMonth
  <2>2. CASE m \in 1..11
    <3>1. m + 1 \in 1..12 /\ m + 1 # 13
      BY <2>2
    <3>2. DaysBefore[m + 1] \in Int /\ DaysBefore[m + 1] <= 334
      BY <3>1 DEF DaysBefore
    <3>3. DayOfMonth(y, m + 1) = DayOfYear(y) + DaysBefore[m + 1]
                                 + IF IsLeap(y) /\ m + 1 > 2 THEN 1 ELSE 0
      BY <3>1 DEF DayOfMonth
    <3> QED
      BY <1>1, <3>2, <3>3
  <2> QED
    BY <2>1, <2>2
<1> QED
  BY <1>1, <1>2, <1>3

LEMMA DatesInOrder ==
  ASSUME NEW v \in DateString, NEW w \in DateString,
         IsRealCalendarDate(v), IsRealCalendarDate(w), v.y >= 100, w.y >= 100
  PROVE  Before(v, w) => UtcDay(v) < UtcDay(w)
<1>1. PICK y \in Int, m \in 1..12, d \in Int : y = v.y /\ m = v.m /\ d = v.d
  BY DEF DateString, IsRealCalendarDate
<1>2. PICK z \in Int, n \in 1..12, e \in Int : z = w.y /\ n = w.m /\ e = w.d
  BY DEF DateString, IsRealCalendarDate
<1>3. FullYear(v.y) = y /\ FullYear(w.y) = z
  BY <1>1, <1>2 DEF FullYear
<1>4. UtcDay(v) = DayOfMonth(y, m) + d - 1 /\ UtcDay(w) = DayOfMonth(z, n) + e - 1
  BY <1>1, <1>2, <1>3 DEF UtcDay
<1>5. d >= 1 /\ e >= 1 /\ d <= DayOfMonth(y, m + 1) - DayOfMonth(y, m)
  BY <1>1, <1>2, <1>3 DEF IsRealCalendarDate, LastDayOfMonth
<1>6. /\ DayOfMonth(y, m) \in Int /\ DayOfMonth(z, n) \in Int
      /\ DayOfMonth(y, m + 1) \in Int
  <2>1. DayOfMonth(y, m) \in Int /\ DayOfMonth(z, n) \in Int
    BY MonthsFollow
  <2>2. CASE m = 12
    BY <2>1, <2>2 DEF DayOfMonth, DayOfYear
  <2>3. CASE m # 12
    <3>1. m + 1 \in 1..12
      BY <2>3
    <3> QED
      BY <2>1, <3>1, MonthsFollow
  <2> QED
    BY <2>2, <2>3
<1>7. CASE y < z
  <2>1. DayOfMonth(y, m + 1) <= DayOfMonth(z, n)
    BY <1>7, LaterYear
  <2> QED
    BY <1>4, <1>5, <1>6, <2>1
<1>8. CASE y = z /\ m < n
  <2>1. DayOfMonth(y, m + 1) <= DayOfMonth(z, n)
    BY <1>8, LaterMonth
  <2> QED
    BY <1>4, <1>5, <1>6, <2>1
<1>9. CASE y = z /\ m = n /\ d < e
  BY <1>4, <1>6, <1>9
<1> QED
  BY <1>1, <1>2, <1>7, <1>8, <1>9 DEF Before

(* What an estimate counts *)

LEMMA DatesAreNoInstants ==
  ASSUME NEW v \in Date
  PROVE  v \in DateString /\ v \notin Instant /\ v # Blank
<1>1. v \in DateString /\ v # Blank
  BY CenterAssumption
<1>2. DOMAIN v = {"y", "m", "d"}
  BY <1>1 DEF DateString
<1>3. v \in Instant => DOMAIN v = {"time"}
  BY DEF Instant
<1> QED
  BY <1>1, <1>2, <1>3

LEMMA AcceptedRange ==
  ASSUME NEW f \in Form, Accepted(f)
  PROVE  /\ f.from \in Date /\ f.to \in Date
         /\ IsRealCalendarDate(f.from) /\ IsRealCalendarDate(f.to)
         /\ \A t \in Int :
              RangeOf(f).startDate <= t /\ t <= RangeOf(f).endDate <=>
                UtcDay(f.from) <= t \div TicksPerDay /\ t \div TicksPerDay <= UtcDay(f.to)
<1>1. f.from \in Date \cup {Blank} /\ f.to \in Date \cup {Blank}
  BY DEF Form
<1>2. RangeOf(f) # Refused
  BY DEF Accepted
<1>3. f.from \in Date /\ f.to \in Date
  BY <1>1, <1>2 DEF RangeOf, ParseDateRange, ParseBoundary
<1>4. /\ f.from \in DateString /\ f.from \notin Instant /\ f.from # Blank
      /\ f.to \in DateString /\ f.to \notin Instant /\ f.to # Blank
  BY <1>3, DatesAreNoInstants
<1>5. /\ Refused \notin Int /\ MaxRangeDays \in Nat
      /\ \A x : x \in [startDate : Int, endDate : Int] => x # Refused
  BY CenterAssumption
<1> QED
  BY <1>2, <1>3, <1>4, <1>5, RangesAreWholeDays DEF RangeOf

LEMMA WindowIsNamed ==
  ASSUME NEW f \in Form, Accepted(f), f.from.y >= 100, f.to.y >= 100
  PROVE  InWindow(f, RangeOf(f)) =
           {r \in Row : /\ r.table = f.type /\ f.also \subseteq r.has
                        /\ ~Before(r.date, f.from) /\ ~Before(f.to, r.date)}
<1>1. f.from \in DateString /\ f.to \in DateString
  BY AcceptedRange, DatesAreNoInstants
<1>2. ASSUME NEW r \in Row
      PROVE  RangeOf(f).startDate <= r.time /\ r.time <= RangeOf(f).endDate
               <=> ~Before(r.date, f.from) /\ ~Before(f.to, r.date)
  <2>1. /\ r.date \in DateString /\ IsRealCalendarDate(r.date) /\ r.date.y >= 100
        /\ r.time \in Int /\ r.time \div TicksPerDay = UtcDay(r.date)
    BY CenterAssumption
  <2>2. RangeOf(f).startDate <= r.time /\ r.time <= RangeOf(f).endDate
          <=> UtcDay(f.from) <= UtcDay(r.date) /\ UtcDay(r.date) <= UtcDay(f.to)
    BY <2>1, AcceptedRange
  <2>3. UtcDay(f.from) \in Int /\ UtcDay(f.to) \in Int /\ UtcDay(r.date) \in Int
    BY <1>1, <2>1, AcceptedRange, DaysAreIntegers
  <2>4. \A v, w \in DateString :
          IsRealCalendarDate(v) /\ IsRealCalendarDate(w) /\ v.y >= 100 /\ w.y >= 100 =>
            /\ Before(v, w) => UtcDay(v) < UtcDay(w)
            /\ ~Before(v, w) => v = w \/ Before(w, v)
    <3> SUFFICES ASSUME NEW v \in DateString, NEW w \in DateString,
                        IsRealCalendarDate(v), IsRealCalendarDate(w),
                        v.y >= 100, w.y >= 100
                 PROVE  /\ Before(v, w) => UtcDay(v) < UtcDay(w)
                        /\ ~Before(v, w) => v = w \/ Before(w, v)
      OBVIOUS
    <3>1. Before(v, w) => UtcDay(v) < UtcDay(w)
      BY DatesInOrder
    <3>2. v.y = w.y /\ v.m = w.m /\ v.d = w.d => v = w
      BY DEF DateString
    <3>3. /\ v.y \in Int /\ w.y \in Int /\ v.m \in Int /\ w.m \in Int
          /\ v.d \in Int /\ w.d \in Int
      BY DEF DateString
    <3> QED
      BY <3>1, <3>2, <3>3 DEF Before
  <2>5. \A v, w \in DateString :
          IsRealCalendarDate(v) /\ IsRealCalendarDate(w) /\ v.y >= 100 /\ w.y >= 100 =>
            (~Before(v, w) <=> UtcDay(w) <= UtcDay(v))
    BY <2>4, DaysAreIntegers
  <2>6. ~Before(r.date, f.from) <=> UtcDay(f.from) <= UtcDay(r.date)
    BY <1>1, <2>1, <2>5, AcceptedRange
  <2>7. ~Before(f.to, r.date) <=> UtcDay(r.date) <= UtcDay(f.to)
    BY <1>1, <2>1, <2>5, AcceptedRange
  <2> QED
    BY <2>2, <2>6, <2>7
<1> QED
  BY <1>2 DEF InWindow

LEMMA CountsAreNumbers ==
  ASSUME NEW f \in Form
  PROVE  RowCount(f) \in Nat
         /\ Estimated(f) \in [rowCount : Nat, willQueue : BOOLEAN] \cup {None}
<1>1. IsFiniteSet(InWindow(f, RangeOf(f)))
  <2>1. IsFiniteSet(Row)
    BY CenterAssumption
  <2>2. InWindow(f, RangeOf(f)) \subseteq Row
    BY DEF InWindow
  <2> QED
    BY <2>1, <2>2, FS_Subset
<1>2. RowCount(f) \in Nat
  BY <1>1, FS_CardinalityType DEF RowCount
<1>3. (RowCount(f) > MaxSyncRows) \in BOOLEAN
  OBVIOUS
<1> QED
  BY <1>2, <1>3 DEF Estimated

(* Types *)

\* What a list shows, or is about to, was requested; so was what a create answers.
Requested ==
  /\ \A k \in List, j \in Job :
       /\ data[k] # None /\ data[k][j].turn # 0 => phase[j] # "none"
       /\ fetch[k].copy # None /\ fetch[k].copy[j].turn # 0 => phase[j] # "none"
  /\ creating.stage \in {"inserted", "done"} => phase[creating.as] # "none"

TypeInv == CenterTypeOK /\ Requested

FormOK == form \in Form /\ armed \in BOOLEAN

GuessOK ==
  /\ asked \subseteq [n : 1..issued, form : Form]
  /\ issued \in Nat /\ heard \in 0..issued
  /\ estimate \in [rowCount : Nat, willQueue : BOOLEAN] \cup {None}
  /\ overtaken \in BOOLEAN

ListsOK ==
  /\ data \in [List -> Copy \cup {None}]
  /\ stale \in [List -> BOOLEAN] /\ failed \in [List -> BOOLEAN]
  /\ fetch \in [List -> [try : 0..2, copy : Copy \cup {None}]]
  /\ \A k \in List : fetch[k].try = 0 => fetch[k].copy = None
  /\ crossed \in [List -> {"no", "request", "rows"}]

MutationsOK ==
  /\ creating \in [stage : {"no", "sent", "inserted", "done", "failed"},
                   of : Form \cup {None}, as : Job \cup {None}]
  /\ creating.stage = "no" <=> creating.of = None
  /\ creating.stage \in {"inserted", "done"} => creating.as # None
  /\ retrying \in [Job -> {"no", "sent", "reset", "done", "failed"}]

JobsOK ==
  /\ job \in [Job -> Form \cup {None}]
  /\ phase \in [Job -> Life!Phase \ {"overwritten"}]
  /\ \A j \in Job : phase[j] = "none" <=> job[j] = None
  /\ tries \in [Job -> 0..MaxRetries] /\ abandoned \in SUBSET Job
  /\ told \in [Job -> 0..(MaxRetries + 1)]

RestOK ==
  /\ error \in {"none", "estimate", "create"} /\ allUsers \in BOOLEAN
  /\ actions \in Nat /\ failures \in Nat

\* The invariant, by what the actions change.
Parts ==
  /\ FormOK /\ GuessOK /\ ListsOK /\ MutationsOK /\ JobsOK /\ RestOK /\ Requested

LEMMA PartsOfType == TypeInv <=> Parts
BY DEF TypeInv, CenterTypeOK, Parts, FormOK, GuessOK, ListsOK, MutationsOK, JobsOK,
       RestOK

LEMMA SameParts ==
  ASSUME Parts
  PROVE  /\ UNCHANGED formVars => FormOK'
         /\ UNCHANGED guessVars => GuessOK'
         /\ UNCHANGED listVars => ListsOK'
         /\ UNCHANGED <<creating, retrying>> => MutationsOK'
         /\ UNCHANGED <<jobVars, told>> => JobsOK'
         /\ UNCHANGED <<data, fetch, phase, creating>> => Requested'
<1> USE DEF Parts
<1>1. UNCHANGED formVars => FormOK'
  BY DEF FormOK, formVars
<1>2. UNCHANGED guessVars => GuessOK'
  BY DEF GuessOK, guessVars
<1>3. UNCHANGED listVars => ListsOK'
  BY DEF ListsOK, listVars
<1>4. UNCHANGED <<creating, retrying>> => MutationsOK'
  BY DEF MutationsOK
<1>5. UNCHANGED <<jobVars, told>> => JobsOK'
  BY DEF JobsOK, jobVars
<1>6. UNCHANGED <<data, fetch, phase, creating>> => Requested'
  BY DEF Requested
<1> QED
  BY <1>1, <1>2, <1>3, <1>4, <1>5, <1>6

LEMMA BoundedStep ==
  ASSUME RestOK, Act \/ Fail \/ UNCHANGED boundVars,
         error' \in {"none", "estimate", "create"}, allUsers' \in BOOLEAN
  PROVE  RestOK'
BY DEF RestOK, Act, Fail, boundVars

LEMMA LifeMoves ==
  ASSUME NEW j \in Job, phase \in [Job -> Life!Phase \ {"overwritten"}],
         Life!Ask(j) \/ Life!Succeed(j) \/ Life!Fail(j) \/ Life!Retry(j)
           \/ Life!Spoil(j) \/ Life!Forget(j)
  PROVE  /\ phase' \in [Job -> Life!Phase \ {"overwritten"}]
         /\ phase'[j] # "none"
         /\ \A i \in Job \ {j} : phase'[i] = phase[i]
         /\ ~Life!Ask(j) => phase[j] # "none"
<1>1. PICK from \in Life!Phase, to \in Life!Phase \ {"none", "overwritten"} :
        /\ phase[j] = from /\ phase' = [phase EXCEPT ![j] = to]
        /\ from = "none" => Life!Ask(j)
  BY DEF Life!Ask, Life!Succeed, Life!Fail, Life!Retry, Life!Spoil, Life!Forget,
         Life!Move, Life!Phase
<1> QED
  BY <1>1

LEMMA TypeInit == Init => Parts
<1> SUFFICES ASSUME Init PROVE Parts
  OBVIOUS
<1> USE DEF Init
<1>1. FormOK
  <2>1. DefaultFrom \in Date /\ DefaultTo \in Date
    BY CenterAssumption
  <2> QED
    BY <2>1 DEF FormOK, Form, ExportType
<1>2. GuessOK
  <2>1. /\ asked = {} /\ issued = 0 /\ heard = 0 /\ estimate = None
        /\ overtaken = FALSE
    OBVIOUS
  <2>2. 0 \in Nat /\ 0 \in 0..0 /\ FALSE \in BOOLEAN
    OBVIOUS
  <2> QED
    BY <2>1, <2>2, Zenon DEF GuessOK
<1>3. \A k \in List : fetch[k] \in {Asked, NoFetch}
  OBVIOUS
<1>4. ListsOK
  BY <1>3 DEF ListsOK, Asked, NoFetch
<1>5. MutationsOK
  BY CenterAssumption DEF MutationsOK, NoCreate
<1>6. JobsOK
  BY CenterAssumption DEF JobsOK
<1>7. Requested
  BY <1>3 DEF Requested, NoCreate, Asked, NoFetch
<1> QED
  BY <1>1, <1>2, <1>4, <1>5, <1>6, <1>7 DEF Parts, RestOK

LEMMA FormChange ==
  ASSUME Parts, FormOK', GuessOK', Act \/ UNCHANGED boundVars,
         UNCHANGED <<error, allUsers, listVars, creating, retrying, jobVars, told>>
  PROVE  Parts'
<1>1. RestOK'
  BY BoundedStep DEF Parts, RestOK
<1> QED
  BY <1>1, SameParts DEF Parts, listVars, jobVars

LEMMA TypeForm ==
  ASSUME Parts,
         EditForm \/ ChangeType \/ AskEstimate \/ \E j \in Job : RunAgain(j)
  PROVE  Parts'
<1>1. form \in Form /\ form.type \in ExportType /\ FormOK /\ GuessOK
  BY DEF Parts, FormOK, Form
<1>2. CASE EditForm
  <2>1. \A type \in ExportType : Field(type) \subseteq FilterKey
    BY DEF Field, ExportType, FilterKey
  <2>2. Enterable \subseteq Date \cup {Blank}
    BY CenterAssumption DEF Enterable
  <2>3. \A v \in Enterable : /\ [form EXCEPT !.from = v] \in Form
                             /\ [form EXCEPT !.to = v] \in Form
    BY <1>1, <2>2 DEF Form
  <2>4. \A key \in Field(form.type) : /\ [form EXCEPT !.also = @ \cup {key}] \in Form
                                      /\ [form EXCEPT !.also = @ \ {key}] \in Form
    BY <1>1, <2>1 DEF Form
  <2>5. FormOK'
    BY <1>2, <2>3, <2>4 DEF EditForm, SetForm, FormOK
  <2> QED
    BY <1>2, <2>5, FormChange, SameParts DEF EditForm
<1>3. CASE ChangeType
  <2>1. PickedType \subseteq ExportType
    BY CenterAssumption
  <2>2. \A type \in ExportType : [form EXCEPT !.type = type, !.also = {}] \in Form
    BY <1>1 DEF Form
  <2>3. FormOK'
    BY <1>3, <2>1, <2>2 DEF ChangeType, SetForm, FormOK
  <2>4. GuessOK'
    BY <1>1, <1>3 DEF ChangeType, GuessOK
  <2> QED
    BY <1>3, <2>3, <2>4, FormChange DEF ChangeType
<1>4. CASE AskEstimate
  <2>1. FormOK'
    BY <1>1, <1>4 DEF AskEstimate, FormOK
  <2>2. GuessOK'
    BY <1>1, <1>4 DEF AskEstimate, GuessOK
  <2> QED
    BY <1>4, <2>1, <2>2, FormChange DEF AskEstimate
<1>5. ASSUME NEW j \in Job, RunAgain(j) PROVE Parts'
  <2>1. data[allUsers] # None /\ data[allUsers][j].turn # 0 /\ allUsers \in List
    BY <1>5 DEF RunAgain, Visible, Parts, RestOK, List
  <2>2. phase[j] # "none"
    BY <2>1 DEF Parts, Requested
  <2>3. job[j] \in Form
    BY <2>2 DEF Parts, JobsOK
  <2>4. FormOK'
    BY <1>5, <2>3 DEF RunAgain, SetForm, FormOK
  <2> QED
    BY <1>5, <2>4, FormChange, SameParts DEF RunAgain
<1> QED
  BY <1>2, <1>3, <1>4, <1>5

LEMMA TypeHearEstimate ==
  ASSUME Parts, NEW e \in asked, HearEstimate(e)
  PROVE  Parts'
<1>1. e.form \in Form /\ e.n \in 1..issued /\ issued \in Nat /\ heard \in 0..issued
  BY DEF Parts, GuessOK
<1>2. Estimated(e.form) \in [rowCount : Nat, willQueue : BOOLEAN] \cup {None}
  BY <1>1, CountsAreNumbers
<1>3. /\ asked' \subseteq [n : 1..issued', form : Form]
      /\ heard' \in 0..issued' /\ overtaken' \in BOOLEAN /\ issued' \in Nat
  BY <1>1 DEF HearEstimate, Parts, GuessOK
<1>4. /\ estimate' \in [rowCount : Nat, willQueue : BOOLEAN] \cup {None}
      /\ error' \in {"none", "estimate", "create"}
  BY <1>2 DEF HearEstimate
<1>5. GuessOK'
  BY <1>3, <1>4 DEF GuessOK
<1>6. Fail \/ UNCHANGED boundVars
  BY DEF HearEstimate
<1>7. allUsers' \in BOOLEAN
  BY DEF HearEstimate, Parts, RestOK
<1>8. RestOK'
  BY <1>4, <1>6, <1>7, BoundedStep DEF Parts
<1> QED
  BY <1>5, <1>8, SameParts DEF HearEstimate, Parts, listVars, jobVars

LEMMA ListChange ==
  ASSUME Parts, ListsOK', Requested', Act \/ Fail \/ UNCHANGED boundVars,
         allUsers' \in BOOLEAN,
         UNCHANGED <<formVars, guessVars, error, creating, retrying, jobVars, told>>
  PROVE  Parts'
<1>1. RestOK'
  BY BoundedStep DEF Parts, RestOK
<1> QED
  BY <1>1, SameParts DEF Parts

\* A request begins, or begins anew, with nothing read yet.
LEMMA FetchAnew ==
  ASSUME Parts, NEW new \in [List -> [try : 0..2, copy : Copy \cup {None}]],
         fetch' = new, \A k \in List : new[k] = fetch[k] \/ new[k].copy = None,
         UNCHANGED <<data, stale, failed, crossed, phase, creating>>
  PROVE  ListsOK' /\ Requested'
<1>1. ListsOK'
  BY DEF Parts, ListsOK
<1>2. Requested'
  BY DEF Parts, Requested
<1> QED
  BY <1>1, <1>2

LEMMA TypeAsk ==
  ASSUME Parts, Refetch \/ Toggle \/ Poll
  PROVE  Parts'
<1>1. fetch \in [List -> [try : 0..2, copy : Copy \cup {None}]]
  BY DEF Parts, ListsOK
<1>a. allUsers \in List /\ (~allUsers) \in List
  BY DEF Parts, RestOK, List
<1>2. Asked \in [try : 0..2, copy : Copy \cup {None}] /\ Asked.copy = None
  BY DEF Asked
<1>3. fetch' \in [List -> [try : 0..2, copy : Copy \cup {None}]]
  BY <1>1, <1>a, <1>2 DEF Refetch, Toggle, Poll
<1>4. \A k \in List : fetch'[k] = fetch[k] \/ fetch'[k].copy = None
  BY <1>1, <1>a, <1>2 DEF Refetch, Toggle, Poll
<1>5. UNCHANGED <<data, stale, failed, crossed, phase, creating>>
  BY DEF Refetch, Toggle, Poll, jobVars
<1>6. ListsOK' /\ Requested'
  BY <1>3, <1>4, <1>5, FetchAnew
<1>7. allUsers' \in BOOLEAN
  BY <1>a DEF Refetch, Toggle, Poll, List
<1> QED
  BY <1>6, <1>7, ListChange DEF Refetch, Toggle, Poll

LEMMA TurnInRange ==
  ASSUME Parts, NEW j \in Job
  PROVE  Turn(j) \in 0..(MaxRetries + 1) /\ (Turn(j) # 0 <=> phase[j] # "none")
<1>1. tries[j] \in 0..MaxRetries /\ MaxRetries \in Nat
  BY CenterAssumption DEF Parts, JobsOK
<1> QED
  BY <1>1 DEF Turn

LEMMA TypeReadList ==
  ASSUME Parts, NEW k \in List, ReadList(k)
  PROVE  Parts'
<1> DEFINE copy == [j \in Job |-> IF k \/ j \in Mine
                                    THEN [phase |-> phase[j], turn |-> Turn(j)]
                                    ELSE [phase |-> "none", turn |-> 0]]
<1>1. \A j \in Job : phase[j] \in Life!Phase
  BY DEF Parts, JobsOK
<1>2. \A j \in Job : copy[j] \in Shown /\ (copy[j].turn # 0 => phase[j] # "none")
  <2> SUFFICES ASSUME NEW j \in Job
               PROVE  copy[j] \in Shown /\ (copy[j].turn # 0 => phase[j] # "none")
    OBVIOUS
  <2>1. [phase |-> phase[j], turn |-> Turn(j)] \in Shown
    BY <1>1, TurnInRange DEF Shown
  <2>2. [phase |-> "none", turn |-> 0] \in Shown
    BY CenterAssumption DEF Shown, Life!Phase
  <2> QED
    BY <2>1, <2>2, TurnInRange
<1>3. copy \in Copy
  BY <1>2 DEF Copy
<1>4. /\ fetch[k].try # 0
      /\ fetch' = [fetch EXCEPT ![k].copy = copy]
      /\ UNCHANGED <<data, stale, failed, crossed, phase, creating>>
  BY DEF ReadList, jobVars
<1> HIDE DEF copy
<1>5. ListsOK'
  BY <1>3, <1>4 DEF Parts, ListsOK
<1>6. Requested'
  BY <1>2, <1>4 DEF Parts, Requested, ListsOK
<1>7. allUsers' \in BOOLEAN
  BY DEF ReadList, Parts, RestOK
<1> QED
  BY <1>5, <1>6, <1>7, ListChange DEF ReadList

LEMMA TypeReceiveList ==
  ASSUME Parts, NEW k \in List, ReceiveList(k)
  PROVE  Parts'
<1>1. fetch[k].copy \in Copy
  BY DEF ReceiveList, Parts, ListsOK
<1>2. NoFetch \in [try : 0..2, copy : Copy \cup {None}] /\ NoFetch.copy = None
  BY DEF NoFetch
<1>3. ListsOK'
  BY <1>1, <1>2 DEF ReceiveList, Parts, ListsOK
<1>4. Requested'
  BY <1>1, <1>2 DEF ReceiveList, Parts, ListsOK, Requested, jobVars
<1>5. allUsers' \in BOOLEAN
  BY DEF ReceiveList, Parts, RestOK
<1> QED
  BY <1>3, <1>4, <1>5, ListChange DEF ReceiveList

LEMMA TypeLoseList ==
  ASSUME Parts, NEW k \in List, LoseList(k)
  PROVE  Parts'
<1>1. NoFetch \in [try : 0..2, copy : Copy \cup {None}] /\ NoFetch.copy = None
  BY DEF NoFetch
<1>2. [try |-> 2, copy |-> None] \in [try : 0..2, copy : Copy \cup {None}]
  OBVIOUS
<1>3. ListsOK'
  <2>1. PICK new \in [try : 0..2, copy : Copy \cup {None}] :
          fetch' = [fetch EXCEPT ![k] = new] /\ new.copy = None
    BY <1>1, <1>2 DEF LoseList
  <2>2. failed' \in [List -> BOOLEAN]
    BY DEF LoseList, Parts, ListsOK
  <2>3. crossed' \in [List -> {"no", "request", "rows"}]
    BY DEF LoseList, Parts, ListsOK
  <2> QED
    BY <2>1, <2>2, <2>3 DEF LoseList, Parts, ListsOK
<1>4. Requested'
  BY <1>1, <1>2 DEF LoseList, Parts, ListsOK, Requested, jobVars
<1>5. allUsers' \in BOOLEAN
  BY DEF LoseList, Parts, RestOK
<1> QED
  BY <1>3, <1>4, <1>5, ListChange DEF LoseList

\* The news makes lists stale and asks for one; it changes no rows.
LEMMA TypeInvalidate ==
  ASSUME Parts, Invalidate, UNCHANGED <<data, failed>>
  PROVE  ListsOK' /\ \A k \in List : fetch'[k] = fetch[k] \/ fetch'[k].copy = None
<1>1. Asked \in [try : 0..2, copy : Copy \cup {None}] /\ Asked.copy = None
      /\ Asked.try # 0
  BY DEF Asked
<1>2. fetch' \in [List -> [try : 0..2, copy : Copy \cup {None}]]
      /\ \A k \in List : fetch'[k] = fetch[k] \/ fetch'[k] = Asked
  BY <1>1 DEF Invalidate, Parts, ListsOK
<1>3. stale' \in [List -> BOOLEAN] /\ crossed' \in [List -> {"no", "request", "rows"}]
  BY DEF Invalidate
<1>4. \A k \in List : fetch'[k].try = 0 => fetch'[k].copy = None
  BY <1>1, <1>2 DEF Parts, ListsOK
<1> QED
  BY <1>1, <1>2, <1>3, <1>4 DEF Parts, ListsOK

\* Answers to creates and retries, and what the server makes of them.
LEMMA MutationChange ==
  ASSUME Parts, MutationsOK', JobsOK', Requested',
         Act \/ Fail \/ UNCHANGED boundVars,
         UNCHANGED <<formVars, guessVars, error, allUsers, listVars>>
  PROVE  Parts'
<1>1. RestOK'
  BY BoundedStep DEF Parts, RestOK
<1> QED
  BY <1>1, SameParts DEF Parts

LEMMA TypeCreate ==
  ASSUME Parts, Create \/ RefuseCreate \/ AnswerCreate \/ LoseCreate
  PROVE  Parts'
<1>1. form \in Form /\ form # None
  BY CenterAssumption DEF Parts, FormOK
<1>2. MutationsOK'
  BY <1>1 DEF Create, RefuseCreate, AnswerCreate, LoseCreate, NoCreate, Parts,
              MutationsOK
<1>3. UNCHANGED <<data, fetch, phase>> /\ UNCHANGED <<jobVars, told>>
  BY DEF Create, RefuseCreate, AnswerCreate, LoseCreate, listVars, jobVars
<1>4. Requested'
  <2>1. creating'.stage \in {"inserted", "done"} =>
          creating.stage = "inserted" /\ creating'.as = creating.as
    BY DEF Create, RefuseCreate, AnswerCreate, LoseCreate, Parts, MutationsOK
  <2> QED
    BY <1>3, <2>1 DEF Parts, Requested
<1>5. JobsOK'
  BY <1>3, SameParts
<1> QED
  BY <1>2, <1>4, <1>5, MutationChange
  DEF Create, RefuseCreate, AnswerCreate, LoseCreate

LEMMA TypeInsertJob ==
  ASSUME Parts, NEW j \in Job, InsertJob(j)
  PROVE  Parts'
<1>1. creating.of \in Form /\ creating.of # None /\ j # None
  BY CenterAssumption DEF InsertJob, Parts, MutationsOK
<1>2. /\ phase' \in [Job -> Life!Phase \ {"overwritten"}] /\ phase'[j] # "none"
      /\ \A i \in Job \ {j} : phase'[i] = phase[i]
  BY LifeMoves DEF InsertJob, Parts, JobsOK
<1>3. MutationsOK'
  BY <1>1 DEF InsertJob, Parts, MutationsOK
<1>4. JobsOK'
  BY <1>1, <1>2 DEF InsertJob, Parts, JobsOK
<1>5. Requested'
  <2>1. creating'.as = j
    BY DEF InsertJob, Parts, MutationsOK
  <2> QED
    BY <1>2, <2>1 DEF InsertJob, Parts, Requested, listVars
<1> QED
  BY <1>3, <1>4, <1>5, MutationChange DEF InsertJob

LEMMA TypeRetry ==
  ASSUME Parts, NEW j \in Job,
         Retry(j) \/ ResetJob(j) \/ RefuseRetry(j) \/ AnswerRetry(j) \/ Process(j)
           \/ Disturb(j) \/ Abandon(j)
  PROVE  Parts'
<1>1. MutationsOK'
  BY DEF Retry, ResetJob, RefuseRetry, AnswerRetry, Process, Disturb, Abandon, Parts, MutationsOK
<1>2. UNCHANGED <<data, fetch, creating, job, told>>
  BY DEF Retry, ResetJob, RefuseRetry, AnswerRetry, Process, Disturb, Abandon, listVars, jobVars
<1>3. /\ phase' \in [Job -> Life!Phase \ {"overwritten"}]
      /\ \A i \in Job : phase'[i] = "none" <=> phase[i] = "none"
  <2>1. CASE UNCHANGED phase
    BY <2>1 DEF Parts, JobsOK
  <2>2. CASE Life!Succeed(j) \/ Life!Fail(j) \/ Life!Retry(j) \/ Life!Spoil(j)
             \/ Life!Forget(j)
    <3>1. ~Life!Ask(j)
      BY <2>2 DEF Life!Succeed, Life!Fail, Life!Retry, Life!Spoil, Life!Forget,
                  Life!Ask, Life!Move
    <3> QED
      BY <2>2, <3>1, LifeMoves DEF Parts, JobsOK
  <2> QED
    BY <2>1, <2>2
    DEF Retry, ResetJob, RefuseRetry, AnswerRetry, Process, Disturb, Abandon, jobVars
<1>4. tries' \in [Job -> 0..MaxRetries]
  <2>1. MaxRetries \in Nat
    BY CenterAssumption
  <2> QED
    BY <2>1 DEF Retry, ResetJob, RefuseRetry, AnswerRetry, Process, Disturb, Abandon, jobVars,
                Parts, JobsOK
<1>5. abandoned' \in SUBSET Job
  BY DEF Retry, ResetJob, RefuseRetry, AnswerRetry, Process, Disturb, Abandon, jobVars,
         Parts, JobsOK
<1>6. JobsOK'
  BY <1>2, <1>3, <1>4, <1>5 DEF Parts, JobsOK
<1>7. Requested'
  BY <1>2, <1>3 DEF Parts, Requested, MutationsOK
<1> QED
  BY <1>1, <1>6, <1>7, MutationChange
  DEF Retry, ResetJob, RefuseRetry, AnswerRetry, Process, Disturb, Abandon

LEMMA TypeHear ==
  ASSUME Parts, HearCreate \/ \E j \in Job : HearRetry(j)
  PROVE  Parts'
<1>1. MaxRetries \in Nat
  BY CenterAssumption
<1>2. MutationsOK' /\ (creating' = creating \/ creating' = NoCreate)
  BY CenterAssumption DEF HearCreate, HearRetry, NoCreate, Parts, MutationsOK
<1>3. told' \in [Job -> 0..(MaxRetries + 1)]
  <2>1. CASE HearCreate /\ creating.stage = "done"
    <3>1. \A n \in 0..(MaxRetries + 1) :
            (IF n > 1 THEN n ELSE 1) \in 0..(MaxRetries + 1)
      BY <1>1
    <3>2. told' = [told EXCEPT ![creating.as] = IF @ > 1 THEN @ ELSE 1]
      BY <2>1 DEF HearCreate
    <3> QED
      BY <3>1, <3>2 DEF Parts, JobsOK
  <2>2. CASE \E j \in Job : HearRetry(j) /\ retrying[j] = "done"
    BY <2>2, TurnInRange DEF HearRetry, Parts, JobsOK
  <2>3. CASE told' = told
    BY <2>3 DEF Parts, JobsOK
  <2> QED
    BY <2>1, <2>2, <2>3 DEF HearCreate, HearRetry
<1>4. JobsOK'
  BY <1>3 DEF HearCreate, HearRetry, jobVars, Parts, JobsOK
<1>5. ListsOK' /\ \A k \in List : fetch'[k] = fetch[k] \/ fetch'[k].copy = None
  <2>1. CASE Invalidate
    BY <2>1, TypeInvalidate DEF HearCreate, HearRetry
  <2>2. CASE UNCHANGED <<stale, fetch, crossed>>
    BY <2>2 DEF HearCreate, HearRetry, Parts, ListsOK
  <2> QED
    BY <2>1, <2>2 DEF HearCreate, HearRetry
<1>6. Requested'
  BY <1>2, <1>5 DEF HearCreate, HearRetry, jobVars, NoCreate, Parts, Requested
<1>7. error' \in {"none", "estimate", "create"} /\ allUsers' \in BOOLEAN
  BY DEF HearCreate, HearRetry, Parts, RestOK
<1>8. RestOK'
  BY <1>7, BoundedStep DEF HearCreate, HearRetry, Parts
<1> QED
  BY <1>2, <1>4, <1>5, <1>6, <1>8, SameParts DEF HearCreate, HearRetry, Parts

LEMMA TypeNext == Parts /\ [Next]_vars => Parts'
<1> SUFFICES ASSUME Parts, [Next]_vars PROVE Parts'
  OBVIOUS
<1>1. CASE EditForm \/ ChangeType \/ AskEstimate \/ \E j \in Job : RunAgain(j)
  BY <1>1, TypeForm
<1>2. CASE \E e \in asked : HearEstimate(e)
  BY <1>2, TypeHearEstimate
<1>3. CASE Toggle \/ Refetch \/ Poll
  BY <1>3, TypeAsk
<1>4. CASE \E k \in List : ReadList(k) \/ ReceiveList(k) \/ LoseList(k)
  BY <1>4, TypeReadList, TypeReceiveList, TypeLoseList
<1>5. CASE Create \/ RefuseCreate \/ AnswerCreate \/ LoseCreate
  BY <1>5, TypeCreate
<1>6. CASE \E j \in Job : InsertJob(j)
  BY <1>6, TypeInsertJob
<1>7. CASE \E j \in Job : Retry(j) \/ ResetJob(j) \/ RefuseRetry(j) \/ AnswerRetry(j)
                           \/ Process(j) \/ Disturb(j) \/ Abandon(j)
  BY <1>7, TypeRetry
<1>8. CASE HearCreate \/ \E j \in Job : HearRetry(j)
  BY <1>8, TypeHear
<1>9. CASE UNCHANGED vars
  <2>1. RestOK'
    BY <1>9, BoundedStep DEF Parts, RestOK, vars
  <2> QED
    BY <1>9, <2>1, SameParts DEF Parts, vars, jobVars, listVars
<1> QED
  BY <1>1, <1>2, <1>3, <1>4, <1>5, <1>6, <1>7, <1>8, <1>9
  DEF Next, User, Lists, Mutations

(* Form, estimates, lists, mutations and rows stay within their types, and *)
(* no row is reset by retry() more often than it may be                    *)
(* (exports.service.ts:144-149).                                           *)
THEOREM TypeCorrect == Spec => []CenterTypeOK
<1>1. Parts => CenterTypeOK
  BY PartsOfType DEF TypeInv
<1> QED
  BY <1>1, TypeInit, TypeNext, PTL DEF Spec

(* Filters *)

Clean(f) == f.also \subseteq Keys(f.type)

\* Wherever a form can go to or come from, its filters are those of its type.
CleanInv ==
  /\ Clean(form)
  /\ \A e \in asked : Clean(e.form)
  /\ creating.of # None => Clean(creating.of)
  /\ \A j \in Job : job[j] # None => Clean(job[j])

LEMMA CleanInit == Init => CleanInv
BY CenterAssumption DEF Init, CleanInv, Clean, NoCreate

LEMMA CleanForm ==
  ASSUME Parts, CleanInv, EditForm \/ ChangeType \/ \E j \in Job : RunAgain(j)
  PROVE  Clean(form')
<1>1. form \in Form /\ form.type \in ExportType /\ Clean(form)
  BY DEF Parts, FormOK, Form, CleanInv
<1>2. CASE EditForm
  <2>1. \A type \in ExportType : Field(type) \subseteq Keys(type)
    BY DEF ExportType, Field, Keys
  <2>2. \A v \in Enterable : Clean([form EXCEPT !.from = v]) /\ Clean([form EXCEPT !.to = v])
    BY <1>1 DEF Clean, Form
  <2>3. \A key \in Field(form.type) : /\ Clean([form EXCEPT !.also = @ \cup {key}])
                                      /\ Clean([form EXCEPT !.also = @ \ {key}])
    BY <1>1, <2>1 DEF Clean, Form
  <2> QED
    BY <1>2, <2>2, <2>3 DEF EditForm, SetForm
<1>3. CASE ChangeType
  <2>1. \A type \in PickedType : Clean([form EXCEPT !.type = type, !.also = {}])
    BY <1>1 DEF Clean, Form
  <2> QED
    BY <1>3, <2>1 DEF ChangeType, SetForm
<1>4. ASSUME NEW j \in Job, RunAgain(j) PROVE Clean(form')
  <2>1. data[allUsers] # None /\ data[allUsers][j].turn # 0 /\ allUsers \in List
    BY <1>4 DEF RunAgain, Visible, Parts, RestOK, List
  <2>2. job[j] # None
    BY <2>1 DEF Parts, Requested, JobsOK
  <2> QED
    BY <1>4, <2>2 DEF RunAgain, SetForm, CleanInv
<1> QED
  BY <1>2, <1>3, <1>4

LEMMA CleanNext == Parts /\ CleanInv /\ [Next]_vars => CleanInv'
<1> SUFFICES ASSUME Parts, CleanInv, [Next]_vars PROVE CleanInv'
  OBVIOUS
<1>1. CASE EditForm \/ ChangeType \/ \E j \in Job : RunAgain(j)
  <2>1. UNCHANGED <<asked, creating, job>>
    BY <1>1 DEF EditForm, ChangeType, RunAgain, guessVars, jobVars
  <2> QED
    BY <1>1, <2>1, CleanForm DEF CleanInv
<1>2. CASE AskEstimate
  <2>1. \A e \in asked' : e \in asked \/ e.form = form
    BY <1>2 DEF AskEstimate
  <2> QED
    BY <1>2, <2>1 DEF AskEstimate, CleanInv, jobVars
<1>3. CASE \E e \in asked : HearEstimate(e)
  BY <1>3 DEF HearEstimate, CleanInv, formVars, jobVars
<1>4. CASE \/ Toggle \/ Refetch \/ Poll
           \/ \E k \in List : ReadList(k) \/ ReceiveList(k) \/ LoseList(k)
           \/ UNCHANGED vars
  <2>1. UNCHANGED <<form, asked, creating, job>>
    BY <1>4 DEF Toggle, Refetch, Poll, ReadList, ReceiveList, LoseList, vars, formVars,
                guessVars, jobVars
  <2> QED
    BY <2>1 DEF CleanInv
<1>5. CASE Create \/ RefuseCreate \/ AnswerCreate \/ LoseCreate \/ HearCreate
  <2>1. creating'.of \in {creating.of, form, None}
    BY <1>5 DEF Create, RefuseCreate, AnswerCreate, LoseCreate, HearCreate, NoCreate,
                Parts, MutationsOK
  <2>2. UNCHANGED <<form, asked, job>>
    BY <1>5 DEF Create, RefuseCreate, AnswerCreate, LoseCreate, HearCreate, formVars,
                guessVars, jobVars
  <2> QED
    BY <2>1, <2>2 DEF CleanInv
<1>6. ASSUME NEW j \in Job, InsertJob(j) PROVE CleanInv'
  <2>1. creating'.of = creating.of /\ job' = [job EXCEPT ![j] = creating.of]
        /\ creating.of # None /\ UNCHANGED <<form, asked>>
    BY <1>6 DEF InsertJob, Parts, MutationsOK, formVars, guessVars
  <2>2. \A i \in Job : job'[i] # None => Clean(job'[i])
    BY <2>1 DEF CleanInv, Parts, JobsOK
  <2> QED
    BY <2>1, <2>2 DEF CleanInv
<1>7. CASE \E j \in Job : \/ Retry(j) \/ ResetJob(j) \/ RefuseRetry(j) \/ AnswerRetry(j)
                          \/ HearRetry(j) \/ Process(j) \/ Disturb(j) \/ Abandon(j)
  <2>1. UNCHANGED <<form, asked, creating, job>>
    BY <1>7 DEF Retry, ResetJob, RefuseRetry, AnswerRetry, HearRetry, Process,
                Disturb, Abandon,
                formVars, guessVars, jobVars
  <2> QED
    BY <2>1 DEF CleanInv
<1> QED
  BY <1>1, <1>2, <1>3, <1>4, <1>5, <1>6, <1>7 DEF Next, User, Lists, Mutations

(* No estimate and no create carries a filter that its type's strict schema *)
(* does not know, however the form was filled (ExportCenterPage.tsx:86-92). *)
THEOREM FiltersFit == Spec => []NoKeyRefused
<1>1. CleanInv => NoKeyRefused
  BY DEF CleanInv, Clean, NoKeyRefused
<1> QED
  BY <1>1, CleanInit, CleanNext, TypeInit, TypeNext, PTL DEF Spec

(* Estimates *)

\* The newest estimate asked for since the last change of the form is on its way, or
\* was the last to be heard and is what the page shows.
GuessInv ==
  /\ \A e, f \in asked : e.n = f.n => e = f
  /\ \A e \in asked : e.n # heard
  /\ ~armed => \A e \in asked : e.n = issued => e.form = form
  /\ ~armed /\ heard # issued => \E e \in asked : e.n = issued
  /\ ~armed /\ heard = issued /\ ~overtaken => estimate \in {None, Estimated(form)}

LEMMA GuessInit == Init => GuessInv
BY DEF Init, GuessInv

LEMMA GuessHear ==
  ASSUME Parts, GuessInv, NEW e \in asked, HearEstimate(e)
  PROVE  GuessInv'
<1>1. /\ \A f \in asked : f.n \in 1..issued
      /\ issued \in Nat /\ heard \in 0..issued
  BY DEF Parts, GuessOK
<1>2. /\ asked' = asked \ {e} /\ heard' = (IF e.n < heard THEN heard ELSE e.n)
      /\ overtaken' = (e.n < heard) /\ estimate' \in {Estimated(e.form), None}
      /\ UNCHANGED <<form, armed, issued>>
  BY DEF HearEstimate, formVars
<1>3. \A f \in asked' : f.n # heard'
  BY <1>1, <1>2 DEF GuessInv
<1>4. ASSUME ~armed, heard' # issued PROVE \E f \in asked' : f.n = issued
  <2>1. heard # issued
    BY <1>1, <1>2, <1>4
  <2>2. PICK f \in asked : f.n = issued
    BY <1>4, <2>1 DEF GuessInv
  <2>3. f # e
    BY <1>1, <1>2, <1>4, <2>2
  <2> QED
    BY <1>2, <2>2, <2>3
<1>5. ASSUME ~armed, heard' = issued, ~overtaken'
      PROVE  estimate' \in {None, Estimated(form)}
  <2>1. e.n = issued
    BY <1>1, <1>2, <1>5
  <2>2. e.form = form
    BY <1>5, <2>1 DEF GuessInv
  <2> QED
    BY <1>2, <2>2
<1>6. form' = form /\ armed' = armed /\ issued' = issued
  BY <1>2
<1>7. \A f, h \in asked' : f.n = h.n => f = h
  BY <1>2 DEF GuessInv
<1>8. ~armed => \A f \in asked' : f.n = issued => f.form = form
  BY <1>2 DEF GuessInv
<1> QED
  BY <1>3, <1>4, <1>5, <1>6, <1>7, <1>8 DEF GuessInv

LEMMA GuessNext == Parts /\ GuessInv /\ [Next]_vars => GuessInv'
<1> SUFFICES ASSUME Parts, GuessInv, [Next]_vars PROVE GuessInv'
  OBVIOUS
<1>1. CASE EditForm \/ ChangeType \/ \E j \in Job : RunAgain(j)
  <2>1. armed' = TRUE \/ UNCHANGED <<form, armed, estimate>>
    BY <1>1 DEF EditForm, ChangeType, RunAgain, SetForm
  <2>2. UNCHANGED <<asked, issued, heard, overtaken>>
    BY <1>1 DEF EditForm, ChangeType, RunAgain, guessVars
  <2> QED
    BY <2>1, <2>2 DEF GuessInv
<1>2. CASE AskEstimate
  <2>1. /\ \A e \in asked : e.n \in 1..issued
        /\ issued \in Nat /\ heard \in 0..issued
    BY DEF Parts, GuessOK
  <2> DEFINE new == [n |-> issued + 1, form |-> form]
  <2>2. asked' = asked \cup {new} /\ issued' = issued + 1 /\ UNCHANGED <<form, heard>>
    BY <1>2 DEF AskEstimate
  <2>3. new.n = issued + 1 /\ new.form = form
    OBVIOUS
  <2> HIDE DEF new
  <2>4. /\ \A e, f \in asked' : e.n = f.n => e = f
        /\ \A e \in asked' : e.n # heard'
        /\ \A e \in asked' : e.n = issued' => e.form = form'
        /\ \E e \in asked' : e.n = issued'
        /\ heard' # issued'
    BY <2>1, <2>2, <2>3 DEF GuessInv
  <2> QED
    BY <2>4 DEF GuessInv
<1>3. CASE \E e \in asked : HearEstimate(e)
  BY <1>3, GuessHear
<1>4. CASE \/ Toggle \/ Refetch \/ Poll
           \/ \E k \in List : ReadList(k) \/ ReceiveList(k) \/ LoseList(k)
           \/ Create \/ RefuseCreate \/ AnswerCreate \/ LoseCreate \/ HearCreate
           \/ \E j \in Job : \/ InsertJob(j) \/ Retry(j) \/ ResetJob(j)
                             \/ RefuseRetry(j) \/ AnswerRetry(j) \/ HearRetry(j)
                             \/ Process(j) \/ Disturb(j) \/ Abandon(j)
           \/ UNCHANGED vars
  <2>1. UNCHANGED <<formVars, guessVars>>
    BY <1>4 DEF Toggle, Refetch, Poll, ReadList, ReceiveList, LoseList, Create,
                RefuseCreate, AnswerCreate, LoseCreate, HearCreate, InsertJob, Retry,
                ResetJob, RefuseRetry, AnswerRetry, HearRetry, Process, Disturb, Abandon, vars
  <2> QED
    BY <2>1 DEF GuessInv, formVars, guessVars
<1> QED
  BY <1>1, <1>2, <1>3, <1>4 DEF Next, User, Lists, Mutations

(* At rest the page shows the estimate of its form or none, unless the last *)
(* answer was overtaken by a newer one (ExportCenterPage.tsx:94-108).       *)
THEOREM EstimatesFollowForm == Spec => []EstimateOfForm
<1>1. GuessInv => EstimateOfForm
  BY DEF GuessInv, EstimateOfForm
<1> QED
  BY <1>1, GuessInit, GuessNext, TypeInit, TypeNext, PTL DEF Spec

(* An estimate counts, and a file holds, the rows of the named days, the   *)
(* first and the last included, whatever filters were accepted: all of     *)
(* them, or as many as a file may have (dates.ts:35-63,                    *)
(* exports.service.ts:341-453).                                            *)
THEOREM DaysAreWhole == Spec => []OnlyNamedDays
<1>1. Parts => OnlyNamedDays
  <2> SUFFICES ASSUME Parts PROVE OnlyNamedDays
    OBVIOUS
  <2> SUFFICES ASSUME NEW f \in Form, Accepted(f), f.from.y >= 100,
                      f.to.y >= 100, f.type # "KPI_SUMMARY"
               PROVE  LET named == {r \in Row :
                                      /\ r.table = f.type /\ f.also \subseteq r.has
                                      /\ ~Before(r.date, f.from)
                                      /\ ~Before(f.to, r.date)}
                      IN /\ RowCount(f) = Cardinality(named)
                         /\ \A rows \in ExportedRows(f) :
                              rows \subseteq named
                                /\ (rows = named \/ Cardinality(rows) = MaxRows)
    <3>1. {e.form : e \in asked} \cup {job[j] : j \in {i \in Job : phase[i] = "ready"}}
            \subseteq Form
      <4>1. \A e \in asked : e.form \in Form
        BY DEF Parts, GuessOK
      <4>2. \A j \in Job : job[j] \in Form \cup {None} /\ (job[j] = None => phase[j] = "none")
        BY DEF Parts, JobsOK
      <4> QED
        BY <4>1, <4>2
    <3> QED
      BY <3>1 DEF OnlyNamedDays
  <2> DEFINE named == {r \in Row : /\ r.table = f.type /\ f.also \subseteq r.has
                                   /\ ~Before(r.date, f.from) /\ ~Before(f.to, r.date)}
  <2>1. InWindow(f, RangeOf(f)) = named
    BY WindowIsNamed
  <2> HIDE DEF named
  <2>2. RowCount(f) = Cardinality(named)
    BY <2>1 DEF RowCount
  <2>3. \A rows \in ExportedRows(f) :
          rows \subseteq named /\ (rows = named \/ Cardinality(rows) = MaxRows)
    BY <2>1 DEF ExportedRows
  <2> QED
    BY <2>2, <2>3 DEF named
<1> QED
  BY <1>1, TypeInit, TypeNext, PTL DEF Spec

(* News *)

\* What is read is not older than what was told; a request that such news crossed is
\* for a list that is stale.
NewsInv ==
  /\ \A j \in Job : told[j] <= Turn(j)
  /\ \A k \in List :
       /\ crossed[k] = "request" => stale[k]
       /\ data[k] # None /\ ~stale[k] /\ crossed[k] # "rows" =>
            \A j \in Mine : data[k][j].turn >= told[j]
       /\ fetch[k].copy # None /\ crossed[k] # "request" =>
            \A j \in Mine : fetch[k].copy[j].turn >= told[j]

LEMMA NewsInit == Init => NewsInv
<1> SUFFICES ASSUME Init PROVE NewsInv
  OBVIOUS
<1>1. \A j \in Job : told[j] <= Turn(j)
  BY CenterAssumption DEF Init, Turn
<1>2. \A k \in List : data[k] = None /\ crossed[k] = "no" /\ fetch[k].copy = None
  BY DEF Init, Asked, NoFetch
<1> QED
  BY <1>1, <1>2 DEF NewsInv

\* No row goes back.
LEMMA TurnsGrow ==
  ASSUME Parts, [Next]_vars, NEW j \in Job
  PROVE  Turn(j)' >= Turn(j) /\ Turn(j) \in Nat /\ Turn(j)' \in Nat
<1>1. Parts'
  BY TypeNext
<1>2. MaxRetries \in Nat
  BY CenterAssumption
<1>3. /\ tries[j] \in Nat /\ tries'[j] \in Nat
      /\ phase \in [Job -> Life!Phase \ {"overwritten"}]
      /\ tries \in [Job -> 0..MaxRetries]
  BY <1>1, <1>2 DEF Parts, JobsOK
<1>4. tries'[j] >= tries[j]
  <2>1. ASSUME NEW i \in Job, ResetJob(i) PROVE tries'[j] >= tries[j]
    BY <1>2, <1>3, <2>1 DEF ResetJob
  <2>2. CASE UNCHANGED tries
    BY <1>3, <2>2
  <2> QED
    BY <2>1, <2>2
    DEF Next, User, Lists, Mutations, EditForm, ChangeType, AskEstimate, HearEstimate,
        Toggle, Refetch, Poll, ReadList, ReceiveList, LoseList, Create, RefuseCreate,
        AnswerCreate, LoseCreate, HearCreate, InsertJob, Retry, RefuseRetry, AnswerRetry,
        HearRetry, RunAgain, Process, Disturb, Abandon, vars, jobVars
<1>5. phase[j] # "none" => phase'[j] # "none"
  <2>1. ASSUME NEW i \in Job,
               Life!Ask(i) \/ Life!Succeed(i) \/ Life!Fail(i) \/ Life!Retry(i)
                 \/ Life!Spoil(i) \/ Life!Forget(i)
        PROVE  phase[j] # "none" => phase'[j] # "none"
    BY <1>3, <2>1, LifeMoves
  <2>2. CASE UNCHANGED phase
    BY <2>2
  <2> QED
    BY <2>1, <2>2
    DEF Next, User, Lists, Mutations, EditForm, ChangeType, AskEstimate, HearEstimate,
        Toggle, Refetch, Poll, ReadList, ReceiveList, LoseList, Create, RefuseCreate,
        AnswerCreate, LoseCreate, HearCreate, InsertJob, Retry, ResetJob, RefuseRetry,
        AnswerRetry, HearRetry, RunAgain, Process, Disturb, Abandon, vars, jobVars
<1>6. /\ Turn(j) = (IF phase[j] = "none" THEN 0 ELSE tries[j] + 1)
      /\ Turn(j)' = (IF phase'[j] = "none" THEN 0 ELSE tries'[j] + 1)
  BY DEF Turn
<1> QED
  BY <1>3, <1>4, <1>5, <1>6

LEMMA TurnOfCopy ==
  ASSUME Parts
  PROVE  /\ \A j \in Job : told[j] \in Int
         /\ \A k \in List, j \in Job :
              /\ data[k] # None => data[k][j].turn \in Int
              /\ fetch[k].copy # None => fetch[k].copy[j].turn \in Int
<1>1. \A c \in Copy, j \in Job : c[j].turn \in Int
  BY CenterAssumption DEF Copy, Shown
<1>2. \A k \in List : data[k] \in Copy \cup {None} /\ fetch[k].copy \in Copy \cup {None}
  BY DEF Parts, ListsOK
<1>3. \A j \in Job : told[j] \in Int
  BY CenterAssumption DEF Parts, JobsOK
<1> QED
  BY <1>1, <1>2, <1>3

LEMMA NewsHear ==
  ASSUME Parts, NewsInv, HearCreate \/ \E j \in Job : HearRetry(j)
  PROVE  \A j \in Job : told'[j] <= Turn(j)
<1>1. \A j \in Job : told[j] <= Turn(j) /\ told[j] \in Int /\ Turn(j) \in Nat
  BY TurnOfCopy, TurnInRange, CenterAssumption DEF NewsInv
<1>2. CASE HearCreate /\ creating.stage = "done"
  <2>1. creating.as \in Job /\ phase[creating.as] # "none"
    BY <1>2 DEF Parts, MutationsOK, Requested
  <2>2. Turn(creating.as) >= 1
    BY <1>1, <2>1, TurnInRange
  <2>3. told' = [told EXCEPT ![creating.as] = IF @ > 1 THEN @ ELSE 1]
    BY <1>2 DEF HearCreate
  <2> QED
    BY <1>1, <2>1, <2>2, <2>3 DEF Parts, JobsOK
<1>3. ASSUME NEW i \in Job, HearRetry(i), retrying[i] = "done"
      PROVE  \A j \in Job : told'[j] <= Turn(j)
  BY <1>1, <1>3 DEF HearRetry, Parts, JobsOK
<1>4. CASE told' = told
  BY <1>1, <1>4
<1> QED
  BY <1>2, <1>3, <1>4 DEF HearCreate, HearRetry

LEMMA NewsOfMutations ==
  ASSUME Parts, NewsInv, [Next]_vars, HearCreate \/ \E j \in Job : HearRetry(j)
  PROVE  NewsInv'
<1>1. \A j \in Job : told'[j] <= Turn(j)'
  <2>1. \A j \in Job : told'[j] <= Turn(j)
    BY NewsHear
  <2>2. \A j \in Job : told'[j] \in Int
    <3>1. Parts'
      BY TypeNext
    <3> QED
      BY <3>1, CenterAssumption DEF Parts, JobsOK
  <2> QED
    BY <2>1, <2>2, TurnsGrow
<1>2. CASE Invalidate
  <2>1. \A k \in List : stale'[k]
    BY <1>2 DEF Invalidate
  <2>2. \A k \in List : fetch'[k].copy # None => crossed'[k] = "request"
    BY <1>2 DEF Invalidate, Asked, NoFetch
  <2> QED
    BY <1>1, <2>1, <2>2 DEF NewsInv
<1>3. CASE UNCHANGED <<stale, fetch, crossed, told>>
  <2>1. data' = data
    BY DEF HearCreate, HearRetry
  <2> QED
    BY <1>1, <1>3, <2>1 DEF NewsInv
<1> QED
  BY <1>2, <1>3 DEF HearCreate, HearRetry

LEMMA NewsOfRead ==
  ASSUME Parts, NewsInv, [Next]_vars, NEW k \in List, ReadList(k)
  PROVE  NewsInv'
<1>1. fetch \in [List -> [try : 0..2, copy : Copy \cup {None}]]
  BY DEF Parts, ListsOK
<1>2. Mine \subseteq Job
  BY CenterAssumption
<1>3. \A j \in Mine : fetch'[k].copy[j].turn = Turn(j)
  BY <1>1, <1>2 DEF ReadList
<1>4. \A i \in List \ {k} : fetch'[i] = fetch[i]
  BY <1>1 DEF ReadList
<1>5. \A j \in Job : Turn(j)' = Turn(j) /\ told'[j] <= Turn(j)'
  BY DEF ReadList, jobVars, Turn, NewsInv
<1>6. UNCHANGED <<data, stale, crossed, told>>
  BY DEF ReadList
<1>7. \A j \in Mine : fetch'[k].copy[j].turn >= told[j]
  BY <1>2, <1>3, TurnOfCopy, TurnInRange, CenterAssumption DEF NewsInv
<1> QED
  BY <1>4, <1>5, <1>6, <1>7 DEF NewsInv

LEMMA NewsOfAnswer ==
  ASSUME Parts, NewsInv, [Next]_vars, NEW k \in List, ReceiveList(k) \/ LoseList(k)
  PROVE  NewsInv'
<1>1. /\ fetch \in [List -> [try : 0..2, copy : Copy \cup {None}]]
      /\ data \in [List -> Copy \cup {None}] /\ stale \in [List -> BOOLEAN]
      /\ crossed \in [List -> {"no", "request", "rows"}]
  BY DEF Parts, ListsOK
<1>2. /\ \A j \in Job : Turn(j)' = Turn(j) /\ told'[j] <= Turn(j)'
      /\ told' = told
  BY DEF ReceiveList, LoseList, jobVars, Turn, NewsInv
<1>3. CASE ReceiveList(k)
  <2>1. \A i \in List \ {k} : /\ data'[i] = data[i] /\ stale'[i] = stale[i]
                              /\ crossed'[i] = crossed[i] /\ fetch'[i] = fetch[i]
    BY <1>1, <1>3 DEF ReceiveList
  <2>2. /\ data'[k] = fetch[k].copy /\ fetch'[k].copy = None /\ fetch[k].copy # None
        /\ crossed'[k] = (IF crossed[k] = "request" THEN "rows" ELSE "no")
    BY <1>1, <1>3 DEF ReceiveList, NoFetch
  <2> QED
    BY <1>2, <2>1, <2>2 DEF NewsInv
<1>4. CASE LoseList(k)
  <2>1. \A i \in List \ {k} : crossed'[i] = crossed[i] /\ fetch'[i] = fetch[i]
    BY <1>1, <1>4 DEF LoseList
  <2>2. /\ fetch'[k].copy = None /\ UNCHANGED <<data, stale>>
        /\ crossed'[k] = (IF crossed[k] = "request" THEN "no" ELSE crossed[k])
    BY <1>1, <1>4 DEF LoseList, NoFetch
  <2> QED
    BY <1>2, <2>1, <2>2 DEF NewsInv
<1> QED
  BY <1>3, <1>4

LEMMA NewsNext == Parts /\ NewsInv /\ [Next]_vars => NewsInv'
<1> SUFFICES ASSUME Parts, NewsInv, [Next]_vars PROVE NewsInv'
  OBVIOUS
<1>1. CASE HearCreate \/ \E j \in Job : HearRetry(j)
  BY <1>1, NewsOfMutations
<1>2. CASE \E k \in List : ReadList(k) \/ ReceiveList(k) \/ LoseList(k)
  BY <1>2, NewsOfRead, NewsOfAnswer
<1>3. ASSUME told' = told PROVE \A j \in Job : told'[j] <= Turn(j)'
  BY <1>3, TurnsGrow, TurnOfCopy DEF NewsInv
<1>4. CASE Toggle \/ Refetch \/ Poll
  <2>1. UNCHANGED <<data, stale, crossed, told>>
    BY <1>4 DEF Toggle, Refetch, Poll
  <2>2. \A k \in List : fetch'[k] = fetch[k] \/ fetch'[k].copy = None
    BY <1>4 DEF Toggle, Refetch, Poll, Asked, Parts, ListsOK
  <2> QED
    BY <1>3, <2>1, <2>2 DEF NewsInv
<1>5. CASE \/ EditForm \/ ChangeType \/ AskEstimate \/ \E e \in asked : HearEstimate(e)
           \/ Create \/ RefuseCreate \/ AnswerCreate \/ LoseCreate
           \/ \E j \in Job : \/ RunAgain(j) \/ InsertJob(j) \/ Retry(j) \/ ResetJob(j)
                             \/ RefuseRetry(j) \/ AnswerRetry(j)
                             \/ Process(j) \/ Disturb(j) \/ Abandon(j)
           \/ UNCHANGED vars
  <2>1. UNCHANGED <<listVars, told>>
    BY <1>5 DEF EditForm, ChangeType, AskEstimate, HearEstimate, Create, RefuseCreate,
                AnswerCreate, LoseCreate, RunAgain, InsertJob, Retry, ResetJob,
                RefuseRetry, AnswerRetry, Process, Disturb, Abandon, vars
  <2> QED
    BY <1>3, <2>1 DEF NewsInv, listVars
<1> QED
  BY <1>1, <1>2, <1>4, <1>5 DEF Next, User, Lists, Mutations

(* A list at rest is not older than what the page was told, unless its rows *)
(* came with a request that the news crossed                               *)
(* (ExportCenterPage.tsx:110-122).                                         *)
THEOREM ListsFollowNews == Spec => []ShownIsNews
<1>1. NewsInv => ShownIsNews
  BY DEF NewsInv, ShownIsNews
<1> QED
  BY <1>1, NewsInit, NewsNext, TypeInit, TypeNext, PTL DEF Spec

-----------------------------------------------------------------------------
(* The calendar, day by day *)

\* Induction over the natural numbers, as a fact about sets of them.
LEMMA Least ==
  ASSUME NEW T \in SUBSET Nat, T # {}
  PROVE  \E n \in T : \A m \in T : n <= m
<1>1. IsWellFoundedOn(OpToRel(<, Nat), Nat)
  BY NatLessThanWellFounded
<1>2. PICK n \in T : \A m \in T : ~(<<m, n>> \in OpToRel(<, Nat))
  BY <1>1, WFMin
<1>3. \A m \in T : <<m, n>> \in OpToRel(<, Nat) <=> m < n
  BY DEF OpToRel
<1>4. \A m \in T : ~(m < n)
  BY <1>2, <1>3, Zenon
<1>5. \A m \in T : n <= m
  BY <1>4
<1> QED
  BY <1>5

\* The lengths of the months, as DaysIn() has them.
MonthLengths(y) ==
  <<31, IF (y % 4 = 0 /\ y % 100 # 0) \/ y % 400 = 0 THEN 29 ELSE 28,
    31, 30, 31, 30, 31, 31, 30, 31, 30, 31>>

LEMMA DaysInAre ==
  ASSUME NEW y, NEW v
  PROVE  v \in DaysIn(y) <=> \E m \in 1..12 : \E d \in 1..MonthLengths(y)[m] :
                               v = [y |-> y, m |-> m, d |-> d]
  BY DEF DaysIn, MonthLengths

LEMMA LengthsAreNumbers ==
  ASSUME NEW y \in Int, NEW m \in 1..12
  PROVE  MonthLengths(y)[m] \in Nat /\ MonthLengths(y)[m] >= 28
  BY DEF MonthLengths

LEMMA YearLength ==
  ASSUME NEW y \in Int
  PROVE  /\ DayOfYear(y) \in Int
         /\ DayOfYear(y + 1) = DayOfYear(y) + 365 + IF IsLeap(y) THEN 1 ELSE 0
<1>1. (y + 1 - 1969) \div 4 = (y - 1969) \div 4 + IF y % 4 = 0 THEN 1 ELSE 0
  OBVIOUS
<1>2. (y + 1 - 1901) \div 100 = (y - 1901) \div 100 + IF y % 100 = 0 THEN 1 ELSE 0
  OBVIOUS
<1>3. (y + 1 - 1601) \div 400 = (y - 1601) \div 400 + IF y % 400 = 0 THEN 1 ELSE 0
  OBVIOUS
<1>4. (y % 100 = 0 => y % 4 = 0) /\ (y % 400 = 0 => y % 100 = 0)
  OBVIOUS
<1>5. /\ (y - 1969) \div 4 \in Int /\ (y - 1901) \div 100 \in Int
      /\ (y - 1601) \div 400 \in Int
  OBVIOUS
<1>6. DayOfYear(y) = 365 * (y - 1970) + (y - 1969) \div 4 - (y - 1901) \div 100
                     + (y - 1601) \div 400
  BY DEF DayOfYear
<1>7. DayOfYear(y + 1) = 365 * (y + 1 - 1970) + (y + 1 - 1969) \div 4
                         - (y + 1 - 1901) \div 100 + (y + 1 - 1601) \div 400
  BY DEF DayOfYear
<1> QED
  BY <1>1, <1>2, <1>3, <1>4, <1>5, <1>6, <1>7 DEF IsLeap

\* A month starts where the one before it ends, and is as long as the calendar says.
LEMMA MonthLength ==
  ASSUME NEW y \in Int, NEW m \in 1..12
  PROVE  /\ DayOfMonth(y, m) \in Int
         /\ DayOfMonth(y, m + 1) = DayOfMonth(y, m) + MonthLengths(y)[m]
<1> DEFINE leap == IF IsLeap(y) THEN 1 ELSE 0
<1>1. leap \in {0, 1}
  OBVIOUS
<1>2. \A k \in 1..12 : DayOfMonth(y, k) =
        DayOfYear(y) + DaysBefore[k] + IF k > 2 THEN leap ELSE 0
  BY DEF DayOfMonth
<1>3. DayOfMonth(y, 13) = DayOfYear(y) + 365 + leap /\ DayOfYear(y) \in Int
  BY YearLength DEF DayOfMonth
<1>4. MonthLengths(y) = <<31, 28 + leap, 31, 30, 31, 30, 31, 31, 30, 31, 30, 31>>
  BY DEF MonthLengths, IsLeap
<1>5. DaysBefore = <<0, 31, 59, 90, 120, 151, 181, 212, 243, 273, 304, 334>>
  BY DEF DaysBefore
<1> HIDE DEF leap
<1>6. CASE m = 12
  BY <1>1, <1>2, <1>3, <1>4, <1>5, <1>6
<1>7. CASE m \in 1..11
  <2>1. m + 1 \in 1..12 /\ m \in 1..12
    BY <1>7
  <2>2. DaysBefore[m] \in Int /\ DaysBefore[m + 1] \in Int
    BY <1>5, <2>1
  <2>3. DaysBefore[m + 1] + (IF m + 1 > 2 THEN leap ELSE 0)
          = DaysBefore[m] + (IF m > 2 THEN leap ELSE 0) + MonthLengths(y)[m]
    BY <1>1, <1>4, <1>5, <1>7
  <2>4. MonthLengths(y)[m] \in Int
    BY LengthsAreNumbers
  <2> QED
    BY <1>1, <1>2, <1>3, <2>1, <2>2, <2>3, <2>4
<1> QED
  BY <1>6, <1>7

\* The dates of the calendar from the year 100 on.
CalendarDate(v) == v.y \in Nat /\ v.y >= 100 /\ v \in DaysIn(v.y)

LEMMA DateFacts ==
  ASSUME NEW v, CalendarDate(v)
  PROVE  /\ v = [y |-> v.y, m |-> v.m, d |-> v.d]
         /\ v.y \in Nat /\ v.m \in 1..12 /\ v.d \in 1..MonthLengths(v.y)[v.m]
         /\ MonthLengths(v.y)[v.m] \in Nat /\ v.d \in Nat
         /\ DayOfMonth(v.y, v.m) \in Int /\ UtcDay(v) \in Int
         /\ UtcDay(v) = DayOfMonth(v.y, v.m) + v.d - 1
<1>1. PICK m \in 1..12 : \E d \in 1..MonthLengths(v.y)[m] :
         v = [y |-> v.y, m |-> m, d |-> d]
  BY DaysInAre DEF CalendarDate
<1>2. PICK d \in 1..MonthLengths(v.y)[m] : v = [y |-> v.y, m |-> m, d |-> d]
  BY <1>1
<1>3. v.m = m /\ v.d = d
  BY <1>2
<1>4. v.y \in Nat /\ v.y >= 100
  BY DEF CalendarDate
<1>5. MonthLengths(v.y)[m] \in Nat /\ DayOfMonth(v.y, m) \in Int
  <2>1. v.y \in Int
    BY <1>4
  <2> QED
    BY <2>1, LengthsAreNumbers, MonthLength
<1>6. FullYear(v.y) = v.y
  BY <1>4 DEF FullYear
<1>7. UtcDay(v) = DayOfMonth(v.y, m) + d - 1
  BY <1>3, <1>6 DEF UtcDay
<1> QED
  BY <1>1, <1>2, <1>3, <1>4, <1>5, <1>7

LEMMA CalendarIsReal ==
  ASSUME NEW v \in DateString, v.y >= 100
  PROVE  IsRealCalendarDate(v) <=> CalendarDate(v)
<1>1. /\ v = [y |-> v.y, m |-> v.m, d |-> v.d]
      /\ v.y \in Nat /\ v.m \in Nat /\ v.d \in Nat
  BY DEF DateString
<1>2. FullYear(v.y) = v.y
  BY <1>1 DEF FullYear
<1>3. ASSUME v.m \in 1..12
      PROVE  /\ LastDayOfMonth(v.y, v.m) = MonthLengths(v.y)[v.m]
             /\ MonthLengths(v.y)[v.m] \in Nat
  BY <1>1, <1>2, <1>3, MonthLength, LengthsAreNumbers DEF LastDayOfMonth
<1>4. ASSUME IsRealCalendarDate(v) PROVE CalendarDate(v)
  <2>1. v.m \in 1..12 /\ v.d \in 1..MonthLengths(v.y)[v.m]
    BY <1>1, <1>3, <1>4 DEF IsRealCalendarDate
  <2> QED
    BY <1>1, <2>1, DaysInAre DEF CalendarDate
<1>5. ASSUME CalendarDate(v) PROVE IsRealCalendarDate(v)
  <2>1. v.m \in 1..12 /\ v.d \in 1..MonthLengths(v.y)[v.m]
    BY <1>5, DateFacts
  <2> QED
    BY <1>1, <1>3, <2>1 DEF IsRealCalendarDate
<1> QED
  BY <1>4, <1>5

\* The next month starts on the first of a month.
LEMMA NextMonthStarts ==
  ASSUME NEW y \in Nat, y >= 100, NEW m \in 1..12
  PROVE  \E x : CalendarDate(x) /\ UtcDay(x) = DayOfMonth(y, m + 1)
<1>1. PICK z \in Nat, n \in 1..12 : z >= 100 /\ DayOfMonth(z, n) = DayOfMonth(y, m + 1)
  <2>1. CASE m = 12
    <3>1. DayOfMonth(y, 13) = DayOfYear(y + 1)
      BY DEF DayOfMonth
    <3>2. DayOfMonth(y + 1, 1) = DayOfYear(y + 1)
      BY YearLength DEF DayOfMonth, DaysBefore
    <3> QED
      BY <2>1, <3>1, <3>2
  <2>2. CASE m # 12
    BY <2>2
  <2> QED
    BY <2>1, <2>2
<1> DEFINE x == [y |-> z, m |-> n, d |-> 1]
<1>2. CalendarDate(x)
  <2>1. 1 \in 1..MonthLengths(z)[n]
    BY LengthsAreNumbers
  <2> QED
    BY <1>1, <2>1, DaysInAre DEF CalendarDate
<1>3. UtcDay(x) = DayOfMonth(z, n) + 1 - 1 /\ DayOfMonth(z, n) \in Int
  BY <1>2, DateFacts
<1> QED
  BY <1>1, <1>2, <1>3

\* Every date of the calendar is followed by another.
LEMMA NextDay ==
  ASSUME NEW v, CalendarDate(v)
  PROVE  \E x : CalendarDate(x) /\ UtcDay(x) = UtcDay(v) + 1
<1>1. PICK y \in Nat, m \in 1..12, d \in Nat :
         v.y = y /\ v.m = m /\ v.d = d /\ y >= 100
  BY DateFacts DEF CalendarDate
<1>2. /\ d \in 1..MonthLengths(y)[m] /\ MonthLengths(y)[m] \in Nat
      /\ DayOfMonth(y, m) \in Int /\ UtcDay(v) = DayOfMonth(y, m) + d - 1
  BY <1>1, DateFacts
<1>3. CASE d < MonthLengths(y)[m]
  <2> DEFINE x == [y |-> y, m |-> m, d |-> d + 1]
  <2>1. CalendarDate(x)
    <3>1. d + 1 \in 1..MonthLengths(y)[m]
      BY <1>2, <1>3
    <3> QED
      BY <1>1, <3>1, DaysInAre DEF CalendarDate
  <2>2. UtcDay(x) = DayOfMonth(y, m) + (d + 1) - 1
    BY <2>1, DateFacts
  <2>3. UtcDay(x) = UtcDay(v) + 1
    BY <1>2, <2>2
  <2> QED
    BY <2>1, <2>3
<1>4. CASE d = MonthLengths(y)[m]
  <2>1. DayOfMonth(y, m + 1) = DayOfMonth(y, m) + MonthLengths(y)[m]
    <3>1. y \in Int
      OBVIOUS
    <3> QED
      BY <3>1, MonthLength
  <2>2. DayOfMonth(y, m + 1) = UtcDay(v) + 1
    BY <1>2, <1>4, <2>1
  <2> QED
    BY <1>1, <2>2, NextMonthStarts
<1> QED
  BY <1>2, <1>3, <1>4

\* So no day is without its date.
LEMMA EveryDay ==
  ASSUME NEW v, CalendarDate(v), NEW n \in Nat
  PROVE  \E x : CalendarDate(x) /\ UtcDay(x) = UtcDay(v) + n
<1> DEFINE Missed == {k \in Nat : ~ \E x : CalendarDate(x) /\ UtcDay(x) = UtcDay(v) + k}
<1>1. UtcDay(v) \in Int
  BY DateFacts
<1>2. ASSUME Missed # {} PROVE FALSE
  <2>1. PICK k \in Missed : \A i \in Missed : k <= i
    BY <1>2, Least
  <2>2. k \in Nat /\ ~ \E x : CalendarDate(x) /\ UtcDay(x) = UtcDay(v) + k
    BY <2>1
  <2>3. k # 0
    BY <1>1, <2>2
  <2>4. k - 1 \in Nat /\ ~(k <= k - 1)
    BY <2>2, <2>3
  <2>5. k - 1 \notin Missed
    BY <2>1, <2>4
  <2>6. PICK x : CalendarDate(x) /\ UtcDay(x) = UtcDay(v) + (k - 1)
    BY <2>4, <2>5
  <2>7. PICK z : CalendarDate(z) /\ UtcDay(z) = UtcDay(x) + 1
    BY <2>6, NextDay
  <2>8. UtcDay(z) = UtcDay(v) + k
    BY <1>1, <2>2, <2>6, <2>7
  <2> QED
    BY <2>2, <2>7, <2>8
<1> QED
  BY <1>2

LEMMA EarlierDay ==
  ASSUME NEW v, CalendarDate(v), NEW w, CalendarDate(w), Before(v, w)
  PROVE  UtcDay(v) < UtcDay(w)
<1>1. PICK y \in Nat, m \in 1..12, d \in Nat : y = v.y /\ m = v.m /\ d = v.d
  BY DateFacts
<1>2. PICK z \in Nat, n \in 1..12, e \in Nat : z = w.y /\ n = w.m /\ e = w.d
  BY DateFacts
<1>3. /\ d \in 1..MonthLengths(y)[m] /\ MonthLengths(y)[m] \in Nat
      /\ DayOfMonth(y, m) \in Int /\ UtcDay(v) = DayOfMonth(y, m) + d - 1
  BY <1>1, DateFacts
<1>4. e >= 1 /\ DayOfMonth(z, n) \in Int /\ UtcDay(w) = DayOfMonth(z, n) + e - 1
  BY <1>2, DateFacts
<1>5. DayOfMonth(y, m + 1) = DayOfMonth(y, m) + MonthLengths(y)[m]
  <2>1. y \in Int
    OBVIOUS
  <2> QED
    BY <2>1, MonthLength
<1>6. y < z \/ (y = z /\ m < n) => DayOfMonth(y, m + 1) <= DayOfMonth(z, n)
  BY LaterYear, LaterMonth
<1>7. CASE y < z \/ (y = z /\ m < n)
  BY <1>3, <1>4, <1>5, <1>6, <1>7
<1>8. CASE y = z /\ m = n /\ d < e
  BY <1>3, <1>4, <1>8
<1> QED
  BY <1>1, <1>2, <1>7, <1>8 DEF Before

\* The order of the dates is that of their days, and no two have the same.
LEMMA OrderOfDays ==
  ASSUME NEW v, CalendarDate(v), NEW w, CalendarDate(w)
  PROVE  /\ Before(v, w) <=> UtcDay(v) < UtcDay(w)
         /\ UtcDay(v) = UtcDay(w) => v = w
<1>1. /\ v = [y |-> v.y, m |-> v.m, d |-> v.d] /\ v.y \in Nat /\ v.m \in Nat /\ v.d \in Nat
      /\ w = [y |-> w.y, m |-> w.m, d |-> w.d] /\ w.y \in Nat /\ w.m \in Nat /\ w.d \in Nat
      /\ UtcDay(v) \in Int /\ UtcDay(w) \in Int
  BY DateFacts
<1>2. Before(v, w) \/ Before(w, v) \/ (v.y = w.y /\ v.m = w.m /\ v.d = w.d)
  BY <1>1 DEF Before
<1>3. Before(v, w) \/ Before(w, v) \/ v = w
  BY <1>1, <1>2
<1>4. Before(v, w) => UtcDay(v) < UtcDay(w)
  BY EarlierDay
<1>5. Before(w, v) => UtcDay(w) < UtcDay(v)
  BY EarlierDay
<1> QED
  BY <1>1, <1>3, <1>4, <1>5

\* The dates between two are as many as the difference of their days.
LEMMA DaysBetween ==
  ASSUME NEW v, CalendarDate(v), NEW w, CalendarDate(w), ~Before(w, v)
  PROVE  Cardinality(DaysUpTo(v, w)) = UtcDay(w) - UtcDay(v)
<1> DEFINE days == DaysUpTo(v, w)
           a == UtcDay(v)
           b == UtcDay(w)
           g == [x \in days |-> UtcDay(x)]
<1>1. a \in Int /\ b \in Int /\ a <= b
  BY DateFacts, OrderOfDays
<1>2. v.y \in Nat /\ w.y \in Nat /\ v.y >= 100
  BY DateFacts DEF CalendarDate
<1>3. \A x : x \in days <=> CalendarDate(x) /\ Before(v, x) /\ ~Before(w, x)
  <2> TAKE x
  <2>1. ASSUME x \in days PROVE CalendarDate(x) /\ Before(v, x) /\ ~Before(w, x)
    <3>1. PICK y \in v.y..w.y : x \in DaysIn(y)
      BY <2>1 DEF DaysUpTo
    <3>2. x.y = y
      BY <3>1, DaysInAre
    <3> QED
      BY <1>2, <2>1, <3>1, <3>2 DEF DaysUpTo, CalendarDate
  <2>2. ASSUME CalendarDate(x), Before(v, x), ~Before(w, x) PROVE x \in days
    <3>1. x.y \in Nat /\ x \in DaysIn(x.y)
      BY <2>2 DEF CalendarDate
    <3>2. v.y <= x.y /\ x.y <= w.y
      BY <1>2, <2>2, <3>1 DEF Before
    <3>3. x.y \in v.y..w.y
      BY <1>2, <3>1, <3>2
    <3> QED
      BY <2>2, <3>1, <3>3 DEF DaysUpTo
  <2> QED
    BY <2>1, <2>2
<1>4. \A x : CalendarDate(x) => (x \in days <=> UtcDay(x) \in (a + 1)..b)
  <2> SUFFICES ASSUME NEW x, CalendarDate(x)
               PROVE  x \in days <=> UtcDay(x) \in (a + 1)..b
    OBVIOUS
  <2>1. x \in days <=> Before(v, x) /\ ~Before(w, x)
    BY <1>3
  <2>2. (Before(v, x) <=> a < UtcDay(x)) /\ (Before(w, x) <=> b < UtcDay(x))
    BY OrderOfDays
  <2>3. UtcDay(x) \in Int
    BY DateFacts
  <2> QED
    BY <1>1, <2>1, <2>2, <2>3
<1> HIDE DEF days, a, b
<1>5. g \in Injection(days, (a + 1)..b)
  <2>1. \A x \in days : UtcDay(x) \in (a + 1)..b
    BY <1>3, <1>4
  <2>2. \A x, z \in days : UtcDay(x) = UtcDay(z) => x = z
    BY <1>3, OrderOfDays
  <2> QED
    BY <2>1, <2>2 DEF Injection, IsInjective
<1>6. g \in Surjection(days, (a + 1)..b)
  <2>1. ASSUME NEW t \in (a + 1)..b PROVE \E x \in days : UtcDay(x) = t
    <3>1. t - a \in Nat /\ a + (t - a) = t
      BY <1>1
    <3>2. PICK x : CalendarDate(x) /\ UtcDay(x) = a + (t - a)
      BY <3>1, EveryDay DEF a
    <3>3. UtcDay(x) = t
      BY <3>1, <3>2
    <3> QED
      BY <1>4, <3>2, <3>3
  <2> QED
    BY <1>5, <2>1 DEF Injection, Surjection
<1>7. IsFiniteSet((a + 1)..b) /\ Cardinality((a + 1)..b) = b - a
  <2>1. a + 1 \in Int /\ (a + 1 > b => b - a = 0) /\ b - (a + 1) + 1 = b - a
    BY <1>1
  <2> QED
    BY <1>1, <2>1, FS_Interval
<1>8. Cardinality(days) = Cardinality((a + 1)..b)
  BY <1>5, <1>6, <1>7, FS_Injection
<1> QED
  BY <1>7, <1>8 DEF days, a, b

(* Whatever dates are sent, the ranges in the calendar, in order and of at *)
(* most maxRangeDays days, counted day by day, are accepted and no others  *)
(* (dates.ts:35-63).                                                       *)
THEOREM LimitsAreExact == Spec => []LimitIsExact
<1>1. Parts => LimitIsExact
  <2> SUFFICES ASSUME form \in Form, form.to \in Modern \cup {Blank}, NEW v \in Modern
               PROVE  ParseDateRange(v, form.to, MaxRangeDays) # Refused
                        <=> \E s \in Spans : /\ s[1] = v /\ s[2] = form.to
                                             /\ ~Before(s[2], s[1])
                                             /\ s[3] <= MaxRangeDays
    BY DEF LimitIsExact, Parts, FormOK
  <2>1. CASE form.to = Blank
    <3>1. ParseDateRange(v, form.to, MaxRangeDays) = Refused
      BY <2>1 DEF ParseDateRange, ParseBoundary
    <3>2. \A s \in Spans : s[2] \in Date
      BY DEF Spans, Modern
    <3> QED
      BY <2>1, <3>1, <3>2, CenterAssumption
  <2>2. CASE form.to \in Modern
    <3>1. PICK w \in Modern : w = form.to
      BY <2>2
    <3>2. /\ v \in DateString /\ v # Blank /\ v \notin Instant /\ v.y >= 100
          /\ w \in DateString /\ w # Blank /\ w \notin Instant /\ w.y >= 100
      BY DatesAreNoInstants DEF Modern
    <3>3. ParseDateRange(v, w, MaxRangeDays) # Refused
            <=> /\ IsRealCalendarDate(v) /\ IsRealCalendarDate(w)
                /\ UtcDay(v) <= UtcDay(w) /\ UtcDay(w) - UtcDay(v) <= MaxRangeDays
      <4>1. \A x : x \in [startDate : Int, endDate : Int] => x # Refused
        BY CenterAssumption
      <4> QED
        BY <3>2, <4>1, CenterAssumption, RangesAreWholeDays
    <3>4. /\ IsRealCalendarDate(v) <=> CalendarDate(v)
          /\ IsRealCalendarDate(w) <=> CalendarDate(w)
      BY <3>2, CalendarIsReal
    <3>5. \A x \in Modern : x \in DaysIn(x.y) <=> CalendarDate(x)
      <4>1. \A x \in Modern : x.y \in Nat /\ x.y >= 100
        BY DatesAreNoInstants DEF Modern, DateString
      <4> QED
        BY <4>1 DEF CalendarDate
    <3>6. (\E s \in Spans : /\ s[1] = v /\ s[2] = w /\ ~Before(s[2], s[1])
                            /\ s[3] <= MaxRangeDays)
            <=> /\ CalendarDate(v) /\ CalendarDate(w) /\ ~Before(w, v)
                /\ Cardinality(DaysUpTo(v, w)) <= MaxRangeDays
      <4>1. \A s : s \in Spans <=>
              \E x, z \in {u \in Modern : u \in DaysIn(u.y)} :
                s = <<x, z, Cardinality(DaysUpTo(x, z))>>
        BY DEF Spans
      <4>2. ASSUME NEW s \in Spans, s[1] = v, s[2] = w, ~Before(s[2], s[1]),
                   s[3] <= MaxRangeDays
            PROVE  /\ CalendarDate(v) /\ CalendarDate(w) /\ ~Before(w, v)
                   /\ Cardinality(DaysUpTo(v, w)) <= MaxRangeDays
        <5>1. PICK x, z \in {u \in Modern : u \in DaysIn(u.y)} :
                 s = <<x, z, Cardinality(DaysUpTo(x, z))>>
          BY <4>1
        <5> QED
          BY <3>5, <4>2, <5>1
      <4>3. ASSUME CalendarDate(v), CalendarDate(w), ~Before(w, v),
                   Cardinality(DaysUpTo(v, w)) <= MaxRangeDays
            PROVE  \E s \in Spans : /\ s[1] = v /\ s[2] = w /\ ~Before(s[2], s[1])
                                    /\ s[3] <= MaxRangeDays
        <5>1. <<v, w, Cardinality(DaysUpTo(v, w))>> \in Spans
          BY <3>5, <4>1, <4>3
        <5> QED
          BY <4>3, <5>1
      <4> QED
        BY <4>2, <4>3
    <3>7. ASSUME CalendarDate(v), CalendarDate(w)
          PROVE  /\ ~Before(w, v) <=> UtcDay(v) <= UtcDay(w)
                 /\ ~Before(w, v) =>
                      Cardinality(DaysUpTo(v, w)) = UtcDay(w) - UtcDay(v)
      BY <3>7, DateFacts, OrderOfDays, DaysBetween
    <3> QED
      BY <3>1, <3>3, <3>4, <3>6, <3>7
  <2> QED
    BY <2>1, <2>2
<1> QED
  BY <1>1, TypeInit, TypeNext, PTL DEF Spec
=============================================================================
