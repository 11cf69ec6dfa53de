------------------------------- MODULE Date --------------------------------
(***************************************************************************)
(* system/time/date: a calendar date in an int16_t year, a uint8_t month   *)
(* and a uint8_t day.  The setters and the arithmetic work on the three    *)
(* fields; AddDays and DaysTo walk over years, then months, then days.     *)
(***************************************************************************)
EXTENDS Integers

CONSTANTS
  Years,      \* the years of a constructed date, and the arguments of SetYear
  StartDays,  \* and its days of the month
  Months,     \* the arguments of SetMonth and AddMonths
  Days,       \* the arguments of SetDay, AddDays, += and -=
  MaxCalls    \* how many calls change the date of a behaviour

VARIABLES
  date,       \* [year |-> m_year, month |-> m_month, day |-> m_day]
  calls       \* how often it has been changed

vars == <<date, calls>>

Year16(n) == ((n + 32768) % 65536) - 32768
Byte(n) == n % 256

kDaysInMonth == <<31, 28, 31, 30, 31, 30, 31, 31, 30, 31, 30, 31>>

IsLeapYearJulian(year) == year % 4 = 0
IsLeapYear(year) == (year % 4 = 0 /\ year % 100 # 0) \/ year % 400 = 0

LeapDay(year) == IF IsLeapYear(year) THEN 1 ELSE 0

DaysInMonth(year, month) ==
  kDaysInMonth[month] + (IF month = 2 THEN LeapDay(year) ELSE 0)

DaysInPreviousMonth(year, month) ==
  IF month > 1 THEN DaysInMonth(year, month - 1) ELSE DaysInMonth(year - 1, 12)

DaysInNextMonth(year, month) ==
  IF month < 12 THEN DaysInMonth(year, month + 1) ELSE DaysInMonth(year + 1, 1)

IsValid(year, month, day) ==
  /\ month \in 1 .. 12
  /\ day \in 1 .. DaysInMonth(year, month)

Compare(lhs, rhs) ==
  LET Sign(l, r) == IF l > r THEN 1 ELSE IF l < r THEN -1 ELSE 0
  IN CASE lhs.year # rhs.year   -> Sign(lhs.year, rhs.year)
       [] lhs.month # rhs.month -> Sign(lhs.month, rhs.month)
       [] OTHER                 -> Sign(lhs.day, rhs.day)

\* Only a day of February is brought back into its month.
AdjustMonthLimit(d) ==
  IF d.month = 2 /\ d.day > DaysInMonth(d.year, 2)
  THEN [d EXCEPT !.day = DaysInMonth(d.year, 2)]
  ELSE d

AddYears(d, years) == AdjustMonthLimit([d EXCEPT !.year = Year16(@ + years)])

\* The months are added in the byte m_month; what falls below 1 is noticed only
\* when it is 0, since a byte is never negative.
AddMonths(d, months) ==
  IF months = 0 THEN d
  ELSE IF months > 0
  THEN LET m == Byte(d.month + (months % 12))
           carry == IF m > 12 THEN 1 ELSE 0
       IN AdjustMonthLimit([d EXCEPT !.year = Year16(@ + (months \div 12) + carry),
                                     !.month = m - 12 * carry])
  ELSE LET m == Byte(d.month - ((-months) % 12))
           carry == IF m < 1 THEN 1 ELSE 0
       IN AdjustMonthLimit([d EXCEPT !.year = Year16(@ - ((-months) \div 12) - carry),
                                     !.month = m + 12 * carry])

NextYear(d) == AddYears(d, 1)
NextMonth(d) == AddMonths(d, 1)

DaysToNextYear(d) ==
  365 + LeapDay(IF d.month > 2 \/ (d.month = 2 /\ d.day > 28) THEN d.year + 1 ELSE d.year)

DaysToNextMonth(d) ==
  LET this_month_days == DaysInMonth(d.year, d.month)
      next_month_days == DaysInNextMonth(d.year, d.month)
  IN IF d.day <= next_month_days THEN this_month_days
     ELSE next_month_days + this_month_days - d.day

DaysToPreviousYear(d) ==
  365 + LeapDay(IF d.month < 2 \/ (d.month = 2 /\ d.day < 28) THEN d.year - 1 ELSE d.year)

DaysToPreviousMonth(d) ==
  LET prev_month_days == DaysInPreviousMonth(d.year, d.month)
  IN IF d.day > prev_month_days THEN d.day ELSE prev_month_days

Increment(d) ==
  IF Byte(d.day + 1) <= DaysInMonth(d.year, d.month) THEN [d EXCEPT !.day = Byte(@ + 1)]
  ELSE IF d.month < 12 THEN [d EXCEPT !.day = 1, !.month = @ + 1]
  ELSE [year |-> Year16(d.year + 1), month |-> 1, day |-> 1]

Decrement(d) ==
  LET Last(year, month) == [year |-> year, month |-> month, day |-> DaysInMonth(year, month)]
  IN IF d.day # 1 THEN [d EXCEPT !.day = Byte(@ - 1)]
     ELSE IF d.month # 1 THEN Last(d.year, d.month - 1)
     ELSE Last(Year16(d.year - 1), 12)

-----------------------------------------------------------------------------
\* A stride of the loops of AddDays and DaysTo: where it leads, and how many days
\* the code takes it for.
Step(stride, d) ==
  CASE stride = "year"       -> NextYear(d)
    [] stride = "month"      -> NextMonth(d)
    [] stride = "day"        -> Increment(d)
    [] stride = "year back"  -> AddYears(d, -1)
    [] stride = "month back" -> AddMonths(d, -1)

Length(stride, d) ==
  CASE stride = "year"       -> DaysToNextYear(d)
    [] stride = "month"      -> DaysToNextMonth(d)
    [] stride = "day"        -> 1
    [] stride = "year back"  -> DaysToPreviousYear(d)
    [] stride = "month back" -> DaysToPreviousMonth(d)

\* The loops of AddDays: strides while the days left cover one.
RECURSIVE Walk(_, _, _)
Walk(stride, d, days) ==
  IF days < Length(stride, d) THEN [date |-> d, days |-> days]
  ELSE Walk(stride, Step(stride, d), days - Length(stride, d))

Forward(d, days) ==
  LET y == Walk("year", d, days)
      m == Walk("month", y.date, y.days)
      day == Byte(m.date.day + m.days)
      days_in_month == DaysInMonth(m.date.year, m.date.month)
  IN IF day > days_in_month
     THEN AddMonths([m.date EXCEPT !.day = Byte(day - days_in_month)], 1)
     ELSE [m.date EXCEPT !.day = day]

Backward(d, days) ==
  LET y == Walk("year back", d, days)
      m == Walk("month back", y.date, y.days)
      day == Byte(m.date.day - m.days)
  IN IF day < 1
     THEN AddMonths([m.date EXCEPT !.day = DaysInPreviousMonth(m.date.year, m.date.month)], -1)
     ELSE [m.date EXCEPT !.day = day]

AddDays(d, days) ==
  CASE days = 0 -> d [] days > 0 -> Forward(d, days) [] OTHER -> Backward(d, -days)

\* The loops of DaysTo: strides while one does not pass `to'.
RECURSIVE Reach(_, _, _)
Reach(stride, from, to) ==
  IF Compare(Step(stride, from.date), to) > 0 THEN from
  ELSE Reach(stride, [date |-> Step(stride, from.date),
                      days |-> from.days + Length(stride, from.date)], to)

DaysTo(d, to) ==
  LET Total(from, last) ==
        Reach("day", Reach("month", Reach("year", [date |-> from, days |-> 0], last), last), last).days
  IN IF Compare(to, d) < 0 THEN Total(to, d) ELSE Total(d, to)

-----------------------------------------------------------------------------
Dates == {d \in [year: Years, month: 1 .. 12, day: StartDays]: IsValid(d.year, d.month, d.day)}

Init == date \in Dates /\ calls = 0

Changed(d) == /\ calls < MaxCalls
              /\ date' = d
              /\ calls' = calls + 1

SetYear == \E year \in Years: Changed(AdjustMonthLimit([date EXCEPT !.year = Year16(year)]))

\* The month is compared with the one the date has, not with 12.
SetMonth == \E month \in Months:
  /\ month > 0
  /\ ~(date.month > 12)
  /\ Changed(AdjustMonthLimit([date EXCEPT !.month = Byte(month)]))

SetDay == \E day \in Days:
  /\ day \in 1 .. 31
  /\ day <= DaysInMonth(date.year, date.month)
  /\ Changed([date EXCEPT !.day = day])

AddSomeYears == \E years \in {-1, 1}: Changed(AddYears(date, years))
AddSomeMonths == \E months \in Months: Changed(AddMonths(date, months))
AddSomeDays == \E days \in Days: Changed(AddDays(date, days))

\* A date with another month is left as it is: to compute with it would read
\* kDaysInMonth past its end.
Next == /\ date.month \in 1 .. 12
        /\ \/ SetYear \/ SetMonth \/ SetDay
           \/ AddSomeYears \/ AddSomeMonths \/ AddSomeDays

Spec == Init /\ [][Next]_vars

-----------------------------------------------------------------------------
\* What the calendar says: the number of days from 1 January of year 1.
DayNumber(d) ==
  LET before == d.year - 1
      Gone[m \in 0 .. 12] == IF m = 0 THEN 0 ELSE Gone[m - 1] + kDaysInMonth[m]
      leap == IF d.month > 2 /\ (d.year % 4 = 0 /\ (d.year % 100 # 0 \/ d.year % 400 = 0)) THEN 1 ELSE 0
  IN 365 * before + (before \div 4) - (before \div 100) + (before \div 400)
     + Gone[d.month - 1] + leap + d.day

Marks == [year: date.year - 1 .. date.year + 1, month: {1, 2, 12}, day: {1, 28}]

\* The arithmetic is that of the calendar where the fields can follow it.  From a
\* valid date ++, -- and AddDays of one day lead to the neighbouring days.  From a
\* day that every month has, AddDays leads to any later date and DaysTo counts the
\* days to any other; AddDays leads back to an earlier date that is no later in its
\* month, the only ones its byte can hold (28 February apart, whose previous year
\* DaysToPreviousYear measures wrongly).  Compare orders dates as the calendar does.
DatesAreDays ==
  IsValid(date.year, date.month, date.day) =>
    /\ DayNumber(Increment(date)) = DayNumber(date) + 1
    /\ DayNumber(Decrement(date)) = DayNumber(date) - 1
    /\ AddDays(date, 1) = Increment(date) /\ AddDays(date, -1) = Decrement(date)
    /\ date.day <= 28 =>
         \A to \in Marks: \A days \in {DayNumber(to) - DayNumber(date)}:
           /\ Compare(date, to) < 0 <=> days > 0
           /\ DaysTo(date, to) = IF days < 0 THEN -days ELSE days
           /\ days > 0 => AddDays(date, days) = to
           /\ (days < 0 /\ to.day <= date.day /\ <<date.month, date.day>> # <<2, 28>>)
                => AddDays(date, days) = to

\* What date.h says of AdjustMonthLimit, "Adjust day if overflow for month": a valid
\* date is still one after a month has been added.
DatesStayValid == IsValid(date.year, date.month, date.day)
=============================================================================
