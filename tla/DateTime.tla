------------------------------ MODULE DateTime ------------------------------
(***************************************************************************)
(* bela::DateTime (belatime/datetime.cc, include/bela/datetime.hpp) and    *)
(* the dates of DOS (belatime/dos.cc).  The day is scaled down to 2 hours  *)
(* of 2 minutes of 4 seconds, so that the seconds of centuries fit the     *)
(* integers of the model checker; days, months and years are as they are.  *)
(* The bound on the year of MakeDateTime is out of their range.            *)
(***************************************************************************)
EXTENDS Integers, Sequences

PerMinute == 4
PerHour == 2 * PerMinute
PerDay == 2 * PerHour

DaysPer400 == 365 * 400 + 97
DaysPer100 == 365 * 100 + 24
DaysPer4 == 365 * 4 + 1
IsLeapYear(y) == y % 4 = 0 /\ (y % 100 # 0 \/ y % 400 = 0)
Months == <<31, 28, 31, 30, 31, 30, 31, 31, 30, 31, 30, 31>>
LeapMonths == [Months EXCEPT ![2] = 29]
MonthDays(y, mon) == IF IsLeapYear(y) THEN LeapMonths[mon] ELSE Months[mon]

\* The days of the months before mon.
Before[mon \in 1 .. 12] == IF mon = 1 THEN 0 ELSE Before[mon - 1] + Months[mon - 1]
UnixEpochDays == 1969 * 365 + 1969 \div 4 - 1969 \div 100 + 1969 \div 400
YearDays(y) == (y - 1) * 365 + (y - 1) \div 4 - (y - 1) \div 100 + (y - 1) \div 400

DaysSinceEpoch(y, mon, d) ==
  IF d \notin 1 .. MonthDays(y, mon) THEN 0
  ELSE YearDays(y) - UnixEpochDays + Before[mon] + (IF mon > 2 /\ IsLeapYear(y) THEN 1 ELSE 0) + d - 1
GetWeekday(y, mon, d) == (DaysSinceEpoch(y, mon, d) + 4) % 7

\* Slip: the last day of a cycle begins one cycle more than there are.
WholePlain(days, size, most) == days \div size

\* The whole cycles in the days: at most most, the last one has a day more.
Whole(days, size, most) == IF days \div size = most + 1 THEN most ELSE days \div size

\* Years are counted from 2000-03-01, a Wednesday, just behind a leap day.
LeapEpoch == 30 * 365 + 7 + 31 + 29
DaysInMonth == <<31, 30, 31, 30, 31, 31, 30, 31, 30, 31, 31, 29>>
Past[m \in 0 .. 12] == IF m = 0 THEN 0 ELSE Past[m - 1] + DaysInMonth[m]
MakeDateTime(second) ==
  LET days  == (second - LeapEpoch * PerDay) \div PerDay
      secs  == (second - LeapEpoch * PerDay) % PerDay
      qc    == days \div DaysPer400
      rem0  == days % DaysPer400
      c     == Whole(rem0, DaysPer100, 3)
      rem1  == rem0 - c * DaysPer100
      q     == Whole(rem1, DaysPer4, 24)
      rem2  == rem1 - q * DaysPer4
      y     == Whole(rem2, 365, 3)
      rem3  == rem2 - y * 365
      month == CHOOSE m \in 0 .. 11 : Past[m] <= rem3 /\ rem3 < Past[m + 1]
      next  == month >= 10
  IN  [year |-> 2000 + y + 4 * q + 100 * c + 400 * qc + (IF next THEN 1 ELSE 0),
       month |-> month + 3 - (IF next THEN 12 ELSE 0), day |-> rem3 - Past[month] + 1, wday |-> (3 + days) % 7,
       hour |-> secs \div PerHour, minute |-> (secs % PerHour) \div PerMinute, second |-> secs % PerMinute]

\* The time zone is what is subtracted to get from universal to local time.
LocalDateTime(t, tz) == MakeDateTime(t - tz)
Time(dt, tz) ==
  IF dt.second \notin 0 .. 3 \/ dt.minute \notin 0 .. 1 \/ dt.hour \notin 0 .. 1 \/ dt.month \notin 1 .. 12 \/ dt.year < 1970
  THEN 0
  ELSE DaysSinceEpoch(dt.year, dt.month, dt.day) * PerDay + dt.hour * PerHour + dt.minute * PerMinute + dt.second + tz

\* Windows counts days from 1601.
WindowsEpochDays == 1600 * 365 + 1600 \div 4 - 1600 \div 100 + 1600 \div 400
UnixEpochStart == (369 * 365 + 89) * PerDay
DosSeconds(dt) ==
  LET days == YearDays(dt.year) - WindowsEpochDays + Before[dt.month]
              + (IF dt.month > 2 /\ IsLeapYear(dt.year) THEN 1 ELSE 0) + dt.day - 1
  IN  IF dt.second \notin 0 .. 3 \/ dt.minute \notin 0 .. 1 \/ dt.hour \notin 0 .. 1 \/ dt.month \notin 1 .. 12
         \/ dt.day \notin 1 .. MonthDays(dt.year, dt.month) THEN 0
      ELSE days * PerDay + dt.hour * PerHour + dt.minute * PerMinute + dt.second - UnixEpochStart

\* DOS packs a date and a time in a word each: the years from 1980 in 7 bits, months in
\* 4, days in 5; minutes and, counted in twos, seconds have 2 bits here, 6 and 5 there.
DosDate(dt) == (dt.year - 1980) * 2^9 + dt.month * 2^5 + dt.day
DosTime(dt) == dt.hour * 2^4 + dt.minute * 2^2 + dt.second \div 2
FromDosDateTime(dosDate, dosTime) ==
  DosSeconds([year |-> dosDate \div 2^9 + 1980, month |-> (dosDate \div 2^5) % 2^4, day |-> dosDate % 2^5,
              hour |-> dosTime \div 2^4, minute |-> (dosTime \div 2^2) % 2^2, second |-> 2 * (dosTime % 2^2)])

-----------------------------------------------------------------------------
(* The calendar, as one day follows another.                               *)
NextDay(dt) ==
  LET last == dt.day = MonthDays(dt.year, dt.month)
  IN  [dt EXCEPT !.day = IF last THEN 1 ELSE @ + 1,
                 !.month = IF ~last THEN @ ELSE IF @ = 12 THEN 1 ELSE @ + 1,
                 !.year = IF last /\ dt.month = 12 THEN @ + 1 ELSE @,
                 !.wday = (@ + 1) % 7]

Epoch == [year |-> 1970, month |-> 1, day |-> 1, wday |-> 4, hour |-> 0, minute |-> 0, second |-> 0]

\* Dates follow each other as in the calendar, whatever the time of the day; every
\* one from 1970 on gives back the time it is of; days behind the end of a month
\* are taken for the first of all days.
FollowsTheCalendar(days) ==
  /\ MakeDateTime(0) = Epoch
  /\ \A n \in days : \A s \in {0, PerDay - 1} :
       LET t  == n * PerDay + s
           tz == IF s = 0 THEN 5 ELSE -PerHour
           dt == LocalDateTime(t, tz)
           over == [dt EXCEPT !.day = MonthDays(dt.year, dt.month) + 1]
       IN  /\ LocalDateTime(t + PerDay, tz) = NextDay(dt)
           /\ Time(dt, tz) = IF dt.year < 1970 THEN 0 ELSE t
           /\ GetWeekday(dt.year, dt.month, dt.day) = dt.wday
           /\ dt.hour * PerHour + dt.minute * PerMinute + dt.second = (t - tz) % PerDay
           /\ dt.year \in 1980 .. 2107 => FromDosDateTime(DosDate(dt), DosTime(dt)) + tz = t - (dt.second % 2)
           /\ DosSeconds(over) = 0 /\ GetWeekday(over.year, over.month, over.day) = 4
=============================================================================
