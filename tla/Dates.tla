---------------------------------- MODULE Dates --------------------------------
(***************************************************************************)
(* The dates of jni/cpp/tcutil.c.  A time is a pair of a day, counted from *)
(* the first of January 1970, and a second of it; a date is what one of    *)
(* the two formats prints, field by field, with the zone as a sign, hours  *)
(* and minutes.  A time_t has the 4 bytes it has in the libraries of       *)
(* src/libs; gmtime_r and mktime are those of the C library.               *)
(***************************************************************************)
EXTENDS Integers, Sequences, TLC

Normal(day, sec) == <<day + (sec \div 86400), sec % 86400>>

\* What tcstrmktime returns for no date, INT64_MIN.
NoTime == <<0, -1>>

---------------------------------------------------------------------------
(* time_t *)

\* From 2^31 seconds before 1970 to 2^31 - 1 after.
Held(t) ==
  /\ -24856 < t[1] \/ (t[1] = -24856 /\ t[2] >= 74752)
  /\ t[1] < 24855 \/ (t[1] = 24855 /\ t[2] <= 11647)

\* The conversion of an int64_t drops multiples of 2^32 seconds, which are 49710
\* days and 23296 seconds.
TimeT(t) ==
  LET less(n) == Normal(t[1] - n * 49710, t[2] - n * 23296)
      n0 == t[1] \div 49710
  IN less(CHOOSE n \in n0 - 1 .. n0 + 1 : Held(less(n)))

\* The sum of a time_t and an int.  C leaves its overflow undefined; the libraries,
\* compiled without optimization, wrap it.
Plus(t, sec) == TimeT(Normal(t[1], t[2] + sec))

---------------------------------------------------------------------------
(* The C library *)

\* The day of a date, its month counted from 1; years begin in March.
DayOf(year, mon, mday) ==
  LET y == IF mon <= 2 THEN year - 1 ELSE year
      m == (mon + 9) % 12
  IN 365 * y + (y \div 4) - (y \div 100) + (y \div 400) + ((153 * m + 2) \div 5) + mday - 719469

\* The year, month and day of the month of a day.
DateOf(day) ==
  LET guess == 1970 + (day \div 365)
      year == CHOOSE y \in guess - 8 .. guess + 3 :
                DayOf(y, 1, 1) <= day /\ day < DayOf(y + 1, 1, 1)
      mon == CHOOSE m \in 1 .. 12 :
               DayOf(year, m, 1) <= day
                 /\ day < IF m = 12 THEN DayOf(year + 1, 1, 1) ELSE DayOf(year, m + 1, 1)
  IN <<year, mon, day - DayOf(year, mon, 1) + 1>>

\* The time of a date in the zone of the process, which is lag seconds east; -1
\* if a time_t does not hold it.
MkTime(year, f, sec, lag) ==
  LET t == Normal(DayOf(year, f.mon, f.mday), sec - lag) IN IF Held(t) THEN t ELSE <<-1, 86399>>

---------------------------------------------------------------------------
\* C divides and takes remainders towards zero.
Quot(a, b) == IF a < 0 THEN -((-a) \div b) ELSE a \div b

\* 0 is Sunday.
DayOfWeek(year, mon, day) ==
  LET y == IF mon < 3 THEN year - 1 ELSE year
      m == IF mon < 3 THEN mon + 12 ELSE mon
  IN (day + ((8 + 13 * m) \div 5) + y + (y \div 4) - (y \div 100) + (y \div 400)) % 7

\* The zone of so many seconds; less than a minute of it is not printed.
Zone(jl) == LET min == Quot(jl, 60)
                abs == IF min < 0 THEN -min ELSE min
            IN [sign |-> IF min < 0 THEN -1 ELSE IF min = 0 THEN 0 ELSE 1,
                hour |-> abs \div 60, min |-> abs % 60]

\* The fields both formats print of a time, for a zone of jl seconds.
Fields(t, jl) ==
  LET local == Plus(TimeT(t), jl)
      date == DateOf(local[1])
  IN [year |-> date[1], mon |-> date[2], mday |-> date[3],
      hour |-> local[2] \div 3600, min |-> (local[2] % 3600) \div 60, sec |-> local[2] % 60,
      zone |-> Zone(jl)]

DateStrWww(t, jl) == Fields(t, jl)

DateStrHttp(t, jl) ==
  LET f == Fields(t, jl) IN f @@ [wday |-> DayOfWeek(f.year, f.mon, f.mday)]

ZoneTaken(sec, zone) == sec - zone.sign * (zone.hour * 3600 + zone.min * 60)

\* The date is read as one of the process's zone, which is taken off again.
Made(year, f, lag) ==
  Plus(MkTime(year, f, ZoneTaken(f.hour * 3600 + f.min * 60 + f.sec, f.zone), lag), lag)

\* A date with a dash, or a slash, behind four digits.
MkTimeWww(f, lag) == IF f.year \in 0 .. 9999 THEN Made(f.year, f, lag) ELSE NoTime

\* A date with the name of the month: a year before 1969 counts from 1900.
MkTimeHttp(f, lag) ==
  IF f.mday > 0 /\ f.year >= 0
  THEN Made(IF f.year >= 1969 THEN f.year ELSE f.year + 1900, f, lag) ELSE NoTime
=============================================================================
