------------------------------- MODULE Time64 -------------------------------
(***************************************************************************)
(* libs/datetime/time64: dates of 64-bit times. The system functions are   *)
(* trusted for a range of years only; for another year the date is moved   *)
(* to a safe year with the same calendar, converted, and moved back. The   *)
(* lengths of minutes, hours and days are parameters, so that the years of *)
(* several Gregorian cycles fit into small numbers.                        *)
(***************************************************************************)
EXTENDS Integers, FiniteSets, Sequences

CONSTANTS
    MinuteLen, HourLen, DayLen,          \* 60 seconds, 60 minutes, 24 hours
    SystemFirstDay, SystemLastDay,       \* the days between which localtime is trusted
    SYSTEM_MKTIME_MIN, SYSTEM_MKTIME_MAX,\* the dates between which mktime is
    Starts,                              \* the days that are looked at: their numbers
    Zones                                \* the time zones: seconds ahead of UTC

ASSUME Time64Assumption ==
    /\ {MinuteLen, HourLen, DayLen} \subseteq Nat \ {0}
    /\ Starts \subseteq Int /\ Zones \subseteq Int
    /\ \A z \in Zones : -(MinuteLen * HourLen * DayLen) < z /\ z < MinuteLen * HourLen * DayLen

VARIABLES
    instant,   \* the time that is converted
    zone,      \* the time zone
    first      \* where it began

timeVars == <<instant, zone, first>>

SecondsPerDay == MinuteLen * HourLen * DayLen

\* Division in C rounds towards zero.
CDiv(a, b) == IF a >= 0 THEN a \div b ELSE -((-a) \div b)
CMod(a, b) == a - b * CDiv(a, b)

days_in_month ==
    <<<<31, 28, 31, 30, 31, 30, 31, 31, 30, 31, 30, 31>>,
      <<31, 29, 31, 30, 31, 30, 31, 31, 30, 31, 30, 31>>>>

julian_days_by_month ==
    <<<<0, 31, 59, 90, 120, 151, 181, 212, 243, 273, 304, 334>>,
      <<0, 31, 60, 91, 121, 152, 182, 213, 244, 274, 305, 335>>>>

length_of_year == <<365, 366>>

days_in_gregorian_cycle == 365 * 400 + 100 - 4 + 1
seconds_in_gregorian_cycle == days_in_gregorian_cycle * SecondsPerDay

MAX_SAFE_YEAR == 2037
MIN_SAFE_YEAR == 1971
SOLAR_CYCLE_LENGTH == 28

safe_years_high == [i \in 0 .. 27 |-> IF i < 22 THEN 2016 + i ELSE 1988 + i]
safe_years_low == [i \in 0 .. 27 |-> IF i < 3 THEN 1996 + i ELSE 1968 + i]

CHEAT_DAYS == 13879
CHEAT_YEARS == 108

\* The index of the tables, which begin with 1 here. IS_LEAP counts years from 1900.
IS_LEAP_ABS(n) ==
    IF CMod(n, 400) = 0 \/ (CMod(n, 4) = 0 /\ CMod(n, 100) # 0 /\ n > 0) THEN 2 ELSE 1

\* Variant: every fourth year.
IS_LEAP_julian(n) == IF (n + 1900) % 4 = 0 THEN 2 ELSE 1

IS_LEAP(n) ==
    LET y == n + 1900 IN
    IF CMod(y, 400) = 0 \/ (CMod(y, 4) = 0 /\ CMod(y, 100) # 0) THEN 2 ELSE 1

is_exception_century(year) == CMod(year, 100) = 0 /\ CMod(year, 400) # 0
-----------------------------------------------------------------------------
(* Dates and times in UTC                                                  *)

\* WRAP_TIME64: the first borrows from the second.
WRAP_TIME64(a, b, m) == IF a < 0 THEN <<a + m, b - 1>> ELSE <<a, b>>

\* The days of the years from a on that are before b: what the loops over years add up.
DaysBetween(a, b) ==
    length_of_year[1] * (b - a) + Cardinality({y \in a .. b - 1 : IS_LEAP(y) = 2})

\* Where the loops end that take the lengths of years off m days: forward from the
\* first day of a year, and back from the last day of a year.
YearsForward(m, year) ==
    CHOOSE y \in year + m \div 366 .. year + m \div 365 :
        DaysBetween(year, y) <= m /\ m < DaysBetween(year, y + 1)

YearsBack(m, year) ==
    CHOOSE y \in year - (-m) \div 365 .. year - (-m - 1) \div 366 :
        DaysBetween(y + 1, year + 1) < -m /\ -m <= DaysBetween(y, year + 1)

\* The month whose first day in the year is at or before the day m of the year.
MonthOf(m, leap) ==
    CHOOSE mon \in 0 .. 11 :
        /\ julian_days_by_month[leap][mon + 1] <= m
        /\ m < julian_days_by_month[leap][mon + 1] + days_in_month[leap][mon + 1]

\* The year (from 1900) of a day since 1970, and the day in it: forward from 1970 or
\* 2008, or back from the end of 1969, where days count from the end of the year.
YearOfDay(tday) ==
    LET cheat == tday >= CHEAT_DAYS
        m == IF cheat THEN tday - CHEAT_DAYS ELSE tday
        year == IF cheat THEN CHEAT_YEARS ELSE 70
    IN  IF m >= 0
        THEN LET cycles == m \div days_in_gregorian_cycle
                 from == year + cycles * 400
                 left == m - cycles * days_in_gregorian_cycle
                 y == YearsForward(left, from)
             IN  [year |-> y, yday |-> left - DaysBetween(from, y)]
        ELSE LET cycles == CDiv(m, days_in_gregorian_cycle) + 1
                 from == year - 1 + cycles * 400
                 left == m - cycles * days_in_gregorian_cycle
                 y == YearsBack(left, from)
             IN  [year |-> y, yday |-> left + DaysBetween(y, from + 1)]

\* The month and its day, too.
DateOfDay(y) ==
    LET leap == IS_LEAP(y.year)
        mon == MonthOf(y.yday, leap)
    IN  [year |-> y.year, yday |-> y.yday, mon |-> mon,
         mday |-> y.yday - julian_days_by_month[leap][mon + 1] + 1]

gmtime64_r(time) ==
    LET sec0 == CMod(time, MinuteLen)
        minutes == CDiv(time, MinuteLen)
        hours == CDiv(minutes, HourLen)
        sec == WRAP_TIME64(sec0, CMod(minutes, HourLen), MinuteLen)
        min == WRAP_TIME64(sec[2], CMod(hours, DayLen), HourLen)
        hour == WRAP_TIME64(min[2], CDiv(hours, DayLen), DayLen)
        wday == CMod(hour[2] + 4, 7)
        date == DateOfDay(YearOfDay(hour[2]))
    IN  [sec |-> sec[1], min |-> min[1], hour |-> hour[1],
         wday |-> IF wday < 0 THEN wday + 7 ELSE wday,
         year |-> date.year, mon |-> date.mon, yday |-> date.yday, mday |-> date.mday]

timegm64(date) ==
    LET cycles == IF date.year > 100 \/ date.year < -300 THEN CDiv(date.year - 100, 400) ELSE 0
        year == date.year - cycles * 400
        days_from_70 == IF year > 70 THEN DaysBetween(70, year) ELSE -DaysBetween(year, 70)
        days == cycles * days_in_gregorian_cycle + days_from_70
                + julian_days_by_month[IS_LEAP(year)][date.mon + 1] + date.mday - 1
    IN  days * SecondsPerDay + date.hour * HourLen * MinuteLen + date.min * MinuteLen + date.sec

\* The assertions of check_tm.
check_tm(tm) ==
    /\ tm.sec \in 0 .. MinuteLen /\ tm.min \in 0 .. HourLen - 1 /\ tm.hour \in 0 .. DayLen - 1
    /\ tm.mon \in 0 .. 11 /\ tm.mday \in 1 .. days_in_month[IS_LEAP(tm.year)][tm.mon + 1]
    /\ tm.wday \in 0 .. 6 /\ tm.yday \in 0 .. length_of_year[IS_LEAP(tm.year)]
-----------------------------------------------------------------------------
(* Safe years                                                              *)

cycle_offset(year) ==
    LET year_diff == IF year > 2000 THEN year - 2001 ELSE year - 2000 IN
    (CDiv(year_diff, 100) - CDiv(year_diff, 400)) * 16

safe_year(year) ==
    LET shift == (IF year < MIN_SAFE_YEAR THEN -8 ELSE 0)
                 + (IF is_exception_century(year) THEN 11 ELSE 0)
                 + (IF is_exception_century(year - 1) THEN 17 ELSE 0)
        year_cycle == CMod(year + cycle_offset(year) + shift, SOLAR_CYCLE_LENGTH)
        at == IF year_cycle < 0 THEN year_cycle + SOLAR_CYCLE_LENGTH ELSE year_cycle
    IN  IF year \in MIN_SAFE_YEAR .. MAX_SAFE_YEAR THEN year
        ELSE IF year < MIN_SAFE_YEAR THEN safe_years_low[at] ELSE safe_years_high[at]

\* The days of a set of years, as seconds_between_years counts them.
YearLengths(years) ==
    length_of_year[1] * Cardinality(years) + Cardinality({y \in years : IS_LEAP_ABS(y) = 2})

\* Below 1600 the cycles are added to the year with the sign that they have.
seconds_between_years(left_year, right_year) ==
    LET cycles == IF left_year > 2400 THEN CDiv(left_year - 2400, 400)
                  ELSE IF left_year < 1600 THEN CDiv(left_year - 1600, 400) ELSE 0
        left == IF left_year > 2400 THEN left_year - cycles * 400 ELSE left_year + cycles * 400
        days == IF left_year > right_year THEN YearLengths(right_year .. left - 1)
                ELSE -YearLengths(left + 1 .. right_year)
    IN  cycles * seconds_in_gregorian_cycle + days * SecondsPerDay
-----------------------------------------------------------------------------
(* Dates in the time zone                                                  *)

\* localtime_r and mktime of the system, for a zone without summer time.
localtime_r(time, z) == gmtime64_r(time + z)
mktime(date, z) == timegm64(date) - z

\* The fields that are compared, in order.
DateFields == <<"year", "mon", "mday", "hour", "min", "sec">>

cmp_date(left, right) ==
    LET First == {i \in DOMAIN DateFields :
                    /\ left[DateFields[i]] # right[DateFields[i]]
                    /\ \A j \in 1 .. i - 1 : left[DateFields[j]] = right[DateFields[j]]}
    IN  IF First = {} THEN 0
        ELSE IF \A i \in First : left[DateFields[i]] > right[DateFields[i]] THEN 1 ELSE -1

date_in_safe_range(date, min, max) == cmp_date(date, min) # -1 /\ cmp_date(date, max) # 1

\* The date gm_tm in a safe year.
InSafeYear(gm_tm) ==
    IF gm_tm.year > 137 \/ gm_tm.year < 70
    THEN [gm_tm EXCEPT !.year = safe_year(@ + 1900) - 1900] ELSE gm_tm

\* The local date in the safe year, moved back to the year of gm_tm.
MovedBack(safe_date, gm_tm) ==
    LET month_diff == safe_date.mon - gm_tm.mon
        year == gm_tm.year + (IF month_diff = 11 THEN -1 ELSE IF month_diff = -11 THEN 1 ELSE 0)
    IN  [safe_date EXCEPT
            !.year = year,
            !.yday = IF IS_LEAP(year) = 1 /\ @ = 365 THEN @ - 1 ELSE @]

localtime64_r(time, z) ==
    LET gm_tm == gmtime64_r(time) IN
    IF time >= SystemFirstDay * SecondsPerDay /\ time <= SystemLastDay * SecondsPerDay
    THEN localtime_r(time, z)
    ELSE MovedBack(localtime_r(timegm64(InSafeYear(gm_tm)), z), gm_tm)

mktime64(date, z) ==
    IF date_in_safe_range(date, SYSTEM_MKTIME_MIN, SYSTEM_MKTIME_MAX)
    THEN mktime(date, z)
    ELSE LET year == date.year + 1900
             safe == [date EXCEPT !.year = safe_year(year) - 1900]
         IN  mktime(safe, z) + seconds_between_years(year, safe.year + 1900)
-----------------------------------------------------------------------------
InitTime ==
    /\ first \in Starts /\ zone \in Zones
    /\ instant = first * SecondsPerDay

\* two days are looked at.
Tick ==
    /\ instant < (first + 2) * SecondsPerDay
    /\ instant' = instant + 1
    /\ UNCHANGED <<zone, first>>

NextTime == Tick
-----------------------------------------------------------------------------
(* Properties                                                              *)

\* The number of a day, with leap days counted by division.
DayNumber(year, yday) ==
    LET y == year + 1899 IN
    365 * (year - 70) + (y \div 4 - y \div 100 + y \div 400) - 477 + yday

\* The date is the one of the instant: the only one with its number of seconds.
IsDateOf(date, time) ==
    LET day == DayNumber(date.year, date.yday) IN
    /\ check_tm(date)
    /\ date.yday = julian_days_by_month[IS_LEAP(date.year)][date.mon + 1] + date.mday - 1
    /\ date.wday = (day + 4) % 7
    /\ time = day * SecondsPerDay + (date.hour * HourLen + date.min) * MinuteLen + date.sec

\* In every time zone that is looked at and in every year, before 1970 and after 2038,
\* around the ends of years and of February: gmtime64_r gives the date of the calendar
\* and timegm64 inverts it; localtime64_r gives the date in the time zone, although it
\* asks the system about another year; and mktime64 gives the time back, if the year
\* is after 1200.
CalendarRight ==
    LET Right(gm, local) ==
            /\ IsDateOf(gm, instant) /\ timegm64(gm) = instant
            /\ IsDateOf(local, instant + zone)
            /\ local.year + 1900 > 1200 => mktime64(local, zone) = instant
    IN  zone \in Zones => Right(gmtime64_r(instant), localtime64_r(instant, zone))
=============================================================================
