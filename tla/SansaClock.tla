----------------------------- MODULE SansaClock -----------------------------
(***************************************************************************)
(* Clock and battery of the Sansa (mach-sansa/rtc.c, battery.c).           *)
(*                                                                         *)
(* The codec counts seconds since 1 January 1980.  RTC_RD_TIME fetches the *)
(* count byte by byte over the I2C bus while it goes on, then turns it     *)
(* into a date; nothing else runs meanwhile, so that is one step.  The     *)
(* battery is asked through /proc/apm.  The bus is in SansaCodec.  Day,    *)
(* hour, minute and byte are constants, so that a few years fit in a       *)
(* model; the calendar is the code's.                                      *)
(***************************************************************************)
EXTENDS Integers

CONSTANTS
    BYTE,              \* 256
    DAY, HOUR, MINUTE, \* their seconds: 86400, 3600, 60
    Starts,            \* what the clock may show at the start
    Readings,          \* what adc_read gives
    ApmAt,             \* bound: when the battery is looked at
    MaxTicks           \* bound: seconds that pass while the clock is read

ASSUME ClockAssumption ==
    /\ BYTE \in Nat \ {0, 1}
    /\ MINUTE \in Nat \ {0} /\ HOUR \in Nat \ {0} /\ DAY \in Nat \ {0}
    /\ DAY % HOUR = 0 /\ HOUR % MINUTE = 0
    \* the counter runs over before 2120
    /\ BYTE * BYTE * BYTE * BYTE <= 140 * 365 * DAY
    /\ Starts \subseteq 0 .. BYTE * BYTE * BYTE * BYTE - 1
    /\ Readings \subseteq 0 .. 1023 /\ ApmAt \subseteq Nat
    /\ MaxTicks \in Nat

VARIABLES
    counter,      \* RTC_0 .. RTC_3 of the codec
    pc,           \* what the process that has the clock open does
    i, tmp,       \* bytes read so far
    began,        \* history: the counter when the read began
    now,          \* what RTC_RD_TIME gave
    reading,      \* history: what adc_read gave
    percentage    \* what /proc/apm said

read == <<i, tmp, began, now>>
apm  == <<reading, percentage>>
vars == <<counter, pc, read, apm>>

Nothing == [year |-> 0, mon |-> 0, mday |-> 0, hour |-> 0, min |-> 0, sec |-> 0]

TypeOK ==
    /\ counter \in Nat /\ began \in Nat
    /\ pc \in {"closed", "open", "reading", "answered"}
    /\ i \in 0 .. 4
    /\ tmp \in [0 .. 3 -> 0 .. BYTE - 1]
    /\ reading \in 0 .. 1023
    /\ percentage \in 0 .. 100

Init ==
    /\ counter \in Starts
    /\ pc = "closed"
    /\ i = 0 /\ tmp = [n \in 0 .. 3 |-> 0] /\ began = 0 /\ now = Nothing
    /\ reading = 0 /\ percentage = 0

-----------------------------------------------------------------------------
(* From seconds to a date *)

\* what a byte of the counter counts
Weight(n) == <<1, BYTE, BYTE * BYTE, BYTE * BYTE * BYTE,
               BYTE * BYTE * BYTE * BYTE>>[n + 1]

YEAR_SECONDS      == 365 * DAY
LEAP_YEAR_SECONDS == 366 * DAY

\* tm_year counts from 1900, and so does year here
is_leapyear(year) == year % 4 = 0 /\ (year % 100 # 0 \/ year % 400 = 0)

\* "while(seconds>=LEAP_YEAR_SECONDS)": the year and what is left of it
Years[seconds \in 0 .. Weight(4) - 1] ==
    [year \in Nat |->
        IF seconds < LEAP_YEAR_SECONDS THEN <<year, seconds>>
        ELSE Years[seconds - (IF is_leapyear(year) THEN LEAP_YEAR_SECONDS
                                                   ELSE YEAR_SECONDS)][year + 1]]

days_in_month(leap) ==
    <<31, IF leap THEN 29 ELSE 28, 31, 30, 31, 30, 31, 31, 30, 31, 30, 31>>

\* The loop over the months.  When it ends without a break tm_mon is still
\* what memset made it.
Months(leap) ==
    LET from[m \in 0 .. 12] ==
            [seconds \in Nat |->
                IF m = 12 THEN <<0, seconds>>
                ELSE LET month == days_in_month(leap)[m + 1] * DAY
                     IN  IF seconds < month THEN <<m, seconds>>
                                            ELSE from[m + 1][seconds - month]]
    IN  from[0]

\* mutant of AfterYear: the last day of a leap year is taken for the next year
AfterYearLeap(leap, s) == s > YEAR_SECONDS

AfterYear(leap, s) == ~leap /\ s > YEAR_SECONDS

\* as_rtc_read
Date(seconds) ==
    LET years == Years[seconds][80]
        year  == years[1]
        rest  == years[2]
        leap  == is_leapyear(year)
        after == AfterYear(leap, rest)
        month == Months(leap)[IF after THEN rest - YEAR_SECONDS ELSE rest]
    IN  [year |-> IF after THEN year + 1 ELSE year,
         mon  |-> month[1],
         mday |-> month[2] \div DAY,
         hour |-> (month[2] % DAY) \div HOUR,
         min  |-> (month[2] % HOUR) \div MINUTE,
         sec  |-> month[2] % MINUTE]

-----------------------------------------------------------------------------
(* Reading the clock *)

Byte(n) == (counter \div Weight(n)) % BYTE

\* A second open gets EBUSY.  What /proc/apm said is of no more interest.
Open ==
    /\ pc = "closed" /\ pc' = "open"
    /\ reading' = 0 /\ percentage' = 0
    /\ UNCHANGED <<counter, read>>

Close ==
    /\ pc = "open" /\ pc' = "closed"
    /\ UNCHANGED <<counter, read, apm>>

Ioctl ==
    /\ pc = "open" /\ pc' = "reading"
    /\ i' = 0 /\ began' = counter
    /\ UNCHANGED <<counter, tmp, now, apm>>

ReadByte ==
    /\ pc = "reading" /\ i < 4
    /\ tmp' = [tmp EXCEPT ![i] = Byte(i)]
    /\ i' = i + 1
    /\ UNCHANGED <<counter, pc, began, now, apm>>

\* the bytes put together
Seconds == tmp[0] * Weight(0) + tmp[1] * Weight(1) + tmp[2] * Weight(2)
                              + tmp[3] * Weight(3)

Convert ==
    /\ pc = "reading" /\ i = 4
    /\ pc' = "answered"
    /\ now' = Date(Seconds)
    /\ UNCHANGED <<counter, i, tmp, began, apm>>

Return ==
    /\ pc = "answered" /\ pc' = "open"
    /\ i' = 0 /\ tmp' = [n \in 0 .. 3 |-> 0] /\ began' = 0 /\ now' = Nothing
    /\ UNCHANGED <<counter, apm>>

\* Bounds: only the seconds that pass while the clock is read are steps, at
\* most MaxTicks of them; and the counter does not run over (in 2116).
Tick ==
    /\ pc = "reading"
    /\ counter - began < MaxTicks /\ counter + 1 < Weight(4)
    /\ counter' = counter + 1
    /\ UNCHANGED <<pc, read, apm>>

-----------------------------------------------------------------------------
(* Battery *)

table == [n \in 0 .. 10 |-> <<3300, 3390, 3480, 3570, 3660, 3750, 3840, 3930,
                              4020, 4110, 4200>>[n + 1]]

\* "while ((i < 10) && (table[i+1] < voltage)) i++" goes on
Above(n, v) == table[n + 1] < v

\* where that loop ends
Nearest(v) ==
    CHOOSE n \in 0 .. 10 : /\ n < 10 => ~Above(n, v)
                           /\ \A m \in 0 .. n - 1 : Above(m, v)

\* mutant of Ones: it divides before it multiplies
OnesCoarse(n, v) == ((v - table[n]) \div (table[n + 1] - table[n])) * 10

\* "interpolated"
Ones(n, v) == ((v - table[n]) * 10) \div (table[n + 1] - table[n])

voltage_to_percent(v) ==
    IF v <= table[0] THEN 0
    ELSE IF v >= table[10] THEN 100
    ELSE Nearest(v) * 10 + Ones(Nearest(v), v)

battery_adc_voltage(r) == (r * 5125) \div 1024

\* adc_read gives 0 when the bus fails.
Apm(r) ==
    /\ pc = "closed" /\ counter \in ApmAt
    /\ reading' = r
    /\ percentage' = voltage_to_percent(battery_adc_voltage(r))
    /\ UNCHANGED <<counter, pc, read>>

Next == Open \/ Close \/ Ioctl \/ ReadByte \/ Convert \/ Return \/ Tick
        \/ \E r \in Readings : Apm(r)

Spec == Init /\ [][Next]_vars
-----------------------------------------------------------------------------
(* What clock and battery promise *)

\* The calendar from 1980 to 2120, in which 2000 is a leap year and 2100 is
\* none; days of a month count from 0, as in tm_mday here.
Leap(year)       == year % 4 = 0 /\ year # 200
DaysBefore(year) == 365 * (year - 80) + ((year - 77) \div 4)
                        - IF year > 200 THEN 1 ELSE 0
MonthStart(year, mon) ==
    <<0, 31, 59, 90, 120, 151, 181, 212, 243, 273, 304, 334, 365>>[mon + 1]
        + IF Leap(year) /\ mon > 1 THEN 1 ELSE 0

ValidDate(d) ==
    /\ d.mon \in 0 .. 11
    /\ d.mday \in 0 .. MonthStart(d.year, d.mon + 1) - MonthStart(d.year, d.mon) - 1
    /\ d.hour \in 0 .. (DAY \div HOUR) - 1
    /\ d.min \in 0 .. (HOUR \div MINUTE) - 1
    /\ d.sec \in 0 .. MINUTE - 1

SecondsOf(d) ==
    (DaysBefore(d.year) + MonthStart(d.year, d.mon) + d.mday) * DAY
        + d.hour * HOUR + d.min * MINUTE + d.sec

\* is_leapyear(100) is false: from 29 February 2000 the date is a day ahead.
Ahead(s) == s + IF s >= (DaysBefore(100) + 59) * DAY THEN DAY ELSE 0

LastYear == 81 + (Weight(4) \div YEAR_SECONDS)

\* In its first second a year that follows one of 365 days is still the one
\* before, of which no month is found: 1 January.
YearBefore(s) ==
    {year \in 80 .. LastYear : /\ ~is_leapyear(year)
                               /\ Ahead(s) = DaysBefore(year + 1) * DAY}

Shown(s) == IF YearBefore(s) = {} THEN {Ahead(s)}
                                  ELSE {DaysBefore(year) * DAY : year \in YearBefore(s)}

NotBehind == began <= Seconds

\* The seconds put together from four bytes never lie before the read began,
\* lie within it while the lowest byte does not overflow, and keep the bytes
\* above an overflow; the date is theirs, but for the two things said of
\* Ahead and YearBefore (rtc.c:50-116).
TimeRight ==
    pc = "answered" =>
        /\ NotBehind
        /\ began \div BYTE = counter \div BYTE => Seconds <= counter
        /\ \A n \in 1 .. 3 : began \div Weight(n) = counter \div Weight(n) =>
                                 Seconds \div Weight(n) = began \div Weight(n)
        /\ ValidDate(now) /\ SecondsOf(now) \in Shown(Seconds)

\* The percentage is a straight line from 3.3 V to 4.2 V, whatever the
\* reading; the table adds no steps (battery.c:53-104).
BatteryRight ==
    LET v == battery_adc_voltage(reading)
    IN  percentage = IF v <= 3300 THEN 0 ELSE IF v >= 4200 THEN 100
                     ELSE (v - 3300) \div 9
=============================================================================
