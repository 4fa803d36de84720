----------------------------- MODULE TimeCounter -----------------------------
(***************************************************************************)
(* The clock (sw/time/source/time_counter.c): SysTick counts it up by 10 ms*)
(* and carries; the NTP answer or a phone sets it with interrupts disabled.*)
(* And the counter of tenths of seconds by which the WiFi driver times its *)
(* waits (sw/time/source/system_timestamp.c).                              *)
(*                                                                         *)
(* The callbacks, of which the firmware registers the scheduler's alone,   *)
(* are the Tick of TaskScheduler.                                          *)
(***************************************************************************)
EXTENDS Integers

UINT16_MAX == 256 * 256 - 1

VARIABLES
    day, month, year, hour, minute, second, msecond,    \* timestamp
    system_timestamp

timestamp == <<day, month, year, hour, minute, second, msecond>>
vars      == <<timestamp, system_timestamp>>

-----------------------------------------------------------------------------
(* The calendar of the code. *)

month_day_cnt(m) ==
    IF m = 0 THEN 0 ELSE IF m = 2 THEN 28 ELSE IF m \in {4, 6, 9, 11} THEN 30 ELSE 31

time_is_leap_year(y) == y % 4 = 0

exp_days(m, y) ==
    IF time_is_leap_year(y) /\ m = 2 THEN month_day_cnt(m) + 1 ELSE month_day_cnt(m)

NextYear(y) == IF y = UINT16_MAX THEN 0 ELSE y + 1

\* What time_is_time_ok asks beside the ranges: it knows no leap day.
time_is_time_ok(d, m) == d <= month_day_cnt(m)

\* ts_get_diff, in milliseconds: 16 bits.
ts_get_diff(ts, now) ==
    ((IF ts <= now THEN now - ts ELSE now + (UINT16_MAX - ts)) * 100) % (UINT16_MAX + 1)

-----------------------------------------------------------------------------

Init ==
    /\ day = 1 /\ month = 1 /\ year = 2000
    /\ hour = 0 /\ minute = 0 /\ second = 0 /\ msecond = 0
    /\ system_timestamp = 0

\* Date d of month m in year y, or the day after it when a midnight is passed,
\* which ends the month when last holds.
SetDate(d, m, y, midnight, last) ==
    /\ day' = IF ~midnight THEN d ELSE IF last THEN 1 ELSE d + 1
    /\ month' = IF midnight /\ last THEN (IF m = 12 THEN 1 ELSE m + 1) ELSE m
    /\ year' = IF midnight /\ last /\ m = 12 THEN NextYear(y) ELSE y

SecondEnds == msecond + 10 >= 1000
MinuteEnds == SecondEnds /\ second + 1 = 60
HourEnds   == MinuteEnds /\ minute + 1 = 60
DayEnds    == HourEnds /\ hour + 1 = 24
MonthEnds  == day + 1 >= exp_days(month, year)

\* time_increment_time
SysTick_Handler ==
    /\ msecond' = IF SecondEnds THEN (msecond + 10) % 1000 ELSE msecond + 10
    /\ second' = IF MinuteEnds THEN 0 ELSE IF SecondEnds THEN second + 1 ELSE second
    /\ minute' = IF HourEnds THEN 0 ELSE IF MinuteEnds THEN minute + 1 ELSE minute
    /\ hour' = IF DayEnds THEN 0 ELSE IF HourEnds THEN hour + 1 ELSE hour
    /\ SetDate(day, month, year, DayEnds, MonthEnds)
    /\ UNCHANGED system_timestamp

\* Sets the local time, which is one or two hours ahead.
time_set_utc(d, m, y, time, offset) ==
    /\ time_is_time_ok(d, m)
    /\ SetDate(d, m, y, time.hour + offset > 23, d + 1 > month_day_cnt(m))
    /\ hour' = (time.hour + offset) % 24
    /\ minute' = time.minute /\ second' = time.second /\ msecond' = time.msecond
    /\ UNCHANGED system_timestamp

TIM4_IRQHandler ==
    /\ system_timestamp' = (system_timestamp + 1) % (UINT16_MAX + 1)
    /\ UNCHANGED timestamp

TimeOfDay == [hour : 0..23, minute : 0..59, second : 0..59, msecond : 0..990]

\* The NTP answer brings a date; a phone may send a day zero, or a day and a
\* month zero, and the code takes them.
SetTime ==
    \E d \in 0..31, m \in 0..12, y \in 0..UINT16_MAX, time \in TimeOfDay, offset \in {1, 2} :
        time.msecond % 10 = 0 /\ time_set_utc(d, m, y, time, offset)

Next == SysTick_Handler \/ SetTime \/ TIM4_IRQHandler

Spec == Init /\ [][Next]_vars

-----------------------------------------------------------------------------

\* A date that exists, and what the code takes in its place.
DateExists == month \in 1..12 /\ day \in 1..exp_days(month, year)
NoDate     == month \in 0..12 /\ day = 0

(* The clock shows a time of the day, and a date that exists, with or without*)
(* a leap day, or the day zero of some month or of none: time_is_time_ok     *)
(* accepts no other (time_set_utc, time_increment_time).                     *)
ClockReads ==
    /\ year \in 0..UINT16_MAX /\ (DateExists \/ NoDate)
    /\ hour \in 0..23 /\ minute \in 0..59 /\ second \in 0..59 /\ msecond \in 0..999

(* A date that exists is followed by one that exists, and so is a day zero   *)
(* when its midnight is passed: the clock shows a zero only when it was set  *)
(* to one, and for a day at most (time_set_utc, time_increment_time).        *)
DatesLast ==
    /\ SysTick_Handler /\ (DateExists \/ DayEnds) => DateExists'
    /\ \A d \in 1..31, m \in 0..12, y \in 0..UINT16_MAX, time \in TimeOfDay, offset \in {1, 2} :
           time_set_utc(d, m, y, time, offset) => DateExists'

(* What the calendar asks of midnight.                                       *)
Tomorrow == SetDate(day, month, year, TRUE, day = exp_days(month, year))

(* Midnight agrees with the calendar except on the last day but one of a     *)
(* month, and then the month ends: the count never reaches a last day,       *)
(* because time_increment_time tests day >= exp_days with the day counted up *)
(* already. The tests of the repository pass midnight on last days only.     *)
LastDaysAreSkipped ==
    SysTick_Handler /\ DayEnds =>
        /\ day # exp_days(month, year) - 1 => Tomorrow
        /\ day = exp_days(month, year) - 1 => day' = 1 /\ month' # month
        /\ day' # exp_days(month', year')
=============================================================================
