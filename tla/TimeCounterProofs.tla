-------------------------- MODULE TimeCounterProofs --------------------------
(* Theorems about the clock and the timestamps. *)
EXTENDS TimeCounter, TLAPS

(* What is used of the width of the counters, and of the remainder. *)
LEMMA Uint16 == UINT16_MAX \in Nat /\ 655 * 100 <= UINT16_MAX
  BY DEF UINT16_MAX

LEMMA Remainder ==
    ASSUME NEW n \in Nat \ {0}, NEW a \in 0..(n - 1)
    PROVE  a % n = a /\ (a + n) % n = a
  OBVIOUS

(* The lengths of the months, and the longest day with its leap day. *)
LEMMA Months ==
    ASSUME NEW m \in 1..12, NEW y
    PROVE  /\ month_day_cnt(m) \in 28..31 /\ exp_days(m, y) \in 28..31
           /\ month_day_cnt(m) <= exp_days(m, y)
<1>1. month_day_cnt(m) \in 28..31
  BY DEF month_day_cnt
<1>2. m = 2 => month_day_cnt(m) = 28
  BY DEF month_day_cnt
<1>3. CASE time_is_leap_year(y) /\ m = 2
  <2>1. exp_days(m, y) = month_day_cnt(m) + 1
    BY <1>3, Zenon DEF exp_days
  <2> QED
    BY <1>2, <1>3, <2>1
<1>4. CASE ~(time_is_leap_year(y) /\ m = 2)
  <2>1. exp_days(m, y) = month_day_cnt(m)
    BY <1>4, Zenon DEF exp_days
  <2> QED
    BY <1>1, <2>1
<1> QED
  BY <1>3, <1>4

(* A midnight, or none, leads from a date that exists to one that exists, if *)
(* the month ends on its last day at the latest.                             *)
LEMMA SetDateExists ==
    ASSUME NEW d \in Nat, NEW m \in 1..12, NEW y \in 0..UINT16_MAX, NEW midnight, NEW last,
           d \in 1..exp_days(m, y), midnight /\ ~last => d + 1 <= exp_days(m, y),
           SetDate(d, m, y, midnight, last)
    PROVE  month' \in 1..12 /\ year' \in 0..UINT16_MAX /\ day' \in 1..exp_days(month', year')
<1>1. CASE midnight /\ last
  <2>1. day' = 1 /\ month' = (IF m = 12 THEN 1 ELSE m + 1) /\ year' = (IF m = 12 THEN NextYear(y) ELSE y)
    BY <1>1, Zenon DEF SetDate
  <2>2. month' \in 1..12 /\ year' \in 0..UINT16_MAX
    BY <2>1, Uint16 DEF NextYear
  <2>3. exp_days(month', year') \in 28..31
    BY <2>2, Months
  <2> QED
    BY <2>1, <2>2, <2>3
<1>2. CASE midnight /\ ~last
  <2>1. day' = d + 1 /\ month' = m /\ year' = y
    BY <1>2, Zenon DEF SetDate
  <2>2. exp_days(month', year') = exp_days(m, y) /\ exp_days(m, y) \in 28..31
    BY <2>1, Months
  <2> QED
    BY <1>2, <2>1, <2>2
<1>3. CASE ~midnight
  <2>1. day' = d /\ month' = m /\ year' = y
    BY <1>3, Zenon DEF SetDate
  <2> QED
    BY <2>1
<1> QED
  BY <1>1, <1>2, <1>3

(* A midnight, or none, after a day zero.                                    *)
LEMMA SetDateOfZero ==
    ASSUME NEW m \in 0..12, NEW y \in 0..UINT16_MAX, NEW midnight, NEW last, last <=> m = 0,
           SetDate(0, m, y, midnight, last)
    PROVE  /\ month' \in 0..12 /\ year' \in 0..UINT16_MAX
           /\ midnight => month' \in 1..12 /\ day' \in 1..exp_days(month', year')
           /\ ~midnight => day' = 0
<1>1. CASE midnight
  <2>1. day' = 1 /\ month' = (IF m = 0 THEN 1 ELSE m) /\ year' = y
    <3>1. CASE m = 0
      BY <1>1, <3>1 DEF SetDate
    <3>2. CASE m # 0
      BY <1>1, <3>2 DEF SetDate
    <3> QED
      BY <3>1, <3>2
  <2>2. month' \in 1..12
    BY <2>1
  <2>3. exp_days(month', year') \in 28..31
    BY <2>2, Months
  <2> QED
    BY <1>1, <2>1, <2>2, <2>3
<1>2. CASE ~midnight
  BY <1>2, Zenon DEF SetDate
<1> QED
  BY <1>1, <1>2

(* When a month ends: by the count of midnights, and where a time is set.    *)
LEMMA MonthOfZero ==
    ASSUME NEW m \in 0..12, NEW y
    PROVE  /\ 0 + 1 >= exp_days(m, y) <=> m = 0
           /\ 0 + 1 > month_day_cnt(m) <=> m = 0
<1>1. CASE m = 0
  BY <1>1 DEF exp_days, month_day_cnt
<1>2. CASE m # 0
  <2>1. m \in 1..12
    BY <1>2
  <2> QED
    BY <1>2, <2>1, Months
<1> QED
  BY <1>1, <1>2

(* SysTick counts the clock up.                                              *)
LEMMA TickKeepsDate ==
    ASSUME ClockReads, SysTick_Handler
    PROVE  ClockReads' /\ (DateExists \/ DayEnds => DateExists')
<1>1. SetDate(day, month, year, DayEnds, MonthEnds) /\ year \in 0..UINT16_MAX
  BY DEF SysTick_Handler, ClockReads
<1>2. hour' \in 0..23 /\ minute' \in 0..59 /\ second' \in 0..59 /\ msecond' \in 0..999
  BY DEF SysTick_Handler, ClockReads, DayEnds, HourEnds, MinuteEnds, SecondEnds
<1>3. exp_days(month, year)' = exp_days(month', year')
  BY DEF exp_days, time_is_leap_year
<1>4. CASE DateExists
  <2>1. month \in 1..12 /\ day \in 1..exp_days(month, year) /\ exp_days(month, year) \in 28..31
    BY <1>4, Months DEF DateExists
  <2>2. day \in Nat /\ (DayEnds /\ ~MonthEnds => day + 1 <= exp_days(month, year))
    BY <2>1 DEF MonthEnds
  <2>3. month' \in 1..12 /\ year' \in 0..UINT16_MAX /\ day' \in 1..exp_days(month', year')
    BY <1>1, <2>1, <2>2, SetDateExists
  <2> QED
    BY <1>2, <1>3, <2>3 DEF ClockReads, DateExists
<1>5. CASE NoDate
  <2>1. month \in 0..12 /\ day = 0
    BY <1>5 DEF NoDate
  <2>2. MonthEnds <=> month = 0
    BY <2>1, MonthOfZero DEF MonthEnds
  <2>3. SetDate(0, month, year, DayEnds, MonthEnds)
    BY <1>1, <2>1
  <2>4. /\ month' \in 0..12 /\ year' \in 0..UINT16_MAX
        /\ DayEnds => month' \in 1..12 /\ day' \in 1..exp_days(month', year')
        /\ ~DayEnds => day' = 0
    BY <1>1, <2>1, <2>2, <2>3, SetDateOfZero
  <2>5. ~DateExists
    BY <2>1 DEF DateExists
  <2> QED
    BY <1>2, <1>3, <2>4, <2>5 DEF ClockReads, DateExists, NoDate
<1> QED
  BY <1>4, <1>5 DEF ClockReads

(* The clock is set.                                                         *)
LEMMA SettingKeepsDate ==
    ASSUME NEW d \in 0..31, NEW m \in 0..12, NEW y \in 0..UINT16_MAX, NEW time \in TimeOfDay,
           NEW offset \in {1, 2}, time_set_utc(d, m, y, time, offset)
    PROVE  ClockReads' /\ (d # 0 => DateExists')
<1> DEFINE last     == d + 1 > month_day_cnt(m)
           midnight == time.hour + offset > 23
<1>1. SetDate(d, m, y, midnight, last) /\ d <= month_day_cnt(m)
  BY DEF time_set_utc, time_is_time_ok
<1>2. hour' \in 0..23 /\ minute' \in 0..59 /\ second' \in 0..59 /\ msecond' \in 0..999
  BY DEF time_set_utc, TimeOfDay
<1>3. exp_days(month, year)' = exp_days(month', year')
  BY DEF exp_days, time_is_leap_year
<1>4. CASE d # 0
  <2>1. m \in 1..12
    BY <1>1, <1>4 DEF month_day_cnt
  <2>2. /\ d \in 1..month_day_cnt(m) /\ month_day_cnt(m) \in 28..31
        /\ month_day_cnt(m) <= exp_days(m, y) /\ exp_days(m, y) \in 28..31
    BY <1>1, <1>4, <2>1, Months
  <2>3. d \in 1..exp_days(m, y) /\ d \in Nat /\ (midnight /\ ~last => d + 1 <= exp_days(m, y))
    BY <2>2
  <2>4. month' \in 1..12 /\ year' \in 0..UINT16_MAX /\ day' \in 1..exp_days(month', year')
    <3> HIDE DEF midnight, last
    <3> QED
      BY <1>1, <2>1, <2>3, SetDateExists
  <2> QED
    BY <1>2, <1>3, <2>4 DEF ClockReads, DateExists
<1>5. CASE d = 0
  <2>1. last <=> m = 0
    BY <1>5, MonthOfZero
  <2>2. /\ month' \in 0..12 /\ year' \in 0..UINT16_MAX
        /\ midnight => month' \in 1..12 /\ day' \in 1..exp_days(month', year')
        /\ ~midnight => day' = 0
    <3> HIDE DEF midnight, last
    <3>1. SetDate(0, m, y, midnight, last)
      BY <1>1, <1>5
    <3> QED
      BY <2>1, <3>1, SetDateOfZero
  <2> QED
    BY <1>2, <1>3, <1>5, <2>2 DEF ClockReads, DateExists, NoDate
<1> QED
  BY <1>4, <1>5

LEMMA ClockInvariant == Spec => []ClockReads
<1>1. Init => ClockReads
  BY Uint16 DEF Init, ClockReads, DateExists, exp_days, month_day_cnt, time_is_leap_year, UINT16_MAX
<1>2. ClockReads /\ [Next]_vars => ClockReads'
  <2> SUFFICES ASSUME ClockReads, [Next]_vars PROVE ClockReads'
    OBVIOUS
  <2>1. CASE SysTick_Handler
    BY <2>1, TickKeepsDate
  <2>2. CASE SetTime
    BY <2>2, SettingKeepsDate, Zenon DEF SetTime
  <2>3. CASE UNCHANGED timestamp
    BY <2>3 DEF timestamp, ClockReads, DateExists, NoDate, exp_days, time_is_leap_year
  <2> QED
    BY <2>1, <2>2, <2>3 DEF Next, TIM4_IRQHandler, vars
<1> QED
  BY <1>1, <1>2, PTL DEF Spec

(* The clock shows a date that exists, leap years included, and a time of the*)
(* day, except that it shows a day zero, for a day at most, when it was set  *)
(* to one: time_is_time_ok lets the zeros of a phone pass.                   *)
THEOREM DatesExist == Spec => []ClockReads /\ [][DatesLast]_vars
<1>1. ClockReads /\ [Next]_vars => DatesLast
  <2>1. ASSUME ClockReads, SysTick_Handler, DateExists \/ DayEnds
        PROVE  DateExists'
    BY <2>1, TickKeepsDate
  <2>2. ASSUME NEW d \in 1..31, NEW m \in 0..12, NEW y \in 0..UINT16_MAX, NEW time \in TimeOfDay,
               NEW offset \in {1, 2}, time_set_utc(d, m, y, time, offset)
        PROVE  DateExists'
    <3>1. d \in 0..31 /\ d # 0
      OBVIOUS
    <3> QED
      BY <2>2, <3>1, SettingKeepsDate
  <2> QED
    BY <2>1, <2>2, Zenon DEF DatesLast
<1> QED
  BY <1>1, ClockInvariant, PTL DEF Spec

(* The counting skips the last day of every month. *)
THEOREM LastDaysSkipped == Spec => [][LastDaysAreSkipped]_vars
<1>1. ClockReads => LastDaysAreSkipped
  <2> SUFFICES ASSUME ClockReads, SysTick_Handler, DayEnds
               PROVE  /\ day # exp_days(month, year) - 1 => Tomorrow
                      /\ day = exp_days(month, year) - 1 => day' = 1 /\ month' # month
                      /\ day' # exp_days(month', year')
    BY DEF LastDaysAreSkipped
  <2>1. SetDate(day, month, year, TRUE, MonthEnds)
    BY Zenon DEF SysTick_Handler
  <2>2. /\ MonthEnds => /\ day' = 1 /\ month' = (IF month = 12 THEN 1 ELSE month + 1)
                        /\ year' = IF month = 12 THEN NextYear(year) ELSE year
        /\ ~MonthEnds => day' = day + 1 /\ month' = month /\ year' = year
    BY <2>1, Zenon DEF SetDate
  <2>3. CASE NoDate
    <3>1. month \in 0..12 /\ day = 0 /\ (MonthEnds <=> month = 0)
      BY <2>3, MonthOfZero DEF NoDate, MonthEnds
    <3>2. day' = 1 /\ month' \in 1..12
      BY <2>2, <3>1
    <3>3. exp_days(month', year') \in 28..31
      BY <3>2, Months
    <3>4. exp_days(month, year) = 0 <=> month = 0
      <4>1. month # 0 => exp_days(month, year) \in 28..31
        BY <3>1, Months
      <4>2. month = 0 => exp_days(month, year) = 0
        BY DEF exp_days, month_day_cnt
      <4> QED
        BY <4>1, <4>2
    <3>5. Tomorrow
      <4>1. day = exp_days(month, year) <=> MonthEnds
        BY <3>1, <3>4
      <4> QED
        BY <2>1, <4>1, Zenon DEF Tomorrow, SetDate
    <3>6. day # exp_days(month, year) - 1
      <4>1. month # 0 => exp_days(month, year) \in 28..31
        BY <3>1, Months
      <4> QED
        BY <3>1, <3>4, <4>1
    <3> QED
      BY <3>2, <3>3, <3>5, <3>6
  <2>4. CASE DateExists
    <3>1. /\ month \in 1..12 /\ day \in 1..exp_days(month, year)
          /\ exp_days(month, year) \in 28..31
      BY <2>4, Months DEF DateExists
    <3>2. CASE MonthEnds
      <4>1. month' \in 1..12 /\ month' # month
        BY <2>2, <3>1, <3>2
      <4>2. exp_days(month', year') \in 28..31
        BY <4>1, Months
      <4>3. day # exp_days(month, year) - 1 => day = exp_days(month, year)
        BY <3>1, <3>2 DEF MonthEnds
      <4>4. day = exp_days(month, year) => Tomorrow
        BY <2>1, <3>2, Zenon DEF Tomorrow, SetDate
      <4> QED
        BY <2>2, <3>2, <4>1, <4>2, <4>3, <4>4
    <3>3. CASE ~MonthEnds
      <4>1. day + 1 < exp_days(month, year) /\ day # exp_days(month, year)
        BY <3>1, <3>3 DEF MonthEnds
      <4>2. Tomorrow
        BY <2>1, <3>3, <4>1, Zenon DEF Tomorrow, SetDate
      <4>3. exp_days(month', year') = exp_days(month, year)
        BY <2>2, <3>3
      <4> QED
        BY <2>2, <3>1, <3>3, <4>1, <4>2, <4>3
    <3> QED
      BY <3>2, <3>3
  <2> QED
    BY <2>3, <2>4 DEF ClockReads
<1> QED
  BY <1>1, ClockInvariant, PTL DEF Spec

-----------------------------------------------------------------------------

(* k tenths of a second after a timestamp was taken, ts_get_diff has counted *)
(* k of them, or one less when the counter has wrapped: a wait in the WiFi   *)
(* driver never ends before its timeout, and a tenth after it at the latest. *)
THEOREM TimeoutsEnd ==
    ASSUME NEW ts \in 0..UINT16_MAX, NEW k \in 0..655
    PROVE  ts_get_diff(ts, (ts + k) % (UINT16_MAX + 1)) \in {100 * k, 100 * (k - 1)} \cap Nat
<1> DEFINE N == UINT16_MAX + 1
<1>1. N \in Nat \ {0} /\ UINT16_MAX = N - 1 /\ 655 * 100 < N
  BY Uint16
<1> HIDE DEF N
<1>2. CASE ts + k < N
  <2>1. (ts + k) % N = ts + k
    BY <1>1, <1>2, Remainder
  <2>2. (k * 100) % N = k * 100
    BY <1>1, Remainder
  <2>3. ts_get_diff(ts, ts + k) = (k * 100) % N
    <3>1. ts <= ts + k /\ (ts + k) - ts = k
      BY <1>1
    <3> QED
      BY <3>1, Zenon DEF ts_get_diff, N
  <2> QED
    BY <1>1, <2>1, <2>2, <2>3 DEF N
<1>3. CASE ~(ts + k < N)
  <2>1. ts + k - N \in 0..(N - 1) /\ k \in 1..655
    BY <1>1, <1>3
  <2>2. ((ts + k - N) + N) % N = ts + k - N
    BY <1>1, <2>1, Remainder
  <2>3. (ts + k) % N = ts + k - N
    <3>1. (ts + k - N) + N = ts + k
      BY <1>1
    <3> QED
      BY <2>2, <3>1
  <2>4. ((k - 1) * 100) % N = (k - 1) * 100
    BY <1>1, <2>1, Remainder
  <2>5. ts_get_diff(ts, ts + k - N) = ((k - 1) * 100) % N
    <3>1. ~(ts <= ts + k - N)
      BY <1>1
    <3>2. (ts + k - N) + (UINT16_MAX - ts) = k - 1
      BY <1>1
    <3> QED
      BY <3>1, <3>2, Zenon DEF ts_get_diff, N
  <2> QED
    BY <1>1, <2>1, <2>3, <2>4, <2>5 DEF N
<1> QED
  BY <1>2, <1>3
=============================================================================
