-------------------------- MODULE ValueTypesProofs --------------------------
(***************************************************************************)
(* Proofs about ValueTypes: for every year of dates, the calendar and its  *)
(* day numbers agree; for every string of every length, what is printed    *)
(* and compared agrees with what was read.                                 *)
(***************************************************************************)
EXTENDS ValueTypes, Numbers, SequenceTheorems

\* The days that a month has.
LEMMA DaysFit ==
    ASSUME NEW y \in Nat, NEW m \in 1 .. 12
    PROVE  /\ DaysOf(y, m) \in {28, 29, 30, 31}
           /\ m \in {4, 6, 9, 11} => DaysOf(y, m) = 30
           /\ m = 2 => DaysOf(y, m) = IF IsLeap(y) THEN 29 ELSE 28
           /\ m \notin {2, 4, 6, 9, 11} => DaysOf(y, m) = 31
  BY DEF DaysOf

\* The day after a day: in its month, in the next month, in the next year.
LEMMA TomorrowIs ==
    ASSUME NEW y \in Nat, NEW m \in 1 .. 12, NEW d \in 1 .. 31
    PROVE  LET today == [year |-> y, month |-> m, day |-> d]
           IN  /\ d < DaysOf(y, m) => Tomorrow(today) = [year |-> y, month |-> m, day |-> d + 1]
               /\ d = DaysOf(y, m) /\ m < 12 =>
                      Tomorrow(today) = [year |-> y, month |-> m + 1, day |-> 1]
               /\ d = DaysOf(y, m) /\ m = 12 =>
                      Tomorrow(today) = [year |-> y + 1, month |-> 1, day |-> 1]
<1>1. PICK n \in {28, 29, 30, 31} : n = DaysOf(y, m)
  BY DaysFit
<1>2. PICK today : today = [year |-> y, month |-> m, day |-> d]
  OBVIOUS
<1>3. /\ today.year = y /\ today.month = m /\ today.day = d
      /\ [today EXCEPT !.day = d + 1] = [year |-> y, month |-> m, day |-> d + 1]
  BY <1>2
<1>4. Tomorrow(today) =
        CASE d < n -> [today EXCEPT !.day = d + 1]
          [] d = n /\ m < 12 -> [year |-> y, month |-> m + 1, day |-> 1]
          [] OTHER -> [year |-> y + 1, month |-> 1, day |-> 1]
  BY <1>1, <1>3 DEF Tomorrow
<1>5. d < n => Tomorrow(today) = [year |-> y, month |-> m, day |-> d + 1]
  BY <1>3, <1>4
<1>6. d = n /\ m < 12 => Tomorrow(today) = [year |-> y, month |-> m + 1, day |-> 1]
  BY <1>3, <1>4
<1>7. d = n /\ m = 12 => Tomorrow(today) = [year |-> y + 1, month |-> 1, day |-> 1]
  BY <1>4
<1>. QED
  BY <1>1, <1>2, <1>5, <1>6, <1>7

\* Dates stay days of the calendar.
LEMMA TomorrowExists ==
    ASSUME DayExists, NextDay
    PROVE  DayExists'
<1>1. /\ date.year \in Nat /\ date.month \in 1 .. 12 /\ date.day \in 1 .. 31
      /\ date = [year |-> date.year, month |-> date.month, day |-> date.day]
      /\ date.day <= DaysOf(date.year, date.month)
  BY DEF DayExists
<1>2. date' = Tomorrow(date)
  BY DEF NextDay
<1>3. DaysOf(date.year, date.month) \in {28, 29, 30, 31}
  BY <1>1, DaysFit
<1>4. CASE date.day < DaysOf(date.year, date.month)
  <2>1. date' = [year |-> date.year, month |-> date.month, day |-> date.day + 1]
    BY <1>1, <1>2, <1>4, TomorrowIs
  <2>. QED
    BY <1>1, <1>3, <1>4, <2>1 DEF DayExists
<1>5. CASE date.day = DaysOf(date.year, date.month) /\ date.month < 12
  <2>1. date' = [year |-> date.year, month |-> date.month + 1, day |-> 1]
    BY <1>1, <1>2, <1>5, TomorrowIs
  <2>2. date.month + 1 \in 1 .. 12
    BY <1>1, <1>5
  <2>3. DaysOf(date.year, date.month + 1) \in {28, 29, 30, 31}
    BY <1>1, <2>2, DaysFit
  <2>. QED
    BY <1>1, <2>1, <2>2, <2>3 DEF DayExists
<1>6. CASE date.day = DaysOf(date.year, date.month) /\ date.month = 12
  <2>1. date' = [year |-> date.year + 1, month |-> 1, day |-> 1]
    BY <1>1, <1>2, <1>6, TomorrowIs
  <2>2. DaysOf(date.year + 1, 1) \in {28, 29, 30, 31}
    BY <1>1, DaysFit
  <2>. QED
    BY <1>1, <2>1, <2>2 DEF DayExists
<1>. QED
  BY <1>1, <1>3, <1>4, <1>5, <1>6

\* The number of the day after the last one of a month.
LEMMA MonthsFollow ==
    ASSUME NEW y \in Nat
    PROVE  /\ \A m \in 1 .. 11 : MergeJulianDay(y, m + 1, 1) = MergeJulianDay(y, m, DaysOf(y, m)) + 1
           /\ MergeJulianDay(y + 1, 1, 1) = MergeJulianDay(y, 12, 31) + 1
<1>1. ASSUME NEW m \in {1, 3, 5, 7, 8, 10}
      PROVE  MergeJulianDay(y, m + 1, 1) = MergeJulianDay(y, m, 31) + 1
  BY DEF MergeJulianDay
<1>2. ASSUME NEW m \in {4, 6, 9, 11}
      PROVE  MergeJulianDay(y, m + 1, 1) = MergeJulianDay(y, m, 30) + 1
  BY DEF MergeJulianDay
<1>3. MergeJulianDay(y, 3, 1) = MergeJulianDay(y, 2, IF IsLeap(y) THEN 29 ELSE 28) + 1
  BY DEF MergeJulianDay, IsLeap
<1>4. MergeJulianDay(y + 1, 1, 1) = MergeJulianDay(y, 12, 31) + 1
  BY DEF MergeJulianDay
<1>5. ASSUME NEW m \in 1 .. 11
      PROVE  MergeJulianDay(y, m + 1, 1) = MergeJulianDay(y, m, DaysOf(y, m)) + 1
  <2>1. m \in {1, 3, 5, 7, 8, 10} => DaysOf(y, m) = 31
    BY DaysFit
  <2>2. m \in {4, 6, 9, 11} => DaysOf(y, m) = 30
    BY DaysFit
  <2>3. m = 2 => DaysOf(y, m) = IF IsLeap(y) THEN 29 ELSE 28
    BY DaysFit
  <2>4. m \in {1, 3, 5, 7, 8, 10} \/ m \in {4, 6, 9, 11} \/ m = 2
    OBVIOUS
  <2>. QED
    BY <1>1, <1>2, <1>3, <2>1, <2>2, <2>3, <2>4
<1>. QED
  BY <1>4, <1>5

\* In the year that begins in March, and in its century, a day is found again:
\* b is the century, y the year in it, r the day in the year.
LEMMA SplitYear ==
    ASSUME NEW i \in Nat, NEW j \in Nat, NEW k \in Nat, NEW l \in Nat, NEW r \in Nat,
           j <= 3, l <= 3, k <= 24, r <= 365,
           r = 365 => l = 3 /\ (k # 24 \/ j = 3),
           NEW b \in Nat, NEW y \in Nat, NEW a \in Nat,
           b = 4 * i + j, y = 4 * k + l,
           a = r + 36524 * b + i + 365 * y + k
    PROVE  /\ (4 * a + 3) \div 146097 = b
           /\ (4 * (a - (146097 * b) \div 4) + 3) \div 1461 = y
           /\ a - (146097 * b) \div 4 - (1461 * y) \div 4 = r
<1>1. (146097 * b) \div 4 = 36524 * b + i /\ (1461 * y) \div 4 = 365 * y + k
  OBVIOUS
<1>2. (4 * a + 3) \div 146097 = b
  OBVIOUS
<1>3. (4 * (365 * y + k + r) + 3) \div 1461 = y
  OBVIOUS
<1>4. a - (146097 * b) \div 4 = 365 * y + k + r
  BY <1>1
<1>. QED
  BY <1>1, <1>2, <1>3, <1>4

\* A day of the calendar is found again from its number.
LEMMA ReadBack ==
    ASSUME NEW y \in Nat, y <= 9999, NEW m \in Nat, 1 <= m, m <= 12, NEW d \in Nat, 1 <= d, d <= 31, d <= DaysOf(y, m)
    PROVE  /\ MergeJulianDay(y, m, d) \in Nat \ {0}
           /\ SplitJulianDay(MergeJulianDay(y, m, d)) = [year |-> y, month |-> m, day |-> d]
<1>1. PICK c : c = (14 - m) \div 12
  OBVIOUS
<1>2. PICK n : n = m + 12 * c - 3
  OBVIOUS
<1>3. /\ c \in {0, 1} /\ n \in 0 .. 11
      /\ c = n \div 10 /\ m = n + 3 - 12 * (n \div 10)
      /\ (n \in {1, 3, 6, 8} <=> m \in {4, 6, 9, 11}) /\ (n = 11 <=> m = 2)
  <2>1. m \in {1, 2, 3, 4, 5, 6, 7, 8, 9, 10, 11, 12}
    OBVIOUS
  <2>. QED
    BY <1>1, <1>2, <2>1
<1>4. PICK e : e = (153 * n + 2) \div 5 + d - 1
  OBVIOUS
<1>5. /\ (5 * e + 2) \div 153 = n /\ e \in Nat /\ e <= 365 /\ (e = 365 => m = 2 /\ d = 29)
      /\ d = e - (153 * n + 2) \div 5 + 1
  <2>1. /\ n \in {1, 3, 6, 8} => d <= 30
        /\ n = 11 => d <= 29
    BY <1>3, DaysFit
  <2>2. (5 * e + 2) \div 153 = n /\ e \in Nat /\ e <= 365 /\ (e = 365 => n = 11 /\ d = 29)
    <3>1. n \in {0, 1, 2, 3, 4, 5, 6, 7, 8, 9, 10, 11}
      BY <1>3
    <3>2. d \in Nat /\ d >= 1 /\ d <= 31
      OBVIOUS
    <3>. QED
      BY <1>4, <2>1, <3>1, <3>2
  <2>3. PICK f \in Nat : f = (153 * n + 2) \div 5
    BY <1>3
  <2>4. d = e - f + 1
    BY <1>4, <2>3
  <2>. QED
    BY <1>3, <2>2, <2>3, <2>4
<1>6. PICK z \in Nat : z = y + 4800 - c
  BY <1>3
<1>7. PICK b \in Nat, i \in Nat, j \in Nat, k \in Nat, l \in Nat, x \in Nat :
        /\ b = z \div 100 /\ i = b \div 4 /\ j = b % 4 /\ x = z % 100 /\ k = x \div 4 /\ l = x % 4
  OBVIOUS
<1>8. /\ z = 100 * b + x /\ x <= 99 /\ x = 4 * k + l /\ b = 4 * i + j
      /\ j <= 3 /\ l <= 3 /\ k <= 24
      /\ z \div 4 = 25 * b + k /\ z \div 400 = i
  BY <1>7
<1>9. e = 365 => l = 3 /\ (k # 24 \/ j = 3)
  <2>1. SUFFICES ASSUME e = 365 PROVE l = 3 /\ (k # 24 \/ j = 3)
    OBVIOUS
  <2>2. m = 2 /\ IsLeap(y)
    BY <1>5, <2>1, DaysFit
  <2>3. z = y + 4799
    BY <1>3, <1>6, <2>2
  <2>4. y % 4 = 0 /\ (y % 100 = 0 => y % 400 = 0)
    BY <2>2 DEF IsLeap
  <2>. QED
    BY <1>8, <2>3, <2>4
<1>10. PICK a : a = MergeJulianDay(y, m, d) + 32044
  OBVIOUS
<1>11. a = e + 36524 * b + i + 365 * x + k /\ a \in Nat
  <2>1. MergeJulianDay(y, m, d) = d + (153 * n + 2) \div 5 + 365 * z + z \div 4 - z \div 100 + z \div 400 - 32045
    BY <1>1, <1>2, <1>6 DEF MergeJulianDay
  <2>2. (153 * n + 2) \div 5 \in Nat
    BY <1>3
  <2>. QED
    BY <1>4, <1>7, <1>8, <1>10, <2>1, <2>2
<1>12. MergeJulianDay(y, m, d) \in Nat \ {0} /\ MergeJulianDay(y, m, d) + 32044 = a
  <2>1. MergeJulianDay(y, m, d) \in Int
    <3>1. PICK f \in Nat : f = (153 * n + 2) \div 5
      BY <1>3
    <3>2. MergeJulianDay(y, m, d) = d + f + 365 * z + z \div 4 - z \div 100 + z \div 400 - 32045
      BY <1>1, <1>2, <1>6, <3>1 DEF MergeJulianDay
    <3>. QED
      BY <3>2
  <2>2. b >= 47
    BY <1>3, <1>6, <1>8
  <2>3. a >= 36524 * b
    BY <1>5, <1>11
  <2>. QED
    BY <1>10, <1>11, <2>1, <2>2, <2>3
<1>13. /\ (4 * a + 3) \div 146097 = b
       /\ (4 * (a - (146097 * b) \div 4) + 3) \div 1461 = x
       /\ a - (146097 * b) \div 4 - (1461 * x) \div 4 = e
  BY <1>5, <1>8, <1>9, <1>11, SplitYear
<1>14. SplitJulianDay(MergeJulianDay(y, m, d)) =
         [year |-> (100 * b + x - 4800 + n \div 10) % UIntMod,
          month |-> n + 3 - 12 * (n \div 10),
          day |-> e - (153 * n + 2) \div 5 + 1]
  <2>. DEFINE A == MergeJulianDay(y, m, d) + 32044
              B == (4 * A + 3) \div 146097
              C == A - (146097 * B) \div 4
              D == (4 * C + 3) \div 1461
              E == C - (1461 * D) \div 4
              M == (5 * E + 2) \div 153
  <2>1. SplitJulianDay(MergeJulianDay(y, m, d)) =
            [year |-> (100 * B + D - 4800 + M \div 10) % UIntMod,
             month |-> M + 3 - 12 * (M \div 10),
             day |-> E - (153 * M + 2) \div 5 + 1]
    BY ONLY SMT DEF SplitJulianDay
  <2>2. A = a
    BY ONLY <1>12
  <2>. HIDE DEF A
  <2>3. B = b
    BY ONLY <1>13, <2>2
  <2>. HIDE DEF B
  <2>4. D = x
    BY ONLY <1>13, <2>2, <2>3
  <2>5. E = e
    BY ONLY <1>13, <2>2, <2>3, <2>4
  <2>. HIDE DEF C, D, E
  <2>6. M = n
    BY ONLY <1>5, <2>5
  <2>. HIDE DEF M
  <2>. QED
    BY ONLY <2>1, <2>3, <2>4, <2>5, <2>6
<1>15. 100 * b + x - 4800 + n \div 10 = y
  BY <1>3, <1>6, <1>8
<1>16. y % UIntMod = y
  BY CastsAssumption
<1>. QED
  BY <1>3, <1>5, <1>12, <1>14, <1>15, <1>16

\* The texts, numbers, strings and dates of other steps.
LEMMA OtherStepsKeepDate ==
    ASSUME ValuesNext
    PROVE  UNCHANGED date \/ NextDay
  BY DEF ValuesNext, Type, Cast, BuildRaw, Output, BuildString

\* Every date that is visited is a day of the calendar.
LEMMA DaysExist == ValuesSpec => []DayExists
<1>1. InitValues => DayExists
  <2>1. SUFFICES ASSUME InitValues PROVE DayExists
    OBVIOUS
  <2>2. PICK y \in Nat : date = [year |-> y, month |-> 1, day |-> 1]
    BY <2>1, ValuesAssumption DEF InitValues
  <2>3. DaysOf(y, 1) \in {28, 29, 30, 31}
    BY DaysFit
  <2>. QED
    BY <2>2, <2>3 DEF DayExists
<1>2. DayExists /\ [ValuesNext]_valueVars => DayExists'
  <2>1. DayExists /\ UNCHANGED date => DayExists'
    BY DEF DayExists
  <2>. QED
    BY <2>1, TomorrowExists, OtherStepsKeepDate DEF valueVars
<1>. QED
  BY <1>1, <1>2, PTL DEF ValuesSpec

\* In all years, with their leap years, the algorithm of the Calendar FAQ numbers
\* the days one after the other.
THEOREM EveryDayIsCounted == ValuesSpec => DaysAreCounted
<1>. DEFINE Number(today) == MergeJulianDay(today.year, today.month, today.day)
<1>1. ASSUME DayExists, [ValuesNext]_valueVars, date' # date
      PROVE  Number(date') = Number(date) + 1
  <2>1. NextDay
    BY <1>1, OtherStepsKeepDate DEF valueVars
  <2>2. PICK y \in Nat, m \in 1 .. 12, d \in 1 .. 31 :
          date = [year |-> y, month |-> m, day |-> d] /\ d <= DaysOf(y, m)
    BY <1>1 DEF DayExists
  <2>3. date' = Tomorrow(date) /\ DaysOf(y, m) \in {28, 29, 30, 31}
    BY <2>1, DaysFit DEF NextDay
  <2>4. CASE d < DaysOf(y, m)
    <3>1. date' = [year |-> y, month |-> m, day |-> d + 1]
      BY <2>2, <2>3, <2>4, TomorrowIs
    <3>2. MergeJulianDay(y, m, d + 1) = MergeJulianDay(y, m, d) + 1
      BY DEF MergeJulianDay
    <3>. QED
      BY <2>2, <3>1, <3>2
  <2>5. CASE d = DaysOf(y, m) /\ m < 12
    <3>1. date' = [year |-> y, month |-> m + 1, day |-> 1]
      BY <2>2, <2>3, <2>5, TomorrowIs
    <3>2. MergeJulianDay(y, m + 1, 1) = MergeJulianDay(y, m, d) + 1
      BY <2>5, MonthsFollow
    <3>. QED
      BY <2>2, <3>1, <3>2
  <2>6. CASE d = DaysOf(y, m) /\ m = 12
    <3>1. date' = [year |-> y + 1, month |-> 1, day |-> 1]
      BY <2>2, <2>3, <2>6, TomorrowIs
    <3>2. MergeJulianDay(y + 1, 1, 1) = MergeJulianDay(y, 12, 31) + 1 /\ d = 31
      BY <2>6, MonthsFollow, DaysFit
    <3>. QED
      BY <2>2, <2>6, <3>1, <3>2
  <2>. QED
    BY <2>2, <2>3, <2>4, <2>5, <2>6
<1>. QED
  BY <1>1, DaysExist, PTL DEF ValuesSpec, DaysAreCounted

\* Numbers that fit are read as they are.
LEMMA CastReads ==
    ASSUME NEW y \in Nat, y <= 9999, NEW m \in Nat, 1 <= m, m <= 12, NEW d \in Nat, 1 <= d, d <= 31
    PROVE  DateCast(y, m, d) = {MergeJulianDay(y, m, d)}
<1>1. UIntMod \in Nat /\ UIntMod > 9999
  BY CastsAssumption
<1>2. y % UIntMod = y /\ m % UIntMod = m /\ d % UIntMod = d
  BY <1>1
<1>3. UnsignedRead(y) = y /\ UnsignedRead(m) = m /\ UnsignedRead(d) = d
  BY <1>2 DEF UnsignedRead
<1>. QED
  BY <1>3 DEF DateCast

\* A year that is 2^32 too large is read as the year.
LEMMA CastWraps ==
    ASSUME NEW y \in Nat, y <= 9999
    PROVE  \A m, d : DateCast(UIntMod + y, m, d) = DateCast(y, m, d)
<1>1. UIntMod \in Nat /\ UIntMod > 9999
  BY CastsAssumption
<1>2. y % UIntMod = y /\ (UIntMod + y) % UIntMod = y
  BY <1>1
<1>3. UnsignedRead(y) = y /\ UnsignedRead(UIntMod + y) = y
  BY <1>2 DEF UnsignedRead
<1>. QED
  BY <1>3 DEF DateCast

\* The hours, minutes, seconds and milliseconds of a time make up the time.
LEMMA TimeSplits ==
    ASSUME NEW v \in Nat, v < 24 * 60 * 60 * 1000
    PROVE  LET t == SplitTime(v)
           IN  /\ t.hour < 24 /\ t.minute < 60 /\ t.second < 60 /\ t.ms < 1000
               /\ MergeTime(t.hour, t.minute, t.second, t.ms) = v
<1>1. PICK q \in Nat, ms \in Nat : v = 1000 * q + ms /\ ms < 1000 /\ ms = v % 1000
  BY SMT
<1>2. PICK p \in Nat, s \in Nat : q = 60 * p + s /\ s < 60 /\ s = q % 60
  BY SMT
<1>3. PICK h \in Nat, n \in Nat : p = 60 * h + n /\ n < 60 /\ n = p % 60
  BY SMT
<1>4. v \div 1000 = q /\ v \div 60000 = p /\ v \div 3600000 = h
  BY <1>1, <1>2, <1>3, SMT
<1>5. h < 24 /\ h % 24 = h
  BY <1>1, <1>2, <1>3, SMT
<1>6. SplitTime(v) = [ms |-> ms, second |-> s, minute |-> n, hour |-> h]
  BY <1>1, <1>2, <1>3, <1>4, <1>5, SMT DEF SplitTime
<1>7. MergeTime(h, n, s, ms) = v
  BY <1>1, <1>2, <1>3, SMT DEF MergeTime
<1>. QED
  BY <1>1, <1>2, <1>3, <1>5, <1>6, <1>7, SMT

\* A time stamp prints as its date and its time.
LEMMA StampPrints ==
    ASSUME NEW jd \in Nat \ {0}, NEW ms \in Nat, ms < 24 * 60 * 60 * 1000
    PROVE  LET t == TimestampOutput([day |-> jd, ms |-> ms])
           IN  /\ t.date = SplitJulianDay(jd) /\ ~ t.null
               /\ t.hour < 24 /\ t.minute < 60 /\ t.second < 60 /\ t.ms < 1000
               /\ MergeTime(t.hour, t.minute, t.second, t.ms) = ms
<1>1. PICK value : value = [day |-> jd, ms |-> ms]
  OBVIOUS
<1>2. value.day = jd /\ value.ms = ms /\ value # [day |-> 0, ms |-> 0]
  BY <1>1, SMT
<1>3. PICK t : t = TimestampOutput(value)
  OBVIOUS
<1>4. /\ t.null = (value = [day |-> 0, ms |-> 0])
      /\ t.date = SplitJulianDay(value.day)
      /\ t.hour = SplitTime(value.ms).hour /\ t.minute = SplitTime(value.ms).minute
      /\ t.second = SplitTime(value.ms).second /\ t.ms = SplitTime(value.ms).ms
  BY <1>3, Zenon DEF TimestampOutput
<1>5. ~ t.null
  BY <1>2, <1>4, Zenon
<1>6. /\ t.hour < 24 /\ t.minute < 60 /\ t.second < 60 /\ t.ms < 1000
      /\ MergeTime(t.hour, t.minute, t.second, t.ms) = ms
  BY <1>2, <1>4, TimeSplits, SMT
<1>. QED
  BY <1>1, <1>2, <1>3, <1>4, <1>5, <1>6

\* The days of a month are numbered one after the other.
LEMMA MonthIsNumbered ==
    ASSUME NEW y \in Nat, NEW m \in Nat, 1 <= m, m <= 12, NEW d \in Nat
    PROVE  MergeJulianDay(y, m, d) = MergeJulianDay(y, m, 1) + d - 1
<1>1. PICK a \in {0, 1} : a = (14 - m) \div 12
  BY SMT
<1>2. PICK x \in Nat, n \in Nat : x = y + 4800 - a /\ n = m + 12 * a - 3
  BY <1>1, SMT
<1>3. PICK f \in Int : f = (153 * n + 2) \div 5 + 365 * x + x \div 4 - x \div 100 + x \div 400 - 32045
  BY SMT
<1>4. MergeJulianDay(y, m, d) = d + f
  BY <1>1, <1>2, <1>3, SMT DEF MergeJulianDay
<1>5. MergeJulianDay(y, m, 1) = 1 + f
  BY <1>1, <1>2, <1>3, SMT DEF MergeJulianDay
<1>. QED
  BY <1>4, <1>5, SMT

\* For every day of the years 0 to 9999 and every time of the day: the day number
\* that a cast computes prints as the day that was read, its year is the one that is
\* extracted, and a time stamp prints as its day and its time.
THEOREM EveryDayReadsBack == ValuesSpec => []DatesReadBack
<1>1. ASSUME DayExists PROVE DatesReadBack
  <2>1. PICK y \in Nat, m \in Nat, d \in Nat :
          /\ 1 <= m /\ m <= 12 /\ 1 <= d /\ d <= 31
          /\ y = date.year /\ m = date.month /\ d = date.day
          /\ date = [year |-> y, month |-> m, day |-> d] /\ d <= DaysOf(y, m)
    BY <1>1 DEF DayExists
  <2>2. PICK jd : jd = MergeJulianDay(y, m, d)
    OBVIOUS
  <2>3. ASSUME y <= 9999
        PROVE  DateCast(y, m, d) = {jd} /\ DateCast(UIntMod + y, m, d) = {jd}
    BY <2>1, <2>2, <2>3, CastReads, CastWraps
  <2>4. ASSUME y <= 9999
        PROVE  jd \in Nat \ {0} /\ SplitJulianDay(jd) = date /\ extractYear(jd) = y
    <3>1. /\ MergeJulianDay(y, m, d) \in Nat \ {0}
          /\ SplitJulianDay(MergeJulianDay(y, m, d)) = [year |-> y, month |-> m, day |-> d]
      BY <2>1, <2>4, ReadBack
    <3>. QED
      BY <2>1, <2>2, <3>1 DEF extractYear
  <2>5. ASSUME y <= 9999, d = 1, NEW day \in Nat, 1 <= day, day <= 31
        PROVE  DateCast(y, m, day) = {jd + day - 1}
    <3>1. DateCast(y, m, day) = {MergeJulianDay(y, m, day)}
      BY <2>1, <2>5, CastReads
    <3>2. MergeJulianDay(y, m, day) = jd + day - 1
      BY <2>1, <2>2, <2>5, MonthIsNumbered, SMT
    <3>. QED
      BY <3>1, <3>2
  <2>6. ASSUME y <= 9999, NEW ms \in Times
        PROVE  StampReadsBack(jd, ms)
    <3>1. ms \in Nat /\ ms < 24 * 60 * 60 * 1000
      BY ValuesAssumption
    <3>. QED
      BY <2>4, <2>6, <3>1, StampPrints DEF StampReadsBack
  <2>7. DateCast(date.year, date.month, date.day) = DateCast(y, m, d)
        /\ DateCast(UIntMod + date.year, date.month, date.day) = DateCast(UIntMod + y, m, d)
        /\ MergeJulianDay(date.year, date.month, date.day) = jd
        /\ \A day : DateCast(date.year, date.month, day) = DateCast(y, m, day)
    BY <2>1, <2>2
  <2>8. \A day \in 1 .. 31 : day \in Nat /\ 1 <= day /\ day <= 31
    OBVIOUS
  <2>9. ASSUME date.year <= 9999
        PROVE  /\ DateCast(date.year, date.month, date.day) =
                      {MergeJulianDay(date.year, date.month, date.day)}
               /\ DateCast(UIntMod + date.year, date.month, date.day) =
                      DateCast(date.year, date.month, date.day)
    BY <2>1, <2>3, <2>7, <2>9
  <2>10. ASSUME date.year <= 9999, NEW x \in DateCast(date.year, date.month, date.day)
         PROVE  /\ SplitJulianDay(x) = date /\ extractYear(x) = date.year
                /\ date.day = 1 => MonthReadsBack(x)
                /\ \A ms \in Times : StampReadsBack(x, ms)
    <3>1. y <= 9999 /\ x = jd
      BY <2>1, <2>3, <2>7, <2>10
    <3>2. SplitJulianDay(x) = date /\ extractYear(x) = date.year
      BY <2>1, <2>4, <3>1
    <3>3. date.day = 1 => MonthReadsBack(x)
      BY <2>1, <2>5, <2>7, <2>8, <3>1 DEF MonthReadsBack
    <3>. QED
      BY <2>6, <3>1, <3>2, <3>3
  <2>. QED
    BY <2>9, <2>10 DEF DatesReadBack
<1>. QED
  BY <1>1, DaysExist, PTL
-----------------------------------------------------------------------------
\* A text that ends with something other than a blank has a first such character:
\* so many blanks are skipped.
LEMMA BlanksEnd ==
    ASSUME NEW str \in Seq(Nat), str # <<>>, str[Len(str)] # Blank
    PROVE  \E n \in 0 .. Len(str) - 1 :
               /\ str[n + 1] # Blank
               /\ \A i \in 1 .. n : str[i] = Blank
               /\ \A strLen : CharCast(str, strLen) =
                      IF n <= strLen /\ strLen - n <= kMaxLen
                      THEN {SubSeq(str, n + 1, strLen)} ELSE {}
<1>1. Len(str) \in Nat \ {0}
  BY EmptySeq
<1>. DEFINE T == {n \in 0 .. Len(str) - 1 : str[n + 1] # Blank}
<1>2. T \subseteq Nat /\ Len(str) - 1 \in T
  BY <1>1
<1>3. PICK n \in T : \A m \in T : n <= m
  BY <1>2, LeastNumber
<1>4. n \in 0 .. Len(str) - 1 /\ str[n + 1] # Blank
  BY <1>3
<1>. HIDE DEF T
<1>5. ASSUME NEW i \in 1 .. n PROVE str[i] = Blank
  <2>1. i - 1 \in 0 .. Len(str) - 1 /\ i - 1 < n /\ (i - 1) + 1 = i
    BY <1>1, <1>4
  <2>2. i - 1 \notin T
    BY <1>3, <1>4, <2>1
  <2>. QED
    BY <2>1, <2>2 DEF T
<1>6. ASSUME NEW m \in 0 .. Len(str) - 1, str[m + 1] # Blank, \A i \in 1 .. m : str[i] = Blank
      PROVE  m = n
  <2>1. ~ (m < n)
    BY <1>4, <1>5, <1>6
  <2>2. ~ (n < m)
    BY <1>4, <1>6
  <2>. QED
    BY <1>4, <2>1, <2>2
<1>. DEFINE skipped == CHOOSE k \in 0 .. Len(str) - 1 :
                           /\ str[k + 1] # Blank
                           /\ \A i \in 1 .. k : str[i] = Blank
<1>7. skipped = n
  <2>1. /\ skipped \in 0 .. Len(str) - 1
        /\ str[skipped + 1] # Blank
        /\ \A i \in 1 .. skipped : str[i] = Blank
    BY <1>4, <1>5
  <2>. HIDE DEF skipped
  <2>. QED
    BY <1>6, <2>1
<1>8. ASSUME NEW strLen
      PROVE  CharCast(str, strLen) = IF n <= strLen /\ strLen - n <= kMaxLen
                                     THEN {SubSeq(str, n + 1, strLen)} ELSE {}
  BY <1>7, Zenon DEF CharCast
<1>. QED
  BY <1>4, <1>5, <1>8

\* A part of a string is made of its characters.
LEMMA PartOf ==
    ASSUME NEW S, NEW s \in Seq(S), NEW m \in 1 .. Len(s) + 1, NEW n \in 0 .. Len(s)
    PROVE  SubSeq(s, m, n) \in Seq(S) /\ Len(SubSeq(s, m, n)) = IF m <= n THEN n - m + 1 ELSE 0
<1>1. Len(s) \in Nat /\ \A i \in m .. n : s[i] \in S
  BY LenProperties, ElementOfSeq
<1>. QED
  BY <1>1, SubSeqProperties

\* The first characters of a C string fit.
LEMMA FirstFit ==
    ASSUME NEW s \in Seq(Codes)
    PROVE  /\ FirstOf(s) \in Seq(Codes)
           /\ Len(FirstOf(s)) <= kMaxLen
           /\ Len(s) <= kMaxLen => FirstOf(s) = s
           /\ Len(FirstOf(s)) <= Len(s)
           /\ IsPrefix(FirstOf(s), s)
<1>. DEFINE n == IF Len(s) < kMaxLen THEN Len(s) ELSE kMaxLen
<1>1. Len(s) \in Nat /\ n \in 0 .. Len(s) /\ n <= kMaxLen
  BY LenProperties, StringsAssumption
<1>2. FirstOf(s) = SubSeq(s, 1, n) /\ FirstOf(s) \in Seq(Codes) /\ Len(FirstOf(s)) = n
  BY <1>1, PartOf DEF FirstOf
<1>3. Len(s) <= kMaxLen => FirstOf(s) = s
  BY <1>1, <1>2, SubSeqFull, StringsAssumption
<1>4. SubSeq(FirstOf(s), 1, Len(FirstOf(s))) = SubSeq(s, 1, Len(FirstOf(s)))
  BY <1>2, SubSeqFull
<1>. HIDE DEF n
<1>. QED
  BY <1>1, <1>2, <1>3, <1>4 DEF IsPrefix

\* A Char is built of its C string alone: the first 0 of the copy is its end, and what
\* has been copied from behind it is cut off.
LEMMA CharBuildIs ==
    ASSUME NEW s \in Seq(Codes), NEW behind \in Memory
    PROVE  CharBuild(s, behind) = FirstOf(s)
<1>. DEFINE str == s \o << 0 >> \o behind
            copied == SubSeq(str, 1, kMaxLen)
            ends == {n \in 0 .. kMaxLen : n < kMaxLen => copied[n + 1] = 0}
            N == IF Len(s) < kMaxLen THEN Len(s) ELSE kMaxLen
<1>1. /\ s \in Seq(Nat) /\ Len(s) \in Nat /\ kMaxLen \in Nat /\ 1 \in Int /\ kMaxLen \in Int
      /\ \A i \in 1 .. Len(s) : s[i] \in Codes /\ s[i] # 0 /\ s[i] \in Nat
  BY ValuesAssumption, StringsAssumption, SeqMonotonic, LenProperties, ElementOfSeq
<1>2. behind \in Seq(Nat) /\ Len(behind) = kMaxLen
  <2>1. PICK b \in Codes \cup {0} : behind = [i \in 1 .. kMaxLen |-> b]
    BY DEF Memory
  <2>2. b \in Nat
    BY ValuesAssumption
  <2>3. behind \in [1 .. kMaxLen -> Nat]
    BY <2>1, <2>2
  <2>4. behind \in Seq(Nat)
    BY <1>1, <2>3, SeqDef
  <2>. QED
    BY <1>1, <2>3, <2>4, LenProperties
<1>3. PICK d : d = s \o << 0 >>
  OBVIOUS
<1>4. /\ d \in Seq(Nat) /\ Len(d) = Len(s) + 1 /\ d[Len(s) + 1] = 0
      /\ \A i \in 1 .. Len(s) : d[i] = s[i]
  <2>1. << 0 >> \in Seq(Nat) /\ Len(<< 0 >>) = 1 /\ << 0 >>[1] = 0
    OBVIOUS
  <2>. QED
    BY <1>1, <1>3, <2>1, ConcatProperties
<1>5. /\ str \in Seq(Nat) /\ Len(str) = Len(s) + 1 + kMaxLen /\ str[Len(s) + 1] = 0
      /\ \A i \in 1 .. Len(s) : str[i] = s[i]
  <2>1. str = d \o behind
    BY <1>3
  <2>. HIDE DEF str
  <2>2. /\ str \in Seq(Nat) /\ Len(str) = Len(d) + Len(behind)
        /\ \A i \in 1 .. Len(d) + Len(behind) : str[i] = IF i <= Len(d) THEN d[i] ELSE behind[i - Len(d)]
    BY <1>2, <1>4, <2>1, ConcatProperties
  <2>3. Len(s) + 1 \in 1 .. Len(d) + Len(behind) /\ \A i \in 1 .. Len(s) : i \in 1 .. Len(d) + Len(behind)
    BY <1>1, <1>2, <1>4
  <2>. QED
    BY <1>1, <1>2, <1>4, <2>2, <2>3
<1>. HIDE DEF str
<1>6. \A i \in 1 .. kMaxLen : str[i] \in Nat
  BY <1>1, <1>5, ElementOfSeq
<1>7. Len(copied) = kMaxLen /\ copied \in Seq(Nat) /\ \A i \in 1 .. kMaxLen : copied[i] = str[i]
  BY <1>1, <1>6, SubSeqProperties, Z3
<1>. HIDE DEF copied
<1>8. N \in 0 .. kMaxLen /\ N <= Len(s) /\ N \in Nat
  BY <1>1
<1>9. N \in ends
  BY <1>1, <1>5, <1>7
<1>10. \A n \in ends : N <= n
  <2>1. ASSUME NEW n \in ends, n < N PROVE FALSE
    <3>1. n \in 0 .. kMaxLen /\ n < kMaxLen /\ copied[n + 1] = 0 /\ n + 1 \in 1 .. Len(s) /\ n + 1 \in 1 .. kMaxLen
      BY <1>1, <1>8, <2>1
    <3>. QED
      BY <1>1, <1>5, <1>7, <3>1
  <2>. QED
    BY <1>8, <2>1
<1>11. \A n \in ends : (\A k \in ends : n <= k) => n = N
  BY <1>8, <1>9, <1>10
<1>12. CharBuild(s, behind) = SubSeq(copied, 1, N)
  <2>1. CharBuild(s, behind) = SubSeq(copied, 1, CHOOSE n \in ends : \A k \in ends : n <= k)
    BY DEF CharBuild, copied, str
  <2>. HIDE DEF ends, N
  <2>2. (CHOOSE n \in ends : \A k \in ends : n <= k) = N
    BY <1>9, <1>10, <1>11
  <2>. QED
    BY <2>1, <2>2
<1>13. FirstOf(s) = SubSeq(s, 1, N)
  BY DEF FirstOf
<1>. HIDE DEF N
<1>14. ASSUME NEW i \in 1 .. N PROVE copied[i] \in Nat /\ s[i] \in Nat /\ copied[i] = s[i]
  <2>1. i \in 1 .. Len(s) /\ i \in 1 .. kMaxLen
    BY <1>1, <1>8
  <2>2. copied[i] = str[i] /\ str[i] = s[i] /\ s[i] \in Nat
    BY <1>1, <1>5, <1>7, <2>1
  <2>. QED
    BY <2>2
<1>15. /\ SubSeq(copied, 1, N) \in Seq(Nat) /\ Len(SubSeq(copied, 1, N)) = N
       /\ \A i \in 1 .. N : SubSeq(copied, 1, N)[i] = copied[i]
  BY <1>8, <1>14, SubSeqProperties, Z3
<1>16. /\ SubSeq(s, 1, N) \in Seq(Nat) /\ Len(SubSeq(s, 1, N)) = N
       /\ \A i \in 1 .. N : SubSeq(s, 1, N)[i] = s[i]
  BY <1>8, <1>14, SubSeqProperties, Z3
<1>17. SubSeq(copied, 1, N) = SubSeq(s, 1, N)
  BY <1>14, <1>15, <1>16, SeqEqual
<1>. QED
  BY <1>12, <1>13, <1>17

\* What lies behind the characters that are cast does not matter, when it ends with
\* something other than a blank.
LEMMA CharCastIs ==
    ASSUME NEW s \in Seq(Codes), NEW rest \in {<< 0 >>, <<Blank, 0>>},
           NEW x \in CharCast(s \o rest, Len(s))
    PROVE  x \in Seq(Codes) /\ Len(x) <= kMaxLen
<1>1. s \in Seq(Nat) /\ rest \in Seq(Nat) /\ Len(s) \in Nat /\ Len(rest) \in {1, 2} /\ rest[Len(rest)] = 0
  <2>1. Codes \subseteq Nat
    BY ValuesAssumption
  <2>2. s \in Seq(Nat) /\ Len(s) \in Nat
    BY <2>1, SeqMonotonic, LenProperties
  <2>3. << 0 >> \in Seq(Nat) /\ Len(<< 0 >>) = 1 /\ << 0 >>[1] = 0
    OBVIOUS
  <2>4. <<Blank, 0>> \in Seq(Nat) /\ Len(<<Blank, 0>>) = 2 /\ <<Blank, 0>>[2] = 0
    BY DEF Blank
  <2>. QED
    BY <2>2, <2>3, <2>4
<1>. DEFINE str == s \o rest
<1>2. str \in Seq(Nat) /\ Len(str) = Len(s) + Len(rest) /\ str[Len(str)] = 0
      /\ \A i \in 1 .. Len(s) : str[i] = s[i]
  BY <1>1, ConcatProperties
<1>3. str # <<>> /\ str[Len(str)] # Blank
  BY <1>1, <1>2 DEF Blank
<1>. HIDE DEF str
<1>4. PICK n \in 0 .. Len(str) - 1 :
          CharCast(str, Len(s)) = IF n <= Len(s) /\ Len(s) - n <= kMaxLen
                                  THEN {SubSeq(str, n + 1, Len(s))} ELSE {}
  BY <1>2, <1>3, BlanksEnd
<1>5. n \in Nat /\ n <= Len(s) /\ Len(s) - n <= kMaxLen /\ x = SubSeq(str, n + 1, Len(s))
  BY <1>1, <1>4 DEF str
<1>6. ASSUME NEW i \in n + 1 .. Len(s) PROVE str[i] \in Codes
  <2>1. i \in 1 .. Len(s)
    BY <1>1, <1>5
  <2>. QED
    BY <1>2, <2>1, ElementOfSeq
<1>7. x \in Seq(Codes) /\ Len(x) = IF n + 1 <= Len(s) THEN Len(s) - (n + 1) + 1 ELSE 0
  BY <1>1, <1>5, <1>6, SubSeqProperties
<1>. QED
  BY <1>1, <1>5, <1>7, StringsAssumption

\* Every string that is built or cast fits.
LEMMA StringsFit == ValuesSpec => []StringFits
<1>1. InitValues => StringFits
  BY EmptySeq, StringsAssumption DEF InitValues, StringFits
<1>2. ASSUME StringFits, BuildString PROVE StringFits'
  <2>1. PICK c \in Codes :
          \/ string' = VarcharBuild(Append(string, c))
          \/ \E behind \in Memory : string' = CharBuild(Append(string, c), behind)
          \/ string' \in VarcharCast(Append(string, c))
          \/ \E rest \in {<< 0 >>, <<Blank, 0>>} :
                 string' \in CharCast(Append(string, c) \o rest, Len(Append(string, c)))
    BY <1>2 DEF BuildString
  <2>2. Append(string, c) \in Seq(Codes)
    BY <1>2, AppendProperties DEF StringFits
  <2>3. \A behind \in Memory : CharBuild(Append(string, c), behind) = FirstOf(Append(string, c))
    BY <2>2, CharBuildIs
  <2>. QED
    BY <2>1, <2>2, <2>3, FirstFit, CharCastIs DEF VarcharBuild, VarcharCast, StringFits
<1>3. ASSUME Type \/ Cast \/ BuildRaw \/ Output \/ NextDay \/ UNCHANGED valueVars
      PROVE  string' = string
  BY <1>3 DEF Type, Cast, BuildRaw, Output, NextDay, valueVars
<1>4. StringFits /\ [ValuesNext]_valueVars => StringFits'
  BY <1>2, <1>3 DEF ValuesNext, StringFits
<1>. QED
  BY <1>1, <1>4, PTL DEF ValuesSpec

\* A string that is printed and cast as a Char loses the blanks in front.
LEMMA BlanksAreLost ==
    ASSUME StringFits, NEW front, front = BlanksInFront(string)
    PROVE  CharCast(string \o << 0 >>, Len(string)) = {SubSeq(string, front + 1, Len(string))}
<1>1. string \in Seq(Codes) /\ string \in Seq(Nat) /\ Len(string) \in Nat
      /\ << 0 >> \in Seq(Nat) /\ Len(<< 0 >>) = 1
  BY ValuesAssumption, SeqMonotonic, LenProperties DEF StringFits
<1>. DEFINE str == string \o << 0 >>
            blanks == {n \in 0 .. Len(string) : \A i \in 1 .. n : string[i] = Blank}
<1>2. /\ str \in Seq(Nat) /\ Len(str) = Len(string) + 1 /\ str[Len(str)] = 0
      /\ \A i \in 1 .. Len(string) : str[i] = string[i]
  BY <1>1, ConcatProperties
<1>3. str # <<>> /\ str[Len(str)] # Blank
  BY <1>1, <1>2 DEF Blank
<1>. HIDE DEF str
<1>4. PICK n \in 0 .. Len(str) - 1 :
          /\ str[n + 1] # Blank
          /\ \A i \in 1 .. n : str[i] = Blank
          /\ CharCast(str, Len(string)) = IF n <= Len(string) /\ Len(string) - n <= kMaxLen
                                          THEN {SubSeq(str, n + 1, Len(string))} ELSE {}
  BY <1>2, <1>3, BlanksEnd
<1>5. n \in Nat /\ n <= Len(string) /\ Len(string) - n <= kMaxLen
  BY <1>1, <1>2, <1>4, StringsAssumption DEF StringFits
<1>6. n \in blanks
  <2>1. ASSUME NEW i \in 1 .. n PROVE string[i] = Blank
    <3>1. i \in 1 .. Len(string)
      BY <1>1, <1>5
    <3>. QED
      BY <1>2, <1>4, <3>1
  <2>. QED
    BY <1>1, <1>5, <2>1
<1>7. ASSUME NEW m \in blanks PROVE m <= n
  <2>1. SUFFICES ASSUME n < m PROVE FALSE
    BY <1>5
  <2>2. n + 1 \in 1 .. m /\ n + 1 \in 1 .. Len(string)
    BY <1>1, <1>5, <2>1
  <2>. QED
    BY <1>2, <1>4, <2>2
<1>8. front = n
  <2>1. front \in blanks /\ \A m \in blanks : m <= front
    BY <1>6, <1>7 DEF BlanksInFront
  <2>2. front <= n /\ n <= front
    BY <1>6, <1>7, <2>1
  <2>. QED
    BY <1>5, <2>1, <2>2
<1>9. SubSeq(str, n + 1, Len(string)) = SubSeq(string, n + 1, Len(string))
  <2>1. CASE n = Len(string)
    <3>1. Len(string) < n + 1
      BY <1>1, <2>1
    <3>. QED
      BY <1>1, <1>5, <3>1, SubSeqEmpty
  <2>2. CASE n < Len(string)
    <3>1. n + 1 \in 1 .. Len(string) /\ Len(string) \in 1 .. Len(string)
      BY <1>1, <1>5, <2>2
    <3>. QED
      BY <1>1, <3>1, SubSeqOfConcat1 DEF str
  <2>. QED
    BY <1>1, <1>5, <2>1, <2>2
<1>. QED
  BY <1>4, <1>5, <1>8, <1>9 DEF str

\* For strings of every length and every character: a string that was built equals
\* its C string, a Char no other, and what is printed is cast to the same string.
THEOREM EveryStringReadsBack == ValuesSpec => []StringsReadBack
<1>1. ASSUME StringFits PROVE StringsReadBack
  <2>. DEFINE cstrings == UNION {[1 .. n -> Codes] : n \in 0 .. kMaxLen + 1}
  <2>1. string \in Seq(Codes) /\ Len(string) \in Nat /\ Len(string) <= kMaxLen
    BY <1>1, LenProperties DEF StringFits
  <2>2. Len(string) \in Lengths(kMaxLen)
    BY <2>1, StringsAssumption DEF Lengths
  <2>3. VarcharCast(StringOutput(string)) = {string}
    BY <2>1 DEF VarcharCast, StringOutput
  <2>4. ASSUME NEW s \in cstrings
        PROVE  /\ VarcharBuild(s) = string => VarcharIs(string, s)
               /\ \A behind \in Memory :
                      TRUE \in CharIs(string, s) <=> CharBuild(s, behind) = string /\ Len(s) <= kMaxLen
               /\ string # <<>> => CharIs(string, s) = {~ CharIsNot(string, s)}
    <3>1. s \in Seq(Codes)
      BY <2>4, SeqDef, StringsAssumption
    <3>2. VarcharBuild(s) = string => VarcharIs(string, s)
      BY <3>1, FirstFit DEF VarcharBuild, VarcharIs
    <3>3. TRUE \in CharIs(string, s) <=> string = s
      BY Zenon DEF CharIs
    <3>4. ASSUME NEW behind \in Memory
          PROVE  TRUE \in CharIs(string, s) <=> CharBuild(s, behind) = string /\ Len(s) <= kMaxLen
      BY <2>1, <3>1, <3>3, FirstFit, CharBuildIs
    <3>5. string # <<>> => CharIs(string, s) = {~ CharIsNot(string, s)}
      BY Zenon DEF CharIs, CharIsNot
    <3>. QED
      BY <3>2, <3>4, <3>5
  <2>5. ASSUME NEW c \in Codes \ {Blank}
        PROVE  /\ SingleBuild(SingleOutput(c)) = c
               /\ SingleIs(c, string) => CharIs(<<c>>, string) = {TRUE}
    <3>1. <<c>> \in Seq(Codes) /\ Len(<<c>>) = 1 /\ <<c>>[1] = c /\ <<c>> # <<>>
      OBVIOUS
    <3>2. SingleOutput(c) = <<c>>
      BY <3>1, SubSeqFull DEF SingleOutput, SingleLength
    <3>3. SingleBuild(<<c>>) = c
      BY <3>1 DEF SingleBuild
    <3>4. string = <<c>> => CharIs(<<c>>, string) = {TRUE}
      <4>1. <<c>> # <<>>
        BY <3>1
      <4>. QED
        BY <4>1, Zenon DEF CharIs
    <3>. QED
      BY <3>2, <3>3, <3>4 DEF SingleIs
  <2>6. PICK front : front = BlanksInFront(string)
    OBVIOUS
  <2>7. CharCast(string \o << 0 >>, Len(string)) = {SubSeq(string, front + 1, Len(string))}
    BY <1>1, <2>6, BlanksAreLost
  <2>8. CharCast(StringOutput(string) \o << 0 >>, Len(string)) = {SubSeq(string, front + 1, Len(string))}
    BY <2>7 DEF StringOutput
  <2>. QED
    BY <2>2, <2>3, <2>4, <2>5, <2>6, <2>8, Zenon DEF StringsReadBack
<1>. QED
  BY <1>1, StringsFit, PTL
=============================================================================
