------------------------------- MODULE Casts -------------------------------
(***************************************************************************)
(* The value types of include/imlab/infra/types.h and types.cc: numbers    *)
(* read from text and printed (Integer, Numeric), and dates as Julian day  *)
(* numbers.  A text is a sequence of characters; a cast gives the set of   *)
(* its result, or {} when it throws.  Where the code overflows a signed    *)
(* number, the result is what two's complement makes of it.                *)
(***************************************************************************)
EXTENDS Integers, Sequences, SequencesExt

CONSTANTS
    IntHalf,       \* 2^31: an Integer is in -IntHalf .. IntHalf - 1
    IntDigits,     \* the digits that Integer::castString accepts: 10
    LongHalf,      \* 2^63: likewise for the value of a Numeric
    LongDigits,    \* the digits before the point that it accepts: 18
    Precision,     \* Numeric's digits behind the point
    UIntMod        \* 2^32: the parts of a date are unsigned

ASSUME CastsAssumption ==
    /\ {IntHalf, IntDigits, LongHalf, LongDigits, Precision, UIntMod} \subseteq Nat \ {0}
    /\ UIntMod > 9999

Digit == [c \in {"0", "1", "2", "3", "4", "5", "6", "7", "8", "9"} |->
    CHOOSE n \in 0 .. 9 : <<"0", "1", "2", "3", "4", "5", "6", "7", "8", "9">>[n + 1] = c]
Digits == DOMAIN Digit

Wrap(n, half) == ((n + half) % (2 * half)) - half

\* result = (result * 10) + (c - '0'), digit after digit.
Accumulated(digits) == FoldLeft(LAMBDA n, c : 10 * n + Digit[c], 0, digits)

\* Between the first and the last character that is not one of what.
Inside(text, what) ==
    LET kept == {i \in DOMAIN text : text[i] \notin what}
    IN  IF kept = {} THEN <<>>
        ELSE SubSeq(text, CHOOSE i \in kept : \A j \in kept : i <= j,
                          CHOOSE i \in kept : \A j \in kept : i >= j)

Trimmed(text) == Inside(text, {" "})
Negative(text) == Trimmed(text) # <<>> /\ Head(Trimmed(text)) = "-"
Signed(text) == Trimmed(text) # <<>> /\ Head(Trimmed(text)) \in {"-", "+"}
Unsigned(text) == IF Signed(text) THEN Tail(Trimmed(text)) ELSE Trimmed(text)

\* The position of the first point, or behind the end.
Point(number) ==
    CHOOSE p \in 1 .. Len(number) + 1 :
        /\ p \in DOMAIN number => number[p] = "."
        /\ \A i \in 1 .. p - 1 : number[i] # "."

Whole(number) == SubSeq(number, 1, Point(number) - 1)

\* Faulty: zeros at the end count as digits.
AllBehindPoint(number) == SubSeq(number, Point(number) + 1, Len(number))

\* Behind the point, without the zeros at the end.
Fraction(number) ==
    LET behind == SubSeq(number, Point(number) + 1, Len(number))
        kept == {i \in 0 .. Len(behind) : \A j \in i + 1 .. Len(behind) : behind[j] = "0"}
    IN  SubSeq(behind, 1, CHOOSE i \in kept : \A j \in kept : i <= j)

Sign(text) == IF Negative(text) THEN -1 ELSE 1

\* Integer::castString: what follows the point is not looked at.
IntegerCast(text) ==
    LET digits == Whole(Unsigned(text))
    IN  IF \/ Unsigned(text) = <<>>
           \/ ~ ToSet(digits) \subseteq Digits
           \/ Len(digits) > IntDigits
        THEN {}
        ELSE {Wrap(Sign(text) * Accumulated(digits), IntHalf)}

\* Numeric<len, Precision>::castString
NumericCast(text) ==
    LET number == Unsigned(text)
        whole == Whole(number)
        fraction == Fraction(number)
    IN  IF \/ number = <<>>
           \/ ~ ToSet(whole \o fraction) \subseteq Digits
           \/ Len(whole) > LongDigits \/ Len(fraction) > Precision
        THEN {}
        ELSE {Wrap(Sign(text) * Accumulated(whole \o fraction)
                      * 10^(Precision - Len(fraction)), LongHalf)}
-----------------------------------------------------------------------------
\* What std::ostream makes of a number that is not negative.
Decimal(n) ==
    LET width == CHOOSE k \in 1 .. n + 1 : n < 10^k /\ (k > 1 => n >= 10^(k - 1))
    IN  [i \in 1 .. width |-> CHOOSE c \in Digits : Digit[c] = (n \div 10^(width - i)) % 10]

\* Faulty: no zeros in front.
NoZeros(behind, precision) == 0

\* How often the zero is printed between the point and the number behind it.
LeadingZeros(behind, precision) ==
    IF behind = 0 THEN precision - 1
    ELSE CHOOSE k \in 0 .. precision - 1 :
             /\ 10^precision <= 10 * behind * 10^k
             /\ k > 0 => 10^precision > behind * 10^k

\* operator<< of Numeric<len, precision>, by its result, or {} when it does not return:
\* the negative of the least value is the least value, which prints a second sign, and
\* the loop that prints zeros never reaches a number below 0.
NumericOutput(value, precision) ==
    LET v == IF value < 0 THEN - value ELSE value
        behind == v % 10^precision
        sign == IF value = - LongHalf THEN <<"-", "-">> ELSE IF value < 0 THEN <<"-">> ELSE <<>>
    IN  IF precision = 0 THEN {sign \o Decimal(v)}
        ELSE IF value = - LongHalf /\ behind # 0 THEN {}
        ELSE {sign \o Decimal(v \div 10^precision) \o <<".">>
              \o [i \in 1 .. LeadingZeros(behind, precision) |-> "0"] \o Decimal(behind)}

\* Numeric(Integer)
FromInteger(n) == Wrap(n * 10^Precision, LongHalf)

\* operator*: the product has as many digits behind the point as both factors.
Product(n, m) == Wrap(n * m, LongHalf)

\* The machine's division: towards 0.
Truncated(n, d) ==
    LET abs(v) == IF v < 0 THEN - v ELSE v
    IN  IF (n < 0) = (d < 0) THEN abs(n) \div abs(d) ELSE - (abs(n) \div abs(d))

\* operator/ by an Integer or by a Numeric with p digits behind the point; {} when
\* the machine does not divide.
Quotient(n, d, p) ==
    LET scaled == Wrap(n * 10^p, LongHalf)
    IN  IF d = 0 \/ (d = -1 /\ scaled = - LongHalf) THEN {} ELSE {Truncated(scaled, d)}

\* castP1, castP2 and castM1, castM2: k digits more or fewer behind the point.
castP(n, k) == Wrap(n * 10^k, LongHalf)
castM(n, k) == Truncated(n, 10^k)
-----------------------------------------------------------------------------
\* Faulty: every fourth year is a leap year.
JulianCalendarDay(year, month, day) ==
    LET a == (14 - month) \div 12
        y == year + 4800 - a
        m == month + 12 * a - 3
    IN  day + (153 * m + 2) \div 5 + 365 * y + y \div 4 - 32083

\* Algorithms from the Calendar FAQ, in both directions.
MergeJulianDay(year, month, day) ==
    LET a == (14 - month) \div 12
        y == year + 4800 - a
        m == month + 12 * a - 3
    IN  day + (153 * m + 2) \div 5 + 365 * y + y \div 4 - y \div 100 + y \div 400 - 32045

\* Faulty: January and February belong to the year that begins in March.
SplitWithoutCarry(jd) ==
    LET a == jd + 32044
        b == (4 * a + 3) \div 146097
        c == a - (146097 * b) \div 4
        d == (4 * c + 3) \div 1461
        e == c - (1461 * d) \div 4
        m == (5 * e + 2) \div 153
    IN  [year |-> (100 * b + d - 4800) % UIntMod,
         month |-> m + 3 - 12 * (m \div 10),
         day |-> e - (153 * m + 2) \div 5 + 1]

SplitJulianDay(jd) ==
    LET a == jd + 32044
        b == (4 * a + 3) \div 146097
        c == a - (146097 * b) \div 4
        d == (4 * c + 3) \div 1461
        e == c - (1461 * d) \div 4
        m == (5 * e + 2) \div 153
    IN  [year |-> (100 * b + d - 4800 + m \div 10) % UIntMod,
         month |-> m + 3 - 12 * (m \div 10),
         day |-> e - (153 * m + 2) \div 5 + 1]

extractYear(jd) == SplitJulianDay(jd).year

\* year = 10 * year + (c - '0'), in unsigned arithmetic.
UnsignedRead(n) == n % UIntMod

\* Faulty: what is no digit is skipped.
SkippingRead(parts, c) ==
    IF c \in Digits THEN Append(Front(parts), UnsignedRead(10 * Last(parts) + Digit[c]))
    ELSE IF c = "-" /\ Len(parts) < 3 THEN Append(parts, 0)
    ELSE parts

\* The next character of a date: a digit of the part that is being read, or the "-"
\* behind the year or the month.  Any other one throws, and leaves no part.
DateRead(parts, c) ==
    IF parts # <<>> /\ c \in Digits
    THEN Append(Front(parts), UnsignedRead(10 * Last(parts) + Digit[c]))
    ELSE IF c = "-" /\ Len(parts) \in 1 .. 2 THEN Append(parts, 0)
    ELSE <<>>

\* The range check of Date::castString for year-month-day, whatever numbers those are;
\* a day up to 31 is taken in every month.
DateCast(y, m, d) ==
    LET year == UnsignedRead(y)
        month == UnsignedRead(m)
        day == UnsignedRead(d)
    IN  IF year > 9999 \/ month \notin 1 .. 12 \/ day \notin 1 .. 31 THEN {}
        ELSE {MergeJulianDay(year, month, day)}

\* Date::castString: each part may be without a digit, and is 0 then.
DateCastString(text) ==
    LET parts == FoldLeft(DateRead, <<0>>, Trimmed(text))
    IN  IF Len(parts) # 3 THEN {} ELSE DateCast(parts[1], parts[2], parts[3])
-----------------------------------------------------------------------------
\* Milliseconds since midnight, put together and taken apart.
MergeTime(hour, minute, second, ms) ==
    ms + 1000 * second + 60 * 1000 * minute + 60 * 60 * 1000 * hour

SplitTime(value) ==
    [ms |-> value % 1000,
     second |-> (value \div 1000) % 60,
     minute |-> (value \div 60000) % 60,
     hour |-> (value \div 3600000) % 24]

\* operator<< of Timestamp, whose value is a number of days and of milliseconds;
\* the date is printed behind "NULL", too.
TimestampOutput(value) ==
    LET time == SplitTime(value.ms)
    IN  [null |-> value = [day |-> 0, ms |-> 0],
         date |-> SplitJulianDay(value.day),
         hour |-> time.hour, minute |-> time.minute, second |-> time.second, ms |-> time.ms]
=============================================================================
