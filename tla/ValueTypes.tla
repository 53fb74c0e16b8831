----------------------------- MODULE ValueTypes -----------------------------
(***************************************************************************)
(* The values a program can hold: a number that is built, cast from text   *)
(* and printed to text, a string, and a date that is cast and printed on   *)
(* every day of the calendar.                                              *)
(***************************************************************************)
EXTENDS Casts, Strings

CONSTANTS
    Characters,    \* what texts are typed of
    MaxText,       \* the bound on the characters typed
    Codes,         \* the codes of the characters of strings
    Years,         \* the years whose days are visited
    Divisors,      \* what numbers are multiplied with and divided by
    Times          \* the times of the day that are printed, in milliseconds

ASSUME ValuesAssumption ==
    /\ Years \subseteq Nat
    /\ \A c \in Codes : c \in Nat /\ c > 0 /\ c < 256
    /\ \A ms \in Times : ms \in Nat /\ ms < 24 * 60 * 60 * 1000

VARIABLES
    text,          \* the argument of castString, the result of operator<<
    number,        \* the value of a Numeric<len, Precision>
    string,        \* a Varchar or a Char
    date           \* the day that is cast

valueVars == <<text, number, string, date>>

\* The Gregorian calendar.
IsLeap(year) == year % 4 = 0 /\ (year % 100 = 0 => year % 400 = 0)

DaysOf(year, month) ==
    CASE month \in {4, 6, 9, 11} -> 30
      [] month = 2 -> IF IsLeap(year) THEN 29 ELSE 28
      [] OTHER -> 31

Tomorrow(today) ==
    CASE today.day < DaysOf(today.year, today.month) -> [today EXCEPT !.day = @ + 1]
      [] today.day = DaysOf(today.year, today.month) /\ today.month < 12 ->
             [year |-> today.year, month |-> today.month + 1, day |-> 1]
      [] OTHER -> [year |-> today.year + 1, month |-> 1, day |-> 1]

Epoch == [year |-> 0, month |-> 1, day |-> 1]

InitValues ==
    /\ text = <<>>
    /\ number = 0
    /\ string = <<>>
    /\ date \in [year : Years, month : {1}, day : {1}]

\* Numbers and strings are read and printed on one day only, and one at a time:
\* neither has a part in the other.
Type ==
    /\ date = Epoch /\ number = 0 /\ string = <<>> /\ Len(text) < MaxText
    /\ \E c \in Characters : text' = Append(text, c)
    /\ UNCHANGED <<number, string, date>>

Cast ==
    /\ date = Epoch /\ string = <<>> /\ text # <<>>
    /\ number' \in NumericCast(text)
    /\ text' = <<>>
    /\ UNCHANGED <<string, date>>

BuildRaw ==
    /\ date = Epoch /\ number = 0 /\ string = <<>> /\ text = <<>>
    /\ number' \in - LongHalf .. LongHalf - 1
    /\ UNCHANGED <<text, string, date>>

Output ==
    /\ date = Epoch /\ string = <<>> /\ text = <<>>
    /\ text' \in NumericOutput(number, Precision)
    /\ number' = 0
    /\ UNCHANGED <<string, date>>

\* What may lie behind a C string.
Memory == {[i \in 1 .. kMaxLen |-> b] : b \in Codes \cup {0}}

\* A C string is built, or as many characters are cast, which end the line or are
\* followed by another blank.
BuildString ==
    /\ date = Epoch /\ number = 0 /\ text = <<>>
    /\ \E c \in Codes :
        LET cstr == Append(string, c)
        IN  \/ string' = VarcharBuild(cstr)
           \/ \E behind \in Memory : string' = CharBuild(cstr, behind)
           \/ string' \in VarcharCast(cstr)
           \/ \E rest \in {<<0>>, <<Blank, 0>>} : string' \in CharCast(cstr \o rest, Len(cstr))
    /\ UNCHANGED <<text, number, date>>

NextDay ==
    /\ text = <<>> /\ number = 0 /\ string = <<>>
    /\ date.year \in Years
    /\ date' = Tomorrow(date)
    /\ UNCHANGED <<text, number, string>>

ValuesNext == Type \/ Cast \/ BuildRaw \/ Output \/ BuildString \/ NextDay

ValuesSpec == InitValues /\ [][ValuesNext]_valueVars
-----------------------------------------------------------------------------
\* A string fits, and the date is a day of the calendar.
StringFits == string \in Seq(Codes) /\ Len(string) <= kMaxLen

DayExists ==
    /\ date \in [year : Nat, month : 1 .. 12, day : 1 .. 31]
    /\ date.day <= DaysOf(date.year, date.month)

\* The inductive invariant of strings and dates.
ValuesInvariant == StringFits /\ DayExists

\* How text reads as a numeral: blanks, a sign, digits up to the point, digits,
\* blanks.  The digits lie behind "from" and up to "to"; the point may be behind them.
Numerals ==
    {n \in [from : 0 .. Len(text), point : 1 .. Len(text) + 1, to : 1 .. Len(text)] :
        /\ n.from < n.point /\ n.point <= n.to + 1 /\ n.from < n.to
        /\ n.point <= n.to => text[n.point] = "."
        /\ \A i \in (n.from + 1 .. n.to) \ {n.point} : text[i] \in Digits
        /\ \A i \in 1 .. n.from : text[i] = " " \/ (i = n.from /\ text[i] \in {"-", "+"})
        /\ \A i \in n.to + 1 .. Len(text) : text[i] = " "}

\* The digit at i, for what it stands for: the unit is 10^-Precision.
Worth(i, point) ==
    LET places == Precision + point - i - (IF i < point THEN 1 ELSE 0)
    IN  IF text[i] \notin Digits \/ places < 0 THEN 0 ELSE Digit[text[i]] * 10^places

Denoted(n) ==
    (IF n.from > 0 /\ text[n.from] = "-" THEN -1 ELSE 1)
    * FoldLeft(LAMBDA sum, i : sum + Worth(i, n.point), 0, [i \in 1 .. n.to |-> i])

TowardsZero(v) == IF v < 0 THEN - ((- v) \div 10^Precision) ELSE v \div 10^Precision

(***************************************************************************)
(* A cast gives the number that its text denotes, wrapped to its width.  A *)
(* Numeric takes no other text, and no digit that it would lose; an        *)
(* Integer drops what is behind the point.  Ten digits are taken for an    *)
(* Integer and eighteen for a Numeric, more than always fit.               *)
(***************************************************************************)
CastsExact ==
    /\ NumericCast(text) =
           {Wrap(Denoted(n), LongHalf) : n \in
               {n \in Numerals :
                    /\ n.point - n.from - 1 <= LongDigits
                    /\ \A i \in n.point + Precision + 1 .. n.to : text[i] = "0"}}
    /\ \A n \in Numerals :
           IntegerCast(text) = IF n.point - n.from - 1 > IntDigits THEN {}
                               ELSE {Wrap(TowardsZero(Denoted(n)), IntHalf)}

(***************************************************************************)
(* A number keeps its value through its forms: printed, it is read back as *)
(* itself, but for the least one, which is never printed to the end; an    *)
(* Integer that becomes a Numeric, with digits behind the point or without *)
(* any, is printed and read back as the Integer; more digits behind the    *)
(* point and fewer again, or a product divided by its factor, give the     *)
(* number back, and a quotient is exact up to its last digit, all of it    *)
(* unless a value on the way does not fit.                                 *)
(***************************************************************************)
NumericExact ==
    LET fits(v) == v \in - LongHalf .. LongHalf - 1
        abs(v) == IF v < 0 THEN - v ELSE v
    IN  text = <<>> /\ string = <<>> /\ date = Epoch =>
        /\ NumericOutput(number, Precision) = {} => number = - LongHalf
        /\ \A printed \in NumericOutput(number, Precision) : NumericCast(printed) = {number}
        /\ number \in - IntHalf .. IntHalf - 1 =>
               \A printed \in NumericOutput(FromInteger(number), Precision) \cup NumericOutput(number, 0) :
                   IntegerCast(printed) = {number}
        /\ \A k \in 1 .. 2 : fits(number * 10^k) => castM(castP(number, k), k) = number
        /\ \A d \in Divisors :
               /\ fits(number * d) /\ d # 0 => Quotient(Product(number, d), d, 0) = {number}
               /\ \A p \in {0, 1, 2, 4} : fits(number * 10^p) =>
                      \A q \in Quotient(number, d, p) :
                          /\ abs(q * d) <= abs(number * 10^p)
                          /\ abs(number * 10^p - q * d) < abs(d)

\* Any 31 days that begin on this date are numbered one after the other.
MonthReadsBack(jd) ==
    \A day \in 1 .. 31 : DateCast(date.year, date.month, day) = {jd + day - 1}

\* The time stamp of this date and a time prints as what it is.
StampReadsBack(jd, ms) ==
    LET t == TimestampOutput([day |-> jd, ms |-> ms])
    IN  /\ t.date = date /\ ~ t.null
        /\ t.hour < 24 /\ t.minute < 60 /\ t.second < 60 /\ t.ms < 1000
        /\ MergeTime(t.hour, t.minute, t.second, t.ms) = ms

(***************************************************************************)
(* A date that is cast prints as the day it was read from, and its year is *)
(* the one extracted; days that a month lacks run into the next month;     *)
(* 2^32 years more are the same year; and a time stamp prints as its day   *)
(* and its time.                                                           *)
(***************************************************************************)
DatesReadBack ==
    LET cast(day) == DateCast(date.year, date.month, day)
    IN  text = <<>> /\ number = 0 /\ string = <<>> /\ date.year <= 9999 =>
            /\ cast(date.day) = {MergeJulianDay(date.year, date.month, date.day)}
            /\ \A jd \in cast(date.day) :
                   /\ SplitJulianDay(jd) = date /\ extractYear(jd) = date.year
                   /\ date.day = 1 => MonthReadsBack(jd)
                   /\ date.day = 1 => \A ms \in Times : StampReadsBack(jd, ms)
            /\ DateCast(UIntMod + date.year, date.month, date.day) = cast(date.day)

\* How text reads as a date: blanks, digits, "-", digits, "-", digits, blanks.
Spellings ==
    LET dashes == {i \in DOMAIN text : text[i] = "-"}
    IN  {n \in [from : 0 .. Len(text), month : dashes, day : dashes, to : 1 .. Len(text)] :
            /\ n.from < n.month /\ n.month < n.day /\ n.day <= n.to
            /\ \A i \in (n.from + 1 .. n.to) \ {n.month, n.day} : text[i] \in Digits
            /\ \A i \in (1 .. n.from) \cup (n.to + 1 .. Len(text)) : text[i] = " "}

\* The number that the digits behind i and up to j denote, modulo 2^32.
Between(i, j) ==
    FoldLeft(LAMBDA sum, k : sum + Digit[text[k]] * 10^(j - k), 0, [k \in 1 .. j - i |-> i + k])
    % UIntMod

(***************************************************************************)
(* A date is cast from the texts that spell one and from no other: from    *)
(* three numbers, of which a year without digits is the year 0, month and  *)
(* day are in their ranges, and the year has four digits that count.       *)
(***************************************************************************)
DateTextsExact ==
    DateCastString(text) =
        {MergeJulianDay(Between(n.from, n.month - 1), Between(n.month, n.day - 1), Between(n.day, n.to)) :
            n \in {n \in Spellings :
                      /\ Between(n.from, n.month - 1) <= 9999
                      /\ Between(n.month, n.day - 1) \in 1 .. 12
                      /\ Between(n.day, n.to) \in 1 .. 31}}

\* How many blanks string s begins with.
BlanksInFront(s) ==
    LET blanks == {n \in 0 .. Len(s) : \A i \in 1 .. n : s[i] = Blank}
    IN  CHOOSE n \in blanks : \A m \in blanks : m <= n

(***************************************************************************)
(* Strings agree with the C strings they come from.  One that was built    *)
(* equals its C string, if a Char held all of it, whatever lies behind the *)
(* 0 that ends it; a Char equals no other, and != is the opposite of ==,   *)
(* but for an empty Char.  What is printed is read back, except for the    *)
(* blanks in front of a Char and a Char<1> that is a blank.                *)
(***************************************************************************)
StringsReadBack ==
    LET cstrings == UNION {[1 .. n -> Codes] : n \in 0 .. kMaxLen + 1}
    IN  text = <<>> /\ number = 0 /\ date = Epoch =>
        /\ Len(string) \in Lengths(kMaxLen)
        /\ VarcharCast(StringOutput(string)) = {string}
        /\ CharCast(StringOutput(string) \o <<0>>, Len(string)) = {SubSeq(string, BlanksInFront(string) + 1, Len(string))}
        /\ \A s \in cstrings :
            /\ VarcharBuild(s) = string => VarcharIs(string, s)
            /\ \A behind \in Memory :
                   TRUE \in CharIs(string, s) <=> CharBuild(s, behind) = string /\ Len(s) <= kMaxLen
            /\ string # <<>> => CharIs(string, s) = {~ CharIsNot(string, s)}
        /\ \A c \in Codes \ {Blank} :
            /\ SingleBuild(SingleOutput(c)) = c
            /\ SingleIs(c, string) => CharIs(<<c>>, string) = {TRUE}

\* From one day of the calendar to the next, the Julian day number counts one.
DaysAreCounted ==
    [][LET Number(today) == MergeJulianDay(today.year, today.month, today.day)
       IN  date' # date => Number(date') = Number(date) + 1]_valueVars
=============================================================================
