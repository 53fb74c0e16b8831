\* Numbers cast from every text of five characters, printed and read back, strings
\* built, compared and read back, and the days of a cycle of the calendar.
SPECIFICATION ValuesSpec
CONSTANTS
    IntHalf = 16
    IntDigits = 2
    LongHalf = 5120
    LongDigits = 3
    Precision = 2
    UIntMod = 20000
    Characters <- Typed
    MaxText = 5
    kMaxLen = 3
    Codes <- Spelled
    Years <- Cycle
    Divisors <- Factors
    Times <- TimesOfDay
INVARIANTS
    CastsExact
    NumericExact
    DateTextsExact
    DatesReadBack
    StringsReadBack
PROPERTIES
    DaysAreCounted
CHECK_DEADLOCK FALSE
