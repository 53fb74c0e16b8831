------------------------------ MODULE MCTypes ------------------------------
\* Instance of ValueTypes: texts of five characters, the years of one cycle of the
\* calendar and the first and the last year, the ends of units of time.
EXTENDS ValueTypes

Typed == {" ", "-", "+", ".", "0", "1", "9", "x"}
Spelled == {Blank, 65, 97, 200}
Factors == {-100, -7, -1, 0, 1, 3, 10}
Cycle == {0, 4, 100, 9999} \cup 1600 .. 2000
TimesOfDay == {0, 999, 1000, 59999, 60000, 3599999, 3600000, 86399999}
=============================================================================
