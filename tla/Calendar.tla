------------------------------ MODULE Calendar ------------------------------
(***************************************************************************)
(* Dates as Python's datetime.date keeps them, and the month arithmetic of *)
(* src/src/legal/deadlines.py on them.                                     *)
(***************************************************************************)
EXTENDS Integers

Leap(y) == ((y % 4) = 0 /\ y % 100 # 0) \/ y % 400 = 0

\* calendar.monthrange(y, m)[1]
DaysInMonth(y, m) ==
    IF m = 2 THEN (IF Leap(y) THEN 29 ELSE 28)
    ELSE IF m \in {4, 6, 9, 11} THEN 30 ELSE 31

IsDate(d) ==
    /\ d \in [year: Nat \ {0}, month: 1..12, day: 1..31]
    /\ d.day <= DaysInMonth(d.year, d.month)

\* days of a common year before its month m
DaysBefore == <<0, 31, 59, 90, 120, 151, 181, 212, 243, 273, 304, 334>>

\* date.toordinal(); a timedelta of n days is a difference of n ordinals
Ordinal(d) ==
    LET y == d.year - 1 IN
    365 * y + (y \div 4) - (y \div 100) + (y \div 400)
        + DaysBefore[d.month] + (IF d.month > 2 /\ Leap(d.year) THEN 1 ELSE 0) + d.day

\* date.__lt__
Before(a, b) ==
    \/ a.year < b.year
    \/ a.year = b.year /\ a.month < b.month
    \/ a.year = b.year /\ a.month = b.month /\ a.day < b.day

NotAfter(a, b) == a = b \/ Before(a, b)

\* Mutant: months counted from 1, as they are written
AddMonthsFromOne(d, months) ==
    LET index == d.month + months
        year  == d.year + (index \div 12)
        month == (index % 12) + 1
        last  == DaysInMonth(year, month)
    IN [year |-> year, month |-> month, day |-> IF d.day <= last THEN d.day ELSE last]

\* _add_months
AddMonths(d, months) ==
    LET index == d.month - 1 + months
        year  == d.year + (index \div 12)
        month == (index % 12) + 1
        last  == DaysInMonth(year, month)
    IN [year |-> year, month |-> month, day |-> IF d.day <= last THEN d.day ELSE last]

=============================================================================
