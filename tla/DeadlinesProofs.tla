--------------------------- MODULE DeadlinesProofs ---------------------------
(***************************************************************************)
(* What Deadlines states, proved for any number of systems, categories,    *)
(* incidents, records and days, on the whole calendar.                     *)
(***************************************************************************)
EXTENDS Deadlines, WellFoundedInduction, TLAPS

-----------------------------------------------------------------------------
(* The calendar *)

LEMMA DaysInMonthType ==
  ASSUME NEW y \in Nat, NEW m \in 1..12
  PROVE  DaysInMonth(y, m) \in 28..31
  BY DEF DaysInMonth

LEMMA DateFields ==
  ASSUME NEW d, IsDate(d)
  PROVE  /\ d.year \in Nat /\ d.year > 0 /\ d.month \in 1..12 /\ d.day \in 1..31
         /\ d = [year |-> d.year, month |-> d.month, day |-> d.day]
  BY DEF IsDate

LEMMA BeforeTransitive ==
  ASSUME NEW a, NEW b, NEW c, IsDate(a), IsDate(b), IsDate(c)
  PROVE  /\ NotAfter(a, b) /\ NotAfter(b, c) => NotAfter(a, c)
         /\ Before(a, b) /\ NotAfter(b, c) => Before(a, c)
         /\ NotAfter(a, b) /\ Before(b, c) => Before(a, c)
  BY DateFields DEF Before, NotAfter

LEMMA BeforeTotal ==
  ASSUME NEW a, NEW b, IsDate(a), IsDate(b)
  PROVE  /\ ~NotAfter(a, b) <=> Before(b, a)
         /\ NotAfter(a, b) \/ NotAfter(b, a)
  BY DateFields DEF Before, NotAfter

\* _add_months: twelve months on is the same month of the next year.
LEMMA TwelveMonths ==
  ASSUME NEW d, IsDate(d)
  PROVE  AddMonths(d, 12) =
           [year |-> d.year + 1, month |-> d.month,
            day |-> IF d.day <= DaysInMonth(d.year + 1, d.month) THEN d.day
                    ELSE DaysInMonth(d.year + 1, d.month)]
  <1>1. d.year \in Nat /\ d.month \in 1..12
    BY DateFields
  <1>2. (d.month - 1 + 12) \div 12 = 1 /\ ((d.month - 1 + 12) % 12) + 1 = d.month
    BY <1>1
  <1> QED
    BY <1>1, <1>2 DEF AddMonths

LEMMA AnniversaryIsDate ==
  ASSUME NEW d, IsDate(d)
  PROVE  IsDate(AddMonths(d, 12))
  <1>1. d.year \in Nat /\ d.month \in 1..12 /\ d.day \in 1..31
    BY DateFields
  <1>2. DaysInMonth(d.year + 1, d.month) \in 28..31
    BY <1>1, DaysInMonthType
  <1> QED
    BY <1>1, <1>2, TwelveMonths DEF IsDate

LEMMA AnniversaryDay ==
  ASSUME NEW d, IsDate(d)
  PROVE  \/ AddMonths(d, 12).day = d.day
         \/ d.month = 2 /\ d.day = 29 /\ AddMonths(d, 12).day = 28
  <1>1. d.year \in Nat /\ d.month \in 1..12 /\ d.day \in 1..31 /\ d.day <= DaysInMonth(d.year, d.month)
    BY DateFields DEF IsDate
  <1>2. CASE d.month # 2
    <2>1. d.day <= DaysInMonth(d.year + 1, d.month)
      BY <1>1, <1>2 DEF DaysInMonth
    <2> QED
      BY <2>1, TwelveMonths
  <1>3. CASE d.month = 2
    <2>1. DaysInMonth(d.year, d.month) \in {28, 29} /\ DaysInMonth(d.year + 1, d.month) \in {28, 29}
      BY <1>3 DEF DaysInMonth
    <2> QED
      BY <1>1, <1>3, <2>1, TwelveMonths
  <1> QED
    BY <1>2, <1>3

\* the ordinal of the last day of the year before y
YearStart(y) == 365 * (y - 1) + ((y - 1) \div 4) - ((y - 1) \div 100) + ((y - 1) \div 400)
LeapDay(y) == IF Leap(y) THEN 1 ELSE 0
MonthStart(y, m) == DaysBefore[m] + (IF m > 2 /\ Leap(y) THEN 1 ELSE 0)

LEMMA OrdinalIs ==
  ASSUME NEW d, IsDate(d)
  PROVE  /\ YearStart(d.year) \in Int /\ MonthStart(d.year, d.month) \in Nat
         /\ Ordinal(d) = YearStart(d.year) + MonthStart(d.year, d.month) + d.day
  <1>1. d.year \in Nat /\ d.month \in 1..12 /\ d.day \in 1..31
    BY DateFields
  <1>2. YearStart(d.year) \in Int
    BY <1>1 DEF YearStart
  <1>3. DaysBefore[d.month] \in Nat
    BY <1>1 DEF DaysBefore
  <1>4. MonthStart(d.year, d.month) \in Nat
    BY <1>1, <1>3 DEF MonthStart
  <1>5. Ordinal(d) = YearStart(d.year) + MonthStart(d.year, d.month) + d.day
    BY <1>1, <1>3 DEF Ordinal, YearStart, MonthStart
  <1> QED
    BY <1>2, <1>4, <1>5

LEMMA OrdinalIsInt == ASSUME NEW d, IsDate(d) PROVE Ordinal(d) \in Int
  <1>1. d.day \in Int
    BY DateFields
  <1> QED
    BY <1>1, OrdinalIs

LEMMA NextYear ==
  ASSUME NEW y \in Nat, y > 0
  PROVE  YearStart(y + 1) = YearStart(y) + 365 + LeapDay(y)
  <1>1. (y \div 4) - ((y - 1) \div 4) = IF y % 4 = 0 THEN 1 ELSE 0
    OBVIOUS
  <1>2. (y \div 100) - ((y - 1) \div 100) = IF y % 100 = 0 THEN 1 ELSE 0
    OBVIOUS
  <1>3. (y \div 400) - ((y - 1) \div 400) = IF y % 400 = 0 THEN 1 ELSE 0
    OBVIOUS
  <1>4. (y % 400 = 0 => y % 100 = 0) /\ (y % 100 = 0 => y % 4 = 0)
    OBVIOUS
  <1> QED
    BY <1>1, <1>2, <1>3, <1>4 DEF YearStart, LeapDay, Leap

LEMMA YearsGrow ==
  ASSUME NEW y \in Nat, NEW z \in Nat, y > 0, y < z
  PROVE  YearStart(y) + 365 + LeapDay(y) <= YearStart(z)
  <1>1. YearStart(y + 1) <= YearStart(z)
    BY DEF YearStart
  <1> QED
    BY <1>1, NextYear

\* A month ends before a later one begins, and the last by the end of the year.
LEMMA MonthsGrow ==
  ASSUME NEW y \in Nat, NEW m \in 1..12, NEW n \in 1..12
  PROVE  /\ m < n => MonthStart(y, m) + DaysInMonth(y, m) <= MonthStart(y, n)
         /\ MonthStart(y, m) + DaysInMonth(y, m) <= 365 + LeapDay(y)
  BY DEF MonthStart, DaysInMonth, DaysBefore, LeapDay

\* date.toordinal follows the order of the dates.
LEMMA OrdinalMonotone ==
  ASSUME NEW a, NEW b, IsDate(a), IsDate(b), NotAfter(a, b)
  PROVE  Ordinal(a) <= Ordinal(b)
  <1>1. /\ a.year \in Nat /\ a.year > 0 /\ a.month \in 1..12 /\ a.day \in 1..31
        /\ b.year \in Nat /\ b.year > 0 /\ b.month \in 1..12 /\ b.day \in 1..31
        /\ a.day <= DaysInMonth(a.year, a.month)
    BY DateFields DEF IsDate
  <1>2. DaysInMonth(a.year, a.month) \in 28..31
    BY <1>1, DaysInMonthType
  <1>3. /\ Ordinal(a) = YearStart(a.year) + MonthStart(a.year, a.month) + a.day
        /\ Ordinal(b) = YearStart(b.year) + MonthStart(b.year, b.month) + b.day
        /\ YearStart(a.year) \in Int /\ YearStart(b.year) \in Int
        /\ MonthStart(a.year, a.month) \in Nat /\ MonthStart(b.year, b.month) \in Nat
    BY OrdinalIs
  <1>4. CASE a.year < b.year
    <2>1. MonthStart(a.year, a.month) + DaysInMonth(a.year, a.month) <= 365 + LeapDay(a.year)
      BY <1>1, MonthsGrow
    <2>2. YearStart(a.year) + 365 + LeapDay(a.year) <= YearStart(b.year)
      BY <1>1, <1>4, YearsGrow
    <2>3. LeapDay(a.year) \in {0, 1}
      BY DEF LeapDay
    <2> QED
      BY <1>1, <1>2, <1>3, <2>1, <2>2, <2>3
  <1>5. CASE a.year = b.year /\ a.month < b.month
    <2>1. MonthStart(a.year, a.month) + DaysInMonth(a.year, a.month) <= MonthStart(a.year, b.month)
      BY <1>1, <1>5, MonthsGrow
    <2> QED
      BY <1>1, <1>2, <1>3, <1>5, <2>1
  <1>6. CASE a.year = b.year /\ a.month = b.month /\ a.day <= b.day
    BY <1>1, <1>3, <1>6
  <1> QED
    BY <1>1, <1>4, <1>5, <1>6 DEF NotAfter, Before

\* A year of months is never less than a year of days.
LEMMA AnniversaryIsAYearOn ==
  ASSUME NEW d, IsDate(d)
  PROVE  Ordinal(d) + 365 <= Ordinal(AddMonths(d, 12))
  <1> DEFINE e == AddMonths(d, 12)
  <1>1. d.year \in Nat /\ d.year > 0 /\ d.month \in 1..12 /\ d.day \in 1..31
    BY DateFields
  <1>2. IsDate(e) /\ e.year = d.year + 1 /\ e.month = d.month /\ e.day \in Nat
    BY AnniversaryIsDate, TwelveMonths, DateFields
  <1>3. Ordinal(d) = YearStart(d.year) + MonthStart(d.year, d.month) + d.day
        /\ YearStart(d.year) \in Int
    BY OrdinalIs
  <1>4. Ordinal(e) = YearStart(d.year) + 365 + LeapDay(d.year) + MonthStart(d.year + 1, d.month) + e.day
    BY <1>1, <1>2, OrdinalIs, NextYear
  <1>5. MonthStart(d.year, d.month) + d.day <= LeapDay(d.year) + MonthStart(d.year + 1, d.month) + e.day
    <2>1. CASE d.month <= 2
      <3>1. MonthStart(d.year, d.month) = MonthStart(d.year + 1, d.month)
        BY <1>1, <2>1 DEF MonthStart
      <3>2. d.day <= LeapDay(d.year) + e.day
        <4>1. CASE e.day = d.day
          BY <1>1, <4>1 DEF LeapDay
        <4>2. CASE d.month = 2 /\ d.day = 29 /\ e.day = 28
          <5>1. Leap(d.year)
            BY <4>2 DEF IsDate, DaysInMonth
          <5> QED
            BY <4>2, <5>1 DEF LeapDay
        <4> QED
          BY <4>1, <4>2, AnniversaryDay
      <3>3. MonthStart(d.year, d.month) \in Nat
        BY OrdinalIs
      <3>4. LeapDay(d.year) \in {0, 1}
        BY DEF LeapDay
      <3> QED
        BY <1>1, <1>2, <3>1, <3>2, <3>3, <3>4
    <2>2. CASE d.month > 2
      <3>1. e.day = d.day
        BY <2>2, AnniversaryDay
      <3>2. DaysBefore[d.month] \in Nat
        BY <1>1 DEF DaysBefore
      <3>3. /\ MonthStart(d.year, d.month) = DaysBefore[d.month] + LeapDay(d.year)
            /\ MonthStart(d.year + 1, d.month) = DaysBefore[d.month] + LeapDay(d.year + 1)
        BY <2>2 DEF MonthStart, LeapDay
      <3>4. LeapDay(d.year) \in {0, 1} /\ LeapDay(d.year + 1) \in {0, 1}
        BY DEF LeapDay
      <3> QED
        BY <1>1, <3>1, <3>2, <3>3, <3>4
    <2> QED
      BY <1>1, <2>1, <2>2
  <1>6. MonthStart(d.year, d.month) \in Int /\ MonthStart(d.year + 1, d.month) \in Int
        /\ LeapDay(d.year) \in Int
    BY <1>2, OrdinalIs DEF LeapDay
  <1> QED
    BY <1>1, <1>2, <1>3, <1>4, <1>5, <1>6

-----------------------------------------------------------------------------
(* Smallest elements *)

\* A nonempty set of natural numbers has a smallest element.
LEMMA SmallestNumber ==
  ASSUME NEW T, T \subseteq Nat, T # {}
  PROVE  \E x \in T : \A y \in T : x <= y
  <1>1. PICK x \in T : \A y \in T : ~(<<y, x>> \in OpToRel(<, Nat))
    BY WFMin, NatLessThanWellFounded, Zenon
  <1>2. \A y \in T : ~(y < x)
    BY <1>1 DEF OpToRel
  <1> QED
    BY <1>2

\* the place of a date among all combinations of day and month
Place(d) == 372 * d.year + 31 * d.month + d.day

LEMMA EarliestIs ==
  ASSUME NEW D, D # {}, \A d \in D : IsDate(d)
  PROVE  Earliest(D) \in D /\ \A e \in D : NotAfter(Earliest(D), e)
  <1> DEFINE Places == {Place(d) : d \in D}
  <1>1. \A d \in D : Place(d) \in Nat
    <2> SUFFICES ASSUME NEW d \in D PROVE Place(d) \in Nat
      OBVIOUS
    <2>1. d.year \in Nat /\ d.month \in 1..12 /\ d.day \in 1..31
      BY DateFields
    <2> QED
      BY <2>1 DEF Place
  <1>2. Places \subseteq Nat /\ Places # {}
    BY <1>1
  <1>3. PICK x \in Places : \A y \in Places : x <= y
    BY <1>2, SmallestNumber
  <1>4. PICK d \in D : \A e \in D : Place(d) <= Place(e)
    BY <1>3
  <1>5. \A e \in D : NotAfter(d, e)
    <2> SUFFICES ASSUME NEW e \in D PROVE NotAfter(d, e)
      OBVIOUS
    <2>1. /\ d.year \in Nat /\ d.month \in 1..12 /\ d.day \in 1..31
          /\ e.year \in Nat /\ e.month \in 1..12 /\ e.day \in 1..31
          /\ d = [year |-> d.year, month |-> d.month, day |-> d.day]
          /\ e = [year |-> e.year, month |-> e.month, day |-> e.day]
      BY DateFields
    <2>2. 372 * d.year + 31 * d.month + d.day <= 372 * e.year + 31 * e.month + e.day
      BY <1>4 DEF Place
    <2>3. \/ d.year < e.year
          \/ d.year = e.year /\ d.month < e.month
          \/ d.year = e.year /\ d.month = e.month /\ d.day <= e.day
      <3>1. /\ d.year \in Int /\ d.month \in Int /\ d.day \in Int
            /\ e.year \in Int /\ e.month \in Int /\ e.day \in Int
            /\ d.month >= 1 /\ d.month <= 12 /\ d.day >= 1 /\ d.day <= 31
            /\ e.month >= 1 /\ e.month <= 12 /\ e.day >= 1 /\ e.day <= 31
        BY <2>1
      <3> QED
        BY <2>2, <3>1
    <2> QED
      BY <2>1, <2>3 DEF NotAfter, Before
  <1> QED
    BY <1>5 DEF Earliest

-----------------------------------------------------------------------------
(* The inductive invariant *)

Upcoming == [category: Categories, on: UNION {Start[c] : c \in Categories}]
DueDates == {AddMonths(d, 12) : d \in AsOfDates}

Rows == [system: Systems, id: Nat, asOf: AsOfDates, due: DueDates, overdue: BOOLEAN,
         upcoming: SUBSET Upcoming, on: Days]

Pages == [pc: {"closed", "reading", "shown"}, newest: [Systems -> 0..MaxRecords],
          todo: SUBSET Systems, rows: Seq(Rows), disturbed: BOOLEAN]

Typing ==
    /\ today \in Days
    /\ records \subseteq [id: 1..MaxRecords, system: Systems, at: Days, asOf: AsOfDates,
                           notApplicable: SUBSET Categories]
    /\ recorded \in 0..MaxRecords
    /\ page \in Pages
    /\ incident \in [Incidents -> {"unfiled", "open", "reported"}]

\* Ids are handed out once, and what is not in force by its date is not applicable.
RecordsInv ==
    /\ \A r \in records : r.id <= recorded
    /\ \A r, x \in records : r.id = x.id => r = x
    /\ \A r \in records, c \in Categories : InForce(c, r.asOf) = {} => c \in r.notApplicable

\* the next date on which c comes into force, if none was by asOf
ShowsFirst(row, c) ==
    (\A d \in Start[c] : Before(row.asOf, d)) =>
        \E u \in row.upcoming :
            u.category = c /\ u.on \in Start[c] /\ \A d \in Start[c] : ~Before(d, u.on)

RowMade(row) ==
    /\ row.due = AddMonths(row.asOf, 12)
    /\ row.overdue <=> NotAfter(row.due, row.on)
    /\ \A c \in Categories : ShowsFirst(row, c)

RowsInv ==
    \A i \in DOMAIN page.rows :
        /\ RowMade(page.rows[i])
        /\ page.rows[i].id <= recorded
        /\ \A r \in records : r.id = page.rows[i].id => r.asOf = page.rows[i].asOf

\* A system has its row, or is still to be read and its newest record is still there.
ReadInv ==
    page.pc \in {"reading", "shown"} =>
        /\ \A i \in DOMAIN page.rows : page.rows[i].system \notin page.todo
        /\ \A i, j \in DOMAIN page.rows : page.rows[i].system = page.rows[j].system => i = j
        /\ ~page.disturbed =>
             \A s \in Systems : page.newest[s] # 0 =>
                 IF s \in page.todo
                 THEN \E r \in records : r.system = s /\ page.newest[s] <= r.id
                 ELSE \E i \in DOMAIN page.rows :
                          page.rows[i].system = s /\ page.newest[s] <= page.rows[i].id

ShownInv ==
    page.pc = "shown" =>
        /\ page.todo = {}
        /\ \A i, j \in DOMAIN page.rows : i < j => NotAfter(page.rows[i].due, page.rows[j].due)

IInv == Typing /\ RecordsInv /\ RowsInv /\ ReadInv /\ ShownInv

LEMMA Constants ==
  /\ \A d \in Days : IsDate(d)
  /\ \A d \in AsOfDates : IsDate(d)
  /\ \A c \in Categories : \A d \in Start[c] : IsDate(d)
  /\ \A c \in Categories : Start[c] # {}
  /\ Days # {} /\ MaxRecords \in Nat /\ Retention \in Nat
  BY DeadlinesAssumption

LEMMA RowTypes ==
  ASSUME Typing
  PROVE  /\ DOMAIN page.rows = 1..Len(page.rows) /\ Len(page.rows) \in Nat
         /\ \A i \in DOMAIN page.rows : page.rows[i] \in Rows
  <1>1. page.rows \in Seq(Rows)
    BY DEF Typing, Pages
  <1> QED
    BY <1>1

\* The order of ids finds the latest record of a system.
LEMMA LatestIs ==
  ASSUME Typing, NEW s, RecordsOf(s) # {}
  PROVE  Latest(s) \in RecordsOf(s) /\ \A x \in RecordsOf(s) : x.id <= Latest(s).id
  <1> DEFINE Left == {MaxRecords - r.id : r \in RecordsOf(s)}
  <1>1. \A r \in RecordsOf(s) : r.id \in Nat /\ MaxRecords - r.id \in Nat
    BY Constants DEF Typing, RecordsOf
  <1>2. Left \subseteq Nat /\ Left # {}
    BY <1>1
  <1>3. PICK n \in Left : \A m \in Left : n <= m
    BY <1>2, SmallestNumber
  <1>4. PICK r \in RecordsOf(s) : n = MaxRecords - r.id
    BY <1>3
  <1>5. \A x \in RecordsOf(s) : x.id <= r.id
    <2> SUFFICES ASSUME NEW x \in RecordsOf(s) PROVE x.id <= r.id
      OBVIOUS
    <2>1. MaxRecords - r.id <= MaxRecords - x.id
      BY <1>3, <1>4
    <2> QED
      BY <1>1, <2>1, Constants
  <1> QED
    BY <1>5 DEF Latest

\* What compute_deadlines_for_system makes of the latest record.
LEMMA DeadlinesOfMade ==
  ASSUME IInv, NEW s \in Systems, RecordsOf(s) # {}
  PROVE  /\ DeadlinesOf(s) \in Rows /\ RowMade(DeadlinesOf(s))
         /\ DeadlinesOf(s).system = s
         /\ \E r \in RecordsOf(s) : DeadlinesOf(s).id = r.id /\ DeadlinesOf(s).asOf = r.asOf
         /\ \A r \in RecordsOf(s) : r.id <= DeadlinesOf(s).id
  <1> DEFINE r == Latest(s)
             row == DeadlinesOf(s)
             coming == UNION {NextApplicable(c, r.asOf) : c \in r.notApplicable}
  <1>1. r \in RecordsOf(s) /\ \A x \in RecordsOf(s) : x.id <= r.id
    BY LatestIs DEF IInv
  <1>2. r \in records /\ r.id \in Nat /\ r.asOf \in AsOfDates /\ r.notApplicable \subseteq Categories
    BY <1>1, Constants DEF IInv, Typing, RecordsOf
  <1>3. row = [system |-> s, id |-> r.id, asOf |-> r.asOf, due |-> AddMonths(r.asOf, 12),
               overdue |-> NotAfter(AddMonths(r.asOf, 12), today), upcoming |-> coming, on |-> today]
    BY DEF DeadlinesOf, Due
  <1>4. \A c \in Categories : \A u \in NextApplicable(c, r.asOf) :
          u.category = c /\ u.on \in Start[c] /\ u \in Upcoming
            /\ \A d \in Start[c] : Before(r.asOf, d) => ~Before(d, u.on)
    <2> SUFFICES ASSUME NEW c \in Categories, NEW u \in NextApplicable(c, r.asOf)
                 PROVE  u.category = c /\ u.on \in Start[c] /\ u \in Upcoming
                          /\ \A d \in Start[c] : Before(r.asOf, d) => ~Before(d, u.on)
      OBVIOUS
    <2> DEFINE later == {d \in Start[c] : Before(r.asOf, d)}
    <2>1. later # {} /\ u = [category |-> c, on |-> Earliest(later)]
      BY DEF NextApplicable
    <2>2. Earliest(later) \in later /\ \A d \in later : NotAfter(Earliest(later), d)
      <3>1. \A d \in later : IsDate(d)
        BY Constants
      <3> HIDE DEF later
      <3> QED
        BY <2>1, <3>1, EarliestIs
    <2>3. \A d \in later : ~Before(d, Earliest(later))
      BY <2>2, BeforeTotal, Constants
    <2> QED
      BY <2>1, <2>2, <2>3 DEF Upcoming
  <1>5. coming \subseteq Upcoming
    BY <1>2, <1>4
  <1>6. row \in Rows
    <2>1. AddMonths(r.asOf, 12) \in DueDates /\ today \in Days
      BY <1>2 DEF DueDates, IInv, Typing
    <2>2. NotAfter(AddMonths(r.asOf, 12), today) \in BOOLEAN
      BY DEF NotAfter, Before
    <2> HIDE DEF coming, r, row
    <2> QED
      BY <1>2, <1>3, <1>5, <2>1, <2>2 DEF Rows
  <1>7. \A c \in Categories : ShowsFirst(row, c)
    <2> SUFFICES ASSUME NEW c \in Categories, \A d \in Start[c] : Before(r.asOf, d)
                 PROVE  \E u \in coming :
                          u.category = c /\ u.on \in Start[c] /\ \A d \in Start[c] : ~Before(d, u.on)
      BY <1>3 DEF ShowsFirst
    <2>1. InForce(c, r.asOf) = {}
      BY BeforeTotal, Constants, <1>2 DEF InForce
    <2>2. c \in r.notApplicable
      BY <1>2, <2>1 DEF IInv, RecordsInv
    <2>3. PICK u : u \in NextApplicable(c, r.asOf)
      BY Constants DEF NextApplicable
    <2> QED
      BY <1>4, <2>2, <2>3
  <1> HIDE DEF row, coming, r
  <1>8. RowMade(row) /\ row.system = s /\ row.id = r.id /\ row.asOf = r.asOf
    BY <1>3, <1>7 DEF RowMade
  <1> QED
    BY <1>1, <1>6, <1>8 DEF row

-----------------------------------------------------------------------------
(* Every step keeps it *)

LEMMA InitIInv == Init => IInv
  <1> SUFFICES ASSUME Init PROVE IInv
    OBVIOUS
  <1>1. today \in Days
    BY EarliestIs, Constants DEF Init
  <1>2. page \in Pages
    BY Constants DEF Init, NoPage, Pages
  <1> QED
    BY <1>1, <1>2, Constants DEF Init, IInv, Typing, RecordsInv, RowsInv, ReadInv, ShownInv, NoPage

LEMMA AssessKeeps == ASSUME IInv, NEW s \in Systems, Assess(s) PROVE IInv'
  <1>0. PICK d \in AsOfDates : \E N \in NotApplicableSets(d) :
          records' = records \cup
            {[id |-> recorded + 1, system |-> s, at |-> today, asOf |-> d, notApplicable |-> N]}
    BY DEF Assess
  <1>1. PICK N \in NotApplicableSets(d) :
          records' = records \cup
            {[id |-> recorded + 1, system |-> s, at |-> today, asOf |-> d, notApplicable |-> N]}
    BY <1>0
  <1>2. recorded' = recorded + 1 /\ recorded' \in 0..MaxRecords /\ recorded' \in 1..MaxRecords
        /\ recorded \in Nat
    BY Constants DEF IInv, Typing, Assess
  <1>3. N \subseteq Categories /\ \A c \in Categories : InForce(c, d) = {} => c \in N
    BY DEF NotApplicableSets
  <1>4. \A r \in records : r.id \in Nat /\ r.id <= recorded /\ r.id # recorded + 1
    BY <1>2, Constants DEF IInv, Typing, RecordsInv
  <1>5. Typing'
    BY <1>1, <1>2, <1>3 DEF IInv, Typing, Assess
  <1>6. RecordsInv'
    <2>1. \A r \in records' : r.id <= recorded'
      BY <1>1, <1>2, <1>4
    <2>2. \A r, x \in records' : r.id = x.id => r = x
      BY <1>1, <1>4 DEF IInv, RecordsInv
    <2>3. \A r \in records', c \in Categories : InForce(c, r.asOf) = {} => c \in r.notApplicable
      BY <1>1, <1>3 DEF IInv, RecordsInv
    <2> QED
      BY <2>1, <2>2, <2>3 DEF RecordsInv, InForce
  <1>7. RowsInv'
    <2>1. \A i \in DOMAIN page.rows : page.rows[i].id \in Nat
      BY RowTypes DEF IInv, Rows
    <2> SUFFICES ASSUME NEW i \in DOMAIN page.rows
                 PROVE  /\ RowMade(page.rows[i]) /\ page.rows[i].id <= recorded + 1
                        /\ \A r \in records' : r.id = page.rows[i].id => r.asOf = page.rows[i].asOf
      BY <1>2 DEF RowsInv, RowMade, ShowsFirst, Assess
    <2>2. RowMade(page.rows[i]) /\ page.rows[i].id <= recorded
      BY DEF IInv, RowsInv
    <2>3. page.rows[i].id <= recorded + 1 /\ page.rows[i].id # recorded + 1
      BY <1>2, <2>1, <2>2
    <2> QED
      BY <1>1, <2>2, <2>3 DEF IInv, RowsInv
  <1>8. ReadInv' /\ ShownInv'
    BY <1>1 DEF IInv, ReadInv, ShownInv, Assess
  <1> QED
    BY <1>5, <1>6, <1>7, <1>8 DEF IInv

\* Deletion and the purge take records from under a page being read, which is then disturbed.
LEMMA FewerRecordsKeep ==
  ASSUME IInv, records' \subseteq records, UNCHANGED <<today, recorded, incident>>,
         page' = [page EXCEPT !.disturbed = @ \/ page.pc = "reading"]
  PROVE  IInv'
  <1>1. /\ page' \in Pages
        /\ page'.pc = page.pc /\ page'.newest = page.newest /\ page'.todo = page.todo
        /\ page'.rows = page.rows /\ (page'.disturbed <=> page.disturbed \/ page.pc = "reading")
    BY DEF IInv, Typing, Pages
  <1>2. Typing'
    BY <1>1 DEF IInv, Typing
  <1>3. RecordsInv'
    BY DEF IInv, RecordsInv, InForce
  <1>4. RowsInv'
    BY <1>1 DEF IInv, RowsInv, RowMade, ShowsFirst
  <1>5. ReadInv' /\ ShownInv'
    BY <1>1 DEF IInv, ReadInv, ShownInv
  <1> QED
    BY <1>2, <1>3, <1>4, <1>5 DEF IInv

\* Steps of the page leave the records alone.
LEMMA PageKeepsRest ==
  ASSUME IInv, UNCHANGED <<today, records, recorded, incident>>, page' \in Pages
  PROVE  Typing' /\ RecordsInv'
  BY DEF IInv, Typing, RecordsInv, InForce

LEMMA PageBeginKeeps == ASSUME IInv, PageBegin PROVE IInv'
  <1> DEFINE newest == [s \in Systems |-> IF RecordsOf(s) = {} THEN 0 ELSE Latest(s).id]
  <1>1. page' = [pc |-> "reading", newest |-> newest, todo |-> Systems, rows |-> <<>>, disturbed |-> FALSE]
    BY DEF PageBegin, NoPage
  <1>2. \A s \in Systems : /\ newest[s] \in 0..MaxRecords
                           /\ newest[s] # 0 => \E r \in records : r.system = s /\ newest[s] <= r.id
    <2> SUFFICES ASSUME NEW s \in Systems
                 PROVE  /\ newest[s] \in 0..MaxRecords
                        /\ newest[s] # 0 => \E r \in records : r.system = s /\ newest[s] <= r.id
      OBVIOUS
    <2>1. CASE RecordsOf(s) = {}
      BY <2>1, Constants
    <2>2. CASE RecordsOf(s) # {}
      <3>1. Latest(s) \in records /\ Latest(s).system = s /\ Latest(s).id \in 1..MaxRecords
        BY <2>2, LatestIs DEF IInv, Typing, RecordsOf
      <3>2. newest[s] = Latest(s).id
        BY <2>2
      <3> QED
        BY <3>1, <3>2, Constants
    <2> QED
      BY <2>1, <2>2
  <1>3. newest \in [Systems -> 0..MaxRecords]
    BY <1>2
  <1> HIDE DEF newest
  <1>4. page' \in Pages
    BY <1>1, <1>3 DEF Pages
  <1>5. Typing' /\ RecordsInv'
    BY <1>4, PageKeepsRest DEF PageBegin
  <1>6. RowsInv' /\ ShownInv'
    BY <1>1 DEF RowsInv, ShownInv
  <1>7. ReadInv'
    <2>1. page'.rows = <<>> /\ page'.todo = Systems /\ page'.newest = newest
      BY <1>1
    <2>2. records' = records
      BY DEF PageBegin
    <2> QED
      BY <1>2, <2>1, <2>2 DEF ReadInv
  <1> QED
    BY <1>5, <1>6, <1>7 DEF IInv

\* The row of a system, if it has records, is made now, of a record no older than the newest
\* when the page began.
LEMMA PageRowKeeps == ASSUME IInv, NEW s \in Systems, PageRow(s) PROVE IInv'
  <1> DEFINE new == DeadlinesOf(s)
             n == Len(page.rows)
  <1>1. /\ page.pc = "reading" /\ s \in page.todo
        /\ page'.pc = page.pc /\ page'.newest = page.newest /\ page'.todo = page.todo \ {s}
        /\ page'.disturbed = page.disturbed
        /\ page'.rows = IF RecordsOf(s) = {} THEN page.rows ELSE Append(page.rows, new)
        /\ UNCHANGED <<today, records, recorded, incident>>
    BY DEF IInv, Typing, Pages, PageRow
  <1>2. /\ page.rows \in Seq(Rows) /\ n \in Nat /\ DOMAIN page.rows = 1..n
        /\ \A i \in 1..n : page.rows[i] \in Rows
    BY RowTypes DEF IInv, Typing, Pages
  <1>3. CASE RecordsOf(s) = {}
    <2>1. page'.rows = page.rows
      BY <1>1, <1>3
    <2>2. page' \in Pages
      BY <1>3 DEF IInv, Typing, Pages, PageRow
    <2>3. Typing' /\ RecordsInv'
      BY <1>1, <2>2, PageKeepsRest
    <2>4. RowsInv'
      <3>1. RowsInv
        BY DEF IInv
      <3>2. page'.rows = page.rows /\ records' = records /\ recorded' = recorded
        BY <1>1, <2>1
      <3> QED
        BY <3>1, <3>2 DEF RowsInv, RowMade, ShowsFirst
    <2>6. ShownInv'
      BY <1>1 DEF ShownInv
    <2>5. ReadInv'
      BY <1>1, <1>3, <2>1 DEF IInv, ReadInv, RecordsOf
    <2> QED
      BY <2>3, <2>4, <2>5, <2>6 DEF IInv
  <1>4. CASE RecordsOf(s) # {}
    <2>1. /\ new \in Rows /\ RowMade(new) /\ new.system = s
          /\ \E r \in RecordsOf(s) : new.id = r.id /\ new.asOf = r.asOf
          /\ \A r \in RecordsOf(s) : r.id <= new.id
      BY <1>4, DeadlinesOfMade
    <2> HIDE DEF new
    <2>2. /\ page'.rows = Append(page.rows, new) /\ page'.rows \in Seq(Rows)
          /\ DOMAIN page'.rows = 1..(n + 1) /\ page'.rows[n + 1] = new
          /\ \A i \in 1..n : page'.rows[i] = page.rows[i]
      BY <1>1, <1>2, <1>4, <2>1
    <2>3. page' \in Pages
      BY <1>1, <2>2 DEF IInv, Typing, Pages, PageRow
    <2>4. Typing' /\ RecordsInv'
      BY <1>1, <2>3, PageKeepsRest
    <2>5. \A i \in 1..(n + 1) : i \in 1..n \/ i = n + 1
      BY <1>2
    <2>6. RowsInv'
      <3> SUFFICES ASSUME NEW i \in 1..(n + 1)
                   PROVE  /\ RowMade(page'.rows[i])
                          /\ page'.rows[i].id <= recorded
                          /\ \A r \in records : r.id = page'.rows[i].id => r.asOf = page'.rows[i].asOf
        BY <1>1, <2>2 DEF RowsInv, RowMade, ShowsFirst
      <3>1. CASE i \in 1..n
        BY <1>2, <2>2, <3>1 DEF IInv, RowsInv
      <3>2. CASE i = n + 1
        <4>1. \A r \in records : r.id = new.id => r.asOf = new.asOf
          BY <2>1 DEF IInv, RecordsInv, RecordsOf
        <4>2. new.id <= recorded
          BY <2>1 DEF IInv, RecordsInv, RecordsOf
        <4> QED
          BY <2>1, <2>2, <3>2, <4>1, <4>2
      <3> QED
        BY <2>5, <3>1, <3>2
    <2>7. ReadInv'
      <3>1. \A i \in 1..n : page.rows[i].system \notin page.todo
        BY <1>1, <1>2 DEF IInv, ReadInv
      <3>2. \A i \in 1..(n + 1) : page'.rows[i].system \notin page'.todo
        BY <1>1, <2>1, <2>2, <2>5, <3>1
      <3>3. \A i, j \in 1..(n + 1) : page'.rows[i].system = page'.rows[j].system => i = j
        <4>1. \A i \in 1..n : page'.rows[i].system # s
          BY <1>1, <2>2, <3>1
        <4>2. \A i, j \in 1..n : page'.rows[i].system = page'.rows[j].system => i = j
          BY <1>1, <1>2, <2>2 DEF IInv, ReadInv
        <4> QED
          BY <2>1, <2>2, <2>5, <4>1, <4>2
      <3>4. ASSUME ~page.disturbed, NEW x \in Systems, page.newest[x] # 0
            PROVE  IF x \in page'.todo
                   THEN \E r \in records : r.system = x /\ page.newest[x] <= r.id
                   ELSE \E i \in 1..(n + 1) : page'.rows[i].system = x /\ page.newest[x] <= page'.rows[i].id
        <4>1. IF x \in page.todo
              THEN \E r \in records : r.system = x /\ page.newest[x] <= r.id
              ELSE \E i \in 1..n : page.rows[i].system = x /\ page.newest[x] <= page.rows[i].id
          BY <1>1, <1>2, <3>4 DEF IInv, ReadInv
        <4>2. CASE x = s
          <5>1. PICK r \in records : r.system = s /\ page.newest[s] <= r.id
            BY <1>1, <4>1, <4>2
          <5>2. r.id <= new.id
            BY <2>1, <5>1 DEF RecordsOf
          <5>3. r.id \in Int /\ new.id \in Int /\ page.newest[s] \in Int
            BY <2>1, <5>1, Constants DEF IInv, Typing, Rows, Pages
          <5>4. page.newest[s] <= new.id
            BY <5>1, <5>2, <5>3
          <5>5. n + 1 \in 1..(n + 1)
            BY <1>2
          <5> QED
            BY <1>1, <2>1, <2>2, <4>2, <5>4, <5>5
        <4>3. CASE x # s /\ x \in page.todo
          BY <1>1, <4>1, <4>3
        <4>4. CASE x # s /\ x \notin page.todo
          <5>1. PICK i \in 1..n : page.rows[i].system = x /\ page.newest[x] <= page.rows[i].id
            BY <4>1, <4>4
          <5>2. i \in 1..(n + 1)
            BY <1>2
          <5> QED
            BY <1>1, <2>2, <4>4, <5>1, <5>2
        <4> QED
          BY <4>2, <4>3, <4>4
      <3> QED
        BY <1>1, <2>2, <3>2, <3>3, <3>4 DEF ReadInv
    <2>8. ShownInv'
      BY <1>1 DEF ShownInv
    <2> QED
      BY <2>4, <2>6, <2>7, <2>8 DEF IInv
  <1> QED
    BY <1>3, <1>4

\* Sorting moves the rows about.
LEMMA PageShowKeeps == ASSUME IInv, PageShow PROVE IInv'
  <1> DEFINE n == Len(page.rows)
  <1>1. PICK f \in Bijection(DOMAIN page.rows, DOMAIN page.rows) :
          /\ page' = [page EXCEPT !.pc = "shown", !.rows = [i \in DOMAIN page.rows |-> page.rows[f[i]]]]
          /\ \A i, j \in DOMAIN page.rows : i < j => NotAfter(page.rows[f[i]].due, page.rows[f[j]].due)
    BY DEF PageShow, SoonestFirst
  <1>2. /\ DOMAIN page.rows = 1..n /\ n \in Nat
        /\ \A i \in 1..n : page.rows[i] \in Rows
    BY RowTypes DEF IInv
  <1>3. /\ f \in [1..n -> 1..n]
        /\ \A i, j \in 1..n : f[i] = f[j] => i = j
        /\ \A k \in 1..n : \E i \in 1..n : f[i] = k
    BY <1>1, <1>2 DEF Bijection, Injection, IsInjective, Surjection
  <1>4. /\ page.pc = "reading" /\ page.todo = {}
        /\ page'.pc = "shown" /\ page'.newest = page.newest /\ page'.todo = {}
        /\ page'.disturbed = page.disturbed
        /\ page'.rows = [i \in 1..n |-> page.rows[f[i]]]
        /\ UNCHANGED <<today, records, recorded, incident>>
    BY <1>1, <1>2 DEF IInv, Typing, Pages, PageShow
  <1>5. /\ page'.rows \in Seq(Rows) /\ DOMAIN page'.rows = 1..n
        /\ \A i \in 1..n : f[i] \in 1..n /\ page'.rows[i] = page.rows[f[i]]
    <2>1. \A i \in 1..n : f[i] \in 1..n /\ page.rows[f[i]] \in Rows
      BY <1>2, <1>3
    <2>2. page'.rows \in [1..n -> Rows]
      BY <1>4, <2>1
    <2>3. page'.rows \in Seq(Rows)
      BY <1>2, <2>2
    <2> QED
      BY <1>4, <2>1, <2>2, <2>3
  <1>6. page' \in Pages
    BY <1>1, <1>2, <1>4, <1>5 DEF IInv, Typing, Pages
  <1>7. Typing' /\ RecordsInv'
    BY <1>4, <1>6, PageKeepsRest
  <1>8. RowsInv'
    <2> SUFFICES ASSUME NEW i \in 1..n
                 PROVE  /\ RowMade(page'.rows[i]) /\ page'.rows[i].id <= recorded
                        /\ \A r \in records : r.id = page'.rows[i].id => r.asOf = page'.rows[i].asOf
      BY <1>4, <1>5 DEF RowsInv, RowMade, ShowsFirst
    <2>1. f[i] \in DOMAIN page.rows /\ page'.rows[i] = page.rows[f[i]]
      BY <1>2, <1>5
    <2> QED
      BY <2>1 DEF IInv, RowsInv
  <1>9. ReadInv'
    <2>1. \A i, j \in 1..n : page'.rows[i].system = page'.rows[j].system => i = j
      <3> SUFFICES ASSUME NEW i \in 1..n, NEW j \in 1..n, page'.rows[i].system = page'.rows[j].system
                   PROVE  i = j
        OBVIOUS
      <3>1. /\ f[i] \in DOMAIN page.rows /\ page'.rows[i] = page.rows[f[i]]
            /\ f[j] \in DOMAIN page.rows /\ page'.rows[j] = page.rows[f[j]]
        BY <1>2, <1>5
      <3>2. f[i] = f[j]
        BY <1>4, <3>1 DEF IInv, ReadInv
      <3> QED
        BY <1>3, <3>2
    <2>2. ASSUME ~page.disturbed, NEW s \in Systems, page.newest[s] # 0
          PROVE  \E i \in 1..n : page'.rows[i].system = s /\ page.newest[s] <= page'.rows[i].id
      <3>1. PICK k \in 1..n : page.rows[k].system = s /\ page.newest[s] <= page.rows[k].id
        BY <1>2, <1>4, <2>2 DEF IInv, ReadInv
      <3>2. PICK i \in 1..n : f[i] = k
        BY <1>3
      <3>3. page'.rows[i] = page.rows[k]
        BY <1>5, <3>2
      <3> QED
        BY <3>1, <3>3
    <2> QED
      BY <1>4, <1>5, <2>1, <2>2 DEF ReadInv
  <1>10. ShownInv'
    BY <1>1, <1>2, <1>4, <1>5 DEF ShownInv
  <1> QED
    BY <1>7, <1>8, <1>9, <1>10 DEF IInv

LEMMA PageCloseKeeps == ASSUME IInv, PageClose PROVE IInv'
  <1>1. page' \in Pages /\ page'.rows = <<>> /\ page'.pc = "closed"
    BY Constants DEF PageClose, NoPage, Pages
  <1>2. Typing' /\ RecordsInv'
    BY <1>1, PageKeepsRest DEF PageClose
  <1> QED
    BY <1>1, <1>2 DEF IInv, RowsInv, ReadInv, ShownInv

\* Incidents and the clock touch neither the records nor the page.
LEMMA OthersKeep ==
  ASSUME IInv, UNCHANGED <<records, recorded, page>>, today' \in Days,
         incident' \in [Incidents -> {"unfiled", "open", "reported"}]
  PROVE  IInv'
  BY DEF IInv, Typing, RecordsInv, RowsInv, ReadInv, ShownInv, InForce, RowMade, ShowsFirst

LEMMA NextKeeps == ASSUME IInv, [Next]_vars PROVE IInv'
  <1>1. ASSUME NEW i \in Incidents, File(i) \/ MarkReported(i) PROVE IInv'
    BY <1>1, OthersKeep DEF IInv, Typing, File, MarkReported
  <1>2. CASE Tick
    BY <1>2, OthersKeep DEF IInv, Typing, Tick
  <1>3. CASE Purge
    <2>1. records' \subseteq records
      BY <1>3 DEF Purge
    <2> QED
      BY <1>3, <2>1, FewerRecordsKeep DEF Purge
  <1>4. CASE Delete
    <2>1. records' \subseteq records
      BY <1>4 DEF Delete
    <2> QED
      BY <1>4, <2>1, FewerRecordsKeep DEF Delete
  <1>5. CASE UNCHANGED vars
    BY <1>5, OthersKeep DEF IInv, Typing, vars
  <1> QED
    BY <1>1, <1>2, <1>3, <1>4, <1>5, AssessKeeps, PageBeginKeeps, PageRowKeeps, PageShowKeeps,
       PageCloseKeeps DEF Next

LEMMA Invariance == Spec => []IInv
  <1>1. IInv /\ [Next]_vars => IInv'
    BY NextKeeps
  <1> QED
    BY InitIInv, <1>1, PTL DEF Spec

-----------------------------------------------------------------------------
(* The theorems *)

\* The state keeps its types, and every due date is a date of the calendar.
THEOREM TypeCorrect == Spec => []TypeOK
  <1>1. ASSUME IInv PROVE TypeOK
    <2>1. \A i \in DOMAIN page.rows : page.rows[i].system \in Systems /\ page.rows[i].due \in DueDates
      BY <1>1, RowTypes DEF IInv, Rows
    <2>2. \A d \in DueDates : IsDate(d)
      BY Constants, AnniversaryIsDate DEF DueDates
    <2> QED
      BY <1>1, <2>1, <2>2 DEF IInv, Typing, TypeOK, Pages
  <1> QED
    BY Invariance, <1>1, PTL

\* A row of the page, by its place.
LEMMA RowAt ==
  ASSUME IInv, NEW row \in Range(page.rows)
  PROVE  /\ row \in Rows /\ RowMade(row)
         /\ \A r \in records : r.id = row.id => r.asOf = row.asOf
  <1>1. PICK i \in DOMAIN page.rows : row = page.rows[i]
    BY DEF Range
  <1> QED
    BY <1>1, RowTypes DEF IInv, RowsInv

\* _add_months: due on the same day of the next year, or on 28 February.
THEOREM DueIsAnniversaryHolds == Spec => []DueIsAnniversary
  <1>1. ASSUME IInv, NEW row \in Range(page.rows)
        PROVE  /\ row.due.year = row.asOf.year + 1 /\ row.due.month = row.asOf.month
               /\ \/ row.due.day = row.asOf.day
                  \/ row.asOf.month = 2 /\ row.asOf.day = 29 /\ row.due.day = 28
    <2>1. IsDate(row.asOf) /\ row.due = AddMonths(row.asOf, 12)
      BY <1>1, RowAt, Constants DEF RowMade, Rows
    <2>2. AddMonths(row.asOf, 12).year = row.asOf.year + 1 /\ AddMonths(row.asOf, 12).month = row.asOf.month
      BY <2>1, TwelveMonths
    <2> QED
      BY <2>1, <2>2, AnniversaryDay
  <1>2. IInv => DueIsAnniversary
    BY <1>1 DEF DueIsAnniversary
  <1> QED
    BY Invariance, <1>2, PTL

\* A category that no requirement was in force of is shown with the first date of one.
THEOREM UpcomingIsFirstHolds == Spec => []UpcomingIsFirst
  <1>1. IInv => UpcomingIsFirst
    BY RowAt DEF UpcomingIsFirst, RowMade, ShowsFirst
  <1> QED
    BY Invariance, <1>1, PTL

\* An overdue assessment that the purge may not yet take was about a day so long past.
THEOREM OverdueIsBackdatedHolds == Spec => []OverdueIsBackdated
  <1>1. ASSUME IInv, NEW row \in Range(page.rows), NEW r \in records, row.overdue, r.id = row.id,
               Ordinal(r.at) + Retention >= Ordinal(row.on)
        PROVE  Ordinal(r.at) - Ordinal(r.asOf) >= 365 - Retention
    <2>1. /\ row \in Rows /\ RowMade(row) /\ r.asOf = row.asOf
      BY <1>1, RowAt
    <2>2. /\ IsDate(row.asOf) /\ IsDate(row.on) /\ IsDate(r.at)
          /\ row.due = AddMonths(row.asOf, 12) /\ IsDate(row.due)
      BY <1>1, <2>1, Constants, AnniversaryIsDate DEF RowMade, Rows, IInv, Typing
    <2>3. Ordinal(row.due) <= Ordinal(row.on)
      BY <1>1, <2>1, <2>2, OrdinalMonotone DEF RowMade
    <2>4. Ordinal(row.asOf) + 365 <= Ordinal(row.due)
      BY <2>2, AnniversaryIsAYearOn
    <2>5. /\ Ordinal(row.asOf) \in Int /\ Ordinal(row.due) \in Int /\ Ordinal(row.on) \in Int
          /\ Ordinal(r.at) \in Int /\ Retention \in Int
      BY <2>2, OrdinalIsInt, Constants
    <2> QED
      BY <1>1, <2>1, <2>3, <2>4, <2>5
  <1>2. IInv => OverdueIsBackdated
    BY <1>1 DEF OverdueIsBackdated
  <1> QED
    BY Invariance, <1>2, PTL

\* An undisturbed page has one row for each system assessed before it began.
THEOREM PageCompleteHolds == Spec => []PageComplete
  <1>1. IInv => PageComplete
    BY DEF IInv, ReadInv, ShownInv, PageComplete
  <1> QED
    BY Invariance, <1>1, PTL

\* What is listed above an overdue system is overdue, or fell due while the page was read.
THEOREM OverdueListedFirstHolds == Spec => []OverdueListedFirst
  <1>1. ASSUME IInv, page.pc = "shown", NEW i \in DOMAIN page.rows, NEW j \in DOMAIN page.rows,
               i < j, page.rows[j].overdue, ~page.rows[i].overdue
        PROVE  /\ Before(page.rows[i].on, page.rows[i].due)
               /\ NotAfter(page.rows[i].due, page.rows[j].on)
    <2>1. /\ RowMade(page.rows[i]) /\ page.rows[i] \in Rows
          /\ RowMade(page.rows[j]) /\ page.rows[j] \in Rows
      BY <1>1, RowTypes DEF IInv, RowsInv
    <2>2. \A d \in DueDates \cup Days : IsDate(d)
      BY Constants, AnniversaryIsDate DEF DueDates
    <2>3. /\ IsDate(page.rows[i].on) /\ IsDate(page.rows[i].due)
          /\ IsDate(page.rows[j].on) /\ IsDate(page.rows[j].due)
      BY <2>1, <2>2 DEF Rows
    <2>4. NotAfter(page.rows[i].due, page.rows[j].due)
      BY <1>1 DEF IInv, ShownInv
    <2>5. NotAfter(page.rows[j].due, page.rows[j].on) /\ ~NotAfter(page.rows[i].due, page.rows[i].on)
      BY <1>1, <2>1 DEF RowMade
    <2> QED
      BY <2>3, <2>4, <2>5, BeforeTransitive, BeforeTotal
  <1>2. IInv => OverdueListedFirst
    BY <1>1 DEF OverdueListedFirst
  <1> QED
    BY Invariance, <1>2, PTL

\* Incidents whose time to report has run out are listed before the others.
THEOREM LateReportsListedFirstHolds == Spec => []LateReportsListedFirst
  <1>1. ASSUME IInv, NEW i \in Incidents, NEW j \in Incidents,
               ReportOverdue(i), incident[j] # "unfiled", ~ReportOverdue(j)
        PROVE  ListedBefore(i, j)
    <2>1. ReportBy(i) \in Int /\ ReportBy(j) \in Int /\ Ordinal(today) \in Int
      <3>1. \A k \in Incidents : ReportWithin[Severity[k]] \in Int
        BY DeadlinesAssumption DEF ReportWithin
      <3>2. \A k \in Incidents : Ordinal(Detected[k]) \in Int
        BY DeadlinesAssumption, OrdinalIsInt
      <3>3. Ordinal(today) \in Int
        BY <1>1, Constants, OrdinalIsInt DEF IInv, Typing
      <3> QED
        BY <3>1, <3>2, <3>3 DEF ReportBy
    <2>2. incident[j] \in {"open", "reported"} /\ incident[i] = "open"
      BY <1>1 DEF IInv, Typing, ReportOverdue
    <2> QED
      BY <1>1, <2>1, <2>2 DEF ReportOverdue, ListedBefore
  <1>2. IInv => LateReportsListedFirst
    BY <1>1 DEF LateReportsListedFirst
  <1> QED
    BY Invariance, <1>2, PTL

=============================================================================
