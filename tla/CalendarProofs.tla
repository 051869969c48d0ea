-------------------------- MODULE CalendarProofs ---------------------------
(***************************************************************************)
(* The date arithmetic on every day there will be, however far the walk    *)
(* goes and whenever the clock is looked at.                               *)
(*                                                                         *)
(* The loops of days_to_ymd are recursive functions.  A function so        *)
(* defined is only known to satisfy its equation if some function does;    *)
(* Elapsed and Past give one in closed form for each loop, and the closed  *)
(* form is what the loop computes.                                         *)
(***************************************************************************)
EXTENDS Calendar, WellFoundedInduction, TLAPS

\* Every nonempty set of naturals has a least element.
LEMMA LeastNatural ==
    ASSUME NEW T \in SUBSET Nat, T # {}
    PROVE  \E x \in T : \A y \in T : x <= y
<1>1. PICK x \in T : \A y \in T : ~ (<<y, x>> \in OpToRel(<, Nat))
  BY NatLessThanWellFounded, WFMin
<1>2. \A y \in T : ~ (y < x)
  BY <1>1 DEF OpToRel
<1> QED
  BY <1>2

-----------------------------------------------------------------------------
(* Years.                                                                  *)

\* The days before the first of January of a year, up to a constant.
Elapsed(year) == 365 * year + (year - 1) \div 4 - (year - 1) \div 100 + (year - 1) \div 400

\* The two statements of the Gregorian rule say the same.
LEMMA SameLeap == \A year \in Nat : is_leap(year) <=> LeapYear(year)
  BY DEF is_leap, LeapYear

\* A year adds its own length, so later years have more days before them.
LEMMA ElapsedStep ==
    \A y \in Nat : /\ Elapsed(y) \in Int /\ diy(y) \in {365, 366}
                   /\ Elapsed(y + 1) = Elapsed(y) + diy(y)
  BY DEF Elapsed, diy, is_leap

\* The same over any number of years.
LEMMA ElapsedGrows == \A y, z \in Nat : y < z => Elapsed(y) < Elapsed(z)
  BY DEF Elapsed

\* The day that a state of the loop stands for, and the year it is in.
DayAt(s) == Elapsed(s.year) + s.days

YearsOf(s) ==
    {y \in Nat : /\ s.year <= y
                 /\ Elapsed(y) <= DayAt(s)
                 /\ DayAt(s) < Elapsed(y + 1)}

YearOf(s) == CHOOSE y \in YearsOf(s) : TRUE

\* What is left of the days when whole years have been taken off.
YearEnd(s) == [year |-> YearOf(s), days |-> DayAt(s) - Elapsed(YearOf(s))]

NextYear(s) == [year |-> s.year + 1, days |-> s.days - diy(s.year)]

YearRule(f) ==
    f = [s \in YearLoop |-> IF s.days < diy(s.year) THEN s ELSE f[NextYear(s)]]

\* At most one year has the day in it.
LEMMA OneYear ==
    ASSUME NEW s \in YearLoop, NEW y \in YearsOf(s)
    PROVE  YearOf(s) = y
<1>1. YearOf(s) \in YearsOf(s)
  BY DEF YearOf
<1>2. ASSUME NEW a \in YearsOf(s), NEW b \in YearsOf(s), a < b
      PROVE  FALSE
  <2>1. a \in Nat /\ b \in Nat /\ s.year \in Nat /\ s.days \in Nat
    BY DEF YearsOf, YearLoop
  <2>2. Elapsed(a + 1) <= Elapsed(b)
    <3>1. a + 1 = b \/ a + 1 < b
      BY <1>2, <2>1
    <3> QED
      BY <3>1, <2>1, ElapsedGrows, ElapsedStep
  <2>3. /\ Elapsed(s.year) + s.days < Elapsed(a + 1)
        /\ Elapsed(b) <= Elapsed(s.year) + s.days
    BY DEF YearsOf, DayAt
  <2> QED
    BY <2>1, <2>2, <2>3, ElapsedStep
<1> QED
  BY <1>1, <1>2 DEF YearsOf

\* A turn of the loop leaves the day where it is.
LEMMA SameDay ==
    ASSUME NEW s \in YearLoop, ~ (s.days < diy(s.year))
    PROVE  /\ NextYear(s) \in YearLoop
           /\ NextYear(s).days < s.days
           /\ NextYear(s).year = s.year + 1
           /\ YearsOf(NextYear(s)) = YearsOf(s) /\ YearEnd(NextYear(s)) = YearEnd(s)
<1>1. s.year \in Nat /\ s.days \in Nat /\ diy(s.year) \in {365, 366}
  BY ElapsedStep DEF YearLoop
<1>2. /\ NextYear(s) \in YearLoop /\ NextYear(s).days < s.days
      /\ NextYear(s).year = s.year + 1 /\ NextYear(s).days = s.days - diy(s.year)
  BY <1>1 DEF NextYear, YearLoop
<1>3. DayAt(NextYear(s)) = DayAt(s)
  BY <1>1, <1>2, ElapsedStep DEF DayAt
<1>4. \A y \in YearsOf(s) : s.year + 1 <= y
  <2> SUFFICES ASSUME s.year \in YearsOf(s) PROVE FALSE
    BY <1>1 DEF YearsOf
  <2>1. Elapsed(s.year) + s.days < Elapsed(s.year + 1)
    BY DEF YearsOf, DayAt
  <2> QED
    BY <2>1, <1>1, ElapsedStep
<1>5. YearsOf(NextYear(s)) = YearsOf(s)
  BY <1>1, <1>2, <1>3, <1>4 DEF YearsOf
<1>6. YearOf(NextYear(s)) = YearOf(s)
  BY <1>5, Zenon DEF YearOf
<1>7. YearEnd(NextYear(s)) = YearEnd(s)
  BY <1>3, <1>6 DEF YearEnd
<1> QED
  BY <1>2, <1>3, <1>5, <1>7

\* A day that is in the year itself needs no turn.
LEMMA ThisYear ==
    ASSUME NEW s \in YearLoop, s.days < diy(s.year)
    PROVE  s.year \in YearsOf(s) /\ YearOf(s) = s.year /\ YearEnd(s) = s
<1>1. s.year \in Nat /\ s.days \in Nat
  BY DEF YearLoop
<1>2. s.year \in YearsOf(s)
  BY <1>1, ElapsedStep DEF YearsOf, DayAt
<1>3. YearOf(s) = s.year
  BY <1>2, OneYear
<1>4. DayAt(s) - Elapsed(YearOf(s)) = s.days
  BY <1>1, <1>3, ElapsedStep DEF DayAt
<1>5. s = [year |-> s.year, days |-> s.days]
  BY DEF YearLoop
<1>6. YearEnd(s) = s
  BY <1>3, <1>4, <1>5 DEF YearEnd
<1> QED
  BY <1>2, <1>3, <1>6

\* So the closed form obeys the loop's rule ...
LEMMA YearRuleHolds == YearFrom = [s \in YearLoop |->
    IF s.days < diy(s.year) THEN s ELSE YearFrom[NextYear(s)]]
<1> DEFINE g == [s \in YearLoop |-> YearEnd(s)]
<1>1. ASSUME NEW s \in YearLoop
      PROVE  g[s] = IF s.days < diy(s.year) THEN s ELSE g[NextYear(s)]
  <2>1. CASE s.days < diy(s.year)
    BY <2>1, ThisYear
  <2>2. CASE ~ (s.days < diy(s.year))
    BY <2>2, SameDay
  <2> QED
    BY <2>1, <2>2
<1>2. g = [s \in YearLoop |-> IF s.days < diy(s.year) THEN s ELSE g[NextYear(s)]]
  BY <1>1, Zenon
<1> HIDE DEF g
<1>3. \E f : YearRule(f)
  BY <1>2 DEF YearRule
<1>4. YearFrom = CHOOSE f : YearRule(f)
  BY DEF YearFrom, YearRule, NextYear
<1> QED
  BY <1>3, <1>4, Zenon DEF YearRule

\* ... and the loop computes the closed form.
LEMMA YearFromSpec ==
    ASSUME NEW s \in YearLoop, NEW y \in YearsOf(s)
    PROVE  YearFrom[s] = [year |-> y, days |-> DayAt(s) - Elapsed(y)]
<1> DEFINE Bad == {t \in YearLoop : YearsOf(t) # {} /\ YearFrom[t] # YearEnd(t)}
           Lengths == {t.days : t \in Bad}
<1>1. Bad = {}
  <2> SUFFICES ASSUME Bad # {} PROVE FALSE
    OBVIOUS
  <2>1. Lengths # {} /\ Lengths \in SUBSET Nat
    BY DEF YearLoop
  <2>2. PICK n \in Lengths : \A k \in Lengths : n <= k
    BY <2>1, LeastNatural
  <2>3. PICK t \in Bad : t.days = n
    BY <2>2
  <2>4. t \in YearLoop /\ YearsOf(t) # {} /\ YearFrom[t] # YearEnd(t)
    BY <2>3
  <2>5. CASE t.days < diy(t.year)
    BY <2>4, <2>5, ThisYear, YearRuleHolds
  <2>6. CASE ~ (t.days < diy(t.year))
    <3>1. /\ NextYear(t) \in YearLoop /\ NextYear(t).days < t.days
          /\ YearsOf(NextYear(t)) = YearsOf(t) /\ YearEnd(NextYear(t)) = YearEnd(t)
      BY <2>4, <2>6, SameDay
    <3>2. NextYear(t) \in Bad
      BY <3>1, <2>4, <2>6, YearRuleHolds
    <3>3. n \in Nat /\ NextYear(t).days \in Nat
      BY <3>1, <2>3, <2>4 DEF YearLoop
    <3> QED
      BY <3>1, <3>2, <3>3, <2>2, <2>3
  <2> QED
    BY <2>5, <2>6
<1> QED
  BY <1>1, OneYear DEF YearEnd

-----------------------------------------------------------------------------
(* Months.                                                                 *)

\* The days before the first of a month; month 13 is the next January.
Past(year, month) ==
    IF month = 13 THEN diy(year)
    ELSE days_before_month[month] + IF month > 2 /\ is_leap(year) THEN 1 ELSE 0

\* A month adds its own length.
LEMMA PastStep ==
    \A year \in Nat : \A month \in 1..12 :
        /\ Past(year, month) \in Nat /\ md(year)[month] \in 28..31
        /\ Past(year, month + 1) = Past(year, month) + md(year)[month]
<1> SUFFICES ASSUME NEW year \in Nat, NEW month \in 1..12
             PROVE  /\ Past(year, month) \in Nat /\ md(year)[month] \in 28..31
                    /\ Past(year, month + 1) = Past(year, month) + md(year)[month]
  OBVIOUS
<1>1. month \in {1, 2, 3, 4, 5, 6, 7, 8, 9, 10, 11, 12}
  OBVIOUS
<1> QED
  BY <1>1 DEF Past, md, days_before_month, diy

\* The reference calendar gives the month the same length.
LEMMA SameMonth ==
    \A d \in [year : Nat, month : 1..12, day : Nat] : DaysOf(d) = md(d.year)[d.month]
<1> SUFFICES ASSUME NEW d \in [year : Nat, month : 1..12, day : Nat]
             PROVE  DaysOf(d) = md(d.year)[d.month]
  OBVIOUS
<1>1. d.month \in {1, 2, 3, 4, 5, 6, 7, 8, 9, 10, 11, 12}
  OBVIOUS
<1> QED
  BY <1>1, SameLeap DEF md, DaysOf

\* Later months have more days before them.
LEMMA PastGrows ==
    \A year \in Nat : \A m, n \in 1..13 :
        /\ Past(year, m) \in Nat /\ Past(year, 1) = 0
        /\ m < n => Past(year, m) < Past(year, n)
  BY DEF Past, days_before_month, diy

\* The day of the year that a state of the loop stands for, and its month, if any.
YearDayAt(s) == Past(s.year, s.month) + s.days

MonthsOf(s) ==
    {m \in s.month..12 : /\ Past(s.year, m) <= YearDayAt(s)
                         /\ YearDayAt(s) < Past(s.year, m + 1)}

LastMonth(s) == IF MonthsOf(s) = {} THEN 13 ELSE CHOOSE m \in MonthsOf(s) : TRUE

MonthEnd(s) ==
    [year |-> s.year, month |-> LastMonth(s),
     days |-> YearDayAt(s) - Past(s.year, LastMonth(s))]

NextMonth(s) ==
    [year |-> s.year, month |-> s.month + 1, days |-> s.days - md(s.year)[s.month]]

MonthOver(s) == s.month = 13 \/ s.days < md(s.year)[s.month]

MonthRule(f) == f = [s \in MonthLoop |-> IF MonthOver(s) THEN s ELSE f[NextMonth(s)]]

\* At most one month has the day in it.
LEMMA OneMonth ==
    ASSUME NEW s \in MonthLoop, NEW m \in MonthsOf(s)
    PROVE  LastMonth(s) = m
<1>1. LastMonth(s) \in MonthsOf(s)
  BY DEF LastMonth
<1>2. ASSUME NEW a \in MonthsOf(s), NEW b \in MonthsOf(s), a < b
      PROVE  FALSE
  <2>1. a \in 1..12 /\ b \in 1..12 /\ s.year \in Nat /\ s.month \in 1..13 /\ s.days \in Nat
    BY DEF MonthsOf, MonthLoop
  <2>2. Past(s.year, a + 1) <= Past(s.year, b)
    <3>1. a + 1 \in 1..13 /\ b \in 1..13 /\ (a + 1 = b \/ a + 1 < b)
      BY <1>2, <2>1
    <3>2. /\ a + 1 < b => Past(s.year, a + 1) < Past(s.year, b)
          /\ Past(s.year, a + 1) \in Nat /\ Past(s.year, b) \in Nat
      BY <3>1, <2>1, PastGrows, Zenon
    <3> QED
      BY <3>1, <3>2
  <2>3. /\ Past(s.year, s.month) + s.days < Past(s.year, a + 1)
        /\ Past(s.year, b) <= Past(s.year, s.month) + s.days
    BY DEF MonthsOf, YearDayAt
  <2>4. /\ Past(s.year, a + 1) \in Nat /\ Past(s.year, b) \in Nat
        /\ Past(s.year, s.month) \in Nat
    <3>1. a + 1 \in 1..13 /\ b \in 1..13
      BY <2>1
    <3> QED
      BY <3>1, <2>1, PastGrows, Zenon
  <2> QED
    BY <2>1, <2>2, <2>3, <2>4
<1> QED
  BY <1>1, <1>2 DEF MonthsOf, MonthLoop

\* A turn of the loop leaves the day where it is.
LEMMA SameDayOfYear ==
    ASSUME NEW s \in MonthLoop, ~ MonthOver(s)
    PROVE  /\ NextMonth(s) \in MonthLoop
           /\ NextMonth(s).days < s.days
           /\ MonthsOf(NextMonth(s)) = MonthsOf(s) /\ MonthEnd(NextMonth(s)) = MonthEnd(s)
<1>1. s.year \in Nat /\ s.month \in 1..12 /\ s.days \in Nat /\ md(s.year)[s.month] \in 28..31
  <2>1. s.year \in Nat /\ s.month \in 1..12 /\ s.days \in Nat
    BY DEF MonthLoop, MonthOver
  <2> QED
    BY <2>1, PastStep, Zenon
<1>2. /\ NextMonth(s) \in MonthLoop /\ NextMonth(s).days < s.days
      /\ NextMonth(s).year = s.year /\ NextMonth(s).month = s.month + 1
      /\ NextMonth(s).days = s.days - md(s.year)[s.month]
  BY <1>1 DEF NextMonth, MonthLoop, MonthOver
<1>3. YearDayAt(NextMonth(s)) = YearDayAt(s)
  <2>1. /\ Past(s.year, s.month) \in Nat
        /\ Past(s.year, s.month + 1) = Past(s.year, s.month) + md(s.year)[s.month]
    BY <1>1, PastStep, Zenon
  <2> QED
    BY <1>1, <1>2, <2>1 DEF YearDayAt
<1>4. s.month \notin MonthsOf(s)
  <2> SUFFICES ASSUME s.month \in MonthsOf(s) PROVE FALSE
    OBVIOUS
  <2>1. Past(s.year, s.month) + s.days < Past(s.year, s.month + 1)
    BY DEF MonthsOf, YearDayAt
  <2>2. /\ Past(s.year, s.month) \in Nat
        /\ Past(s.year, s.month + 1) = Past(s.year, s.month) + md(s.year)[s.month]
    BY <1>1, PastStep, Zenon
  <2>3. s.days < md(s.year)[s.month]
    BY <2>1, <2>2, <1>1
  <2> QED
    BY <2>3 DEF MonthOver
<1>5. MonthsOf(NextMonth(s)) = MonthsOf(s)
  BY <1>1, <1>2, <1>3, <1>4 DEF MonthsOf
<1>6. LastMonth(NextMonth(s)) = LastMonth(s)
  BY <1>5 DEF LastMonth
<1>7. MonthEnd(NextMonth(s)) = MonthEnd(s)
  BY <1>2, <1>3, <1>6, Zenon DEF MonthEnd
<1> QED
  BY <1>2, <1>5, <1>7

\* A day that is in the month itself needs no turn.
LEMMA ThisMonth ==
    ASSUME NEW s \in MonthLoop, MonthOver(s)
    PROVE  MonthEnd(s) = s
<1>1. s.year \in Nat /\ s.days \in Nat /\ s.month \in 1..13 /\ Past(s.year, s.month) \in Nat
  BY PastGrows DEF MonthLoop
<1>2. LastMonth(s) = s.month
  <2>1. CASE s.month = 13
    BY <2>1 DEF LastMonth, MonthsOf
  <2>2. CASE s.month # 13
    <3>1. s.month \in 1..12 /\ s.days < md(s.year)[s.month]
      BY <2>2, <1>1 DEF MonthOver
    <3>2. Past(s.year, s.month + 1) = Past(s.year, s.month) + md(s.year)[s.month]
      BY <3>1, <1>1, PastStep, Zenon
    <3>3. md(s.year)[s.month] \in 28..31
      BY <3>1, <1>1, PastStep, Zenon
    <3>4. s.month \in MonthsOf(s)
      BY <3>1, <3>2, <3>3, <1>1 DEF MonthsOf, YearDayAt
    <3> QED
      BY <3>4, OneMonth
  <2> QED
    BY <2>1, <2>2
<1>3. YearDayAt(s) - Past(s.year, LastMonth(s)) = s.days
  BY <1>1, <1>2 DEF YearDayAt
<1>4. s = [year |-> s.year, month |-> s.month, days |-> s.days]
  BY DEF MonthLoop
<1> QED
  BY <1>2, <1>3, <1>4 DEF MonthEnd

\* So the closed form obeys the loop's rule ...
LEMMA MonthRuleHolds == MonthFrom = [s \in MonthLoop |->
    IF MonthOver(s) THEN s ELSE MonthFrom[NextMonth(s)]]
<1> DEFINE g == [s \in MonthLoop |-> MonthEnd(s)]
<1>1. ASSUME NEW s \in MonthLoop
      PROVE  g[s] = IF MonthOver(s) THEN s ELSE g[NextMonth(s)]
  <2>1. CASE MonthOver(s)
    BY <2>1, ThisMonth
  <2>2. CASE ~ MonthOver(s)
    BY <2>2, SameDayOfYear
  <2> QED
    BY <2>1, <2>2
<1>2. g = [s \in MonthLoop |-> IF MonthOver(s) THEN s ELSE g[NextMonth(s)]]
  BY <1>1, Zenon
<1> HIDE DEF g
<1>3. \E f : MonthRule(f)
  BY <1>2 DEF MonthRule
<1>4. MonthFrom = CHOOSE f : MonthRule(f)
  BY DEF MonthFrom, MonthRule, NextMonth, MonthOver
<1> QED
  BY <1>3, <1>4, Zenon DEF MonthRule

\* ... and the loop computes the closed form.
LEMMA MonthFromSpec == \A s \in MonthLoop : MonthFrom[s] = MonthEnd(s)
<1> DEFINE Bad == {t \in MonthLoop : MonthFrom[t] # MonthEnd(t)}
           Lengths == {t.days : t \in Bad}
<1>1. Bad = {}
  <2> SUFFICES ASSUME Bad # {} PROVE FALSE
    OBVIOUS
  <2>1. Lengths # {} /\ Lengths \in SUBSET Nat
    BY DEF MonthLoop
  <2>2. PICK n \in Lengths : \A k \in Lengths : n <= k
    BY <2>1, LeastNatural
  <2>3. PICK t \in Bad : t.days = n
    BY <2>2
  <2>4. t \in MonthLoop /\ MonthFrom[t] # MonthEnd(t)
    BY <2>3
  <2>5. CASE MonthOver(t)
    BY <2>4, <2>5, ThisMonth, MonthRuleHolds
  <2>6. CASE ~ MonthOver(t)
    <3>1. /\ NextMonth(t) \in MonthLoop /\ NextMonth(t).days < t.days
          /\ MonthEnd(NextMonth(t)) = MonthEnd(t)
      BY <2>4, <2>6, SameDayOfYear
    <3>2. NextMonth(t) \in Bad
      BY <3>1, <2>4, <2>6, MonthRuleHolds
    <3>3. n \in Nat /\ NextMonth(t).days \in Nat
      BY <3>1, <2>3, <2>4 DEF MonthLoop
    <3> QED
      BY <3>1, <3>2, <3>3, <2>2, <2>3
  <2> QED
    BY <2>5, <2>6
<1> QED
  BY <1>1

-----------------------------------------------------------------------------
(* The two directions of datetime.rs.                                      *)

\* A date of the calendar since 1970, and the days from 1970 to it.
Dates == {d \in [year : Nat, month : 1..12, day : Nat \ {0}] :
            d.year >= 1970 /\ d.day <= DaysOf(d)}

DayNumber(d) == Elapsed(d.year) - Elapsed(1970) + Past(d.year, d.month) + d.day - 1

\* days_to_ymd inverts the count of days.
LEMMA DatesBack == ASSUME NEW d \in Dates
                   PROVE  DayNumber(d) \in Nat /\ days_to_ymd(DayNumber(d)) = d
<1> DEFINE n == DayNumber(d)
           y == [year |-> 1970, days |-> n]
           rest == Past(d.year, d.month) + d.day - 1
           m == [year |-> d.year, month |-> 1, days |-> rest]
<1>1. /\ d = [year |-> d.year, month |-> d.month, day |-> d.day]
      /\ d.year \in Nat /\ d.month \in 1..12 /\ d.day \in Nat \ {0} /\ d.year >= 1970
      /\ d.day <= md(d.year)[d.month]
      /\ Past(d.year, d.month) \in Nat /\ md(d.year)[d.month] \in 28..31
      /\ Past(d.year, d.month + 1) = Past(d.year, d.month) + md(d.year)[d.month]
  <2>1. /\ d = [year |-> d.year, month |-> d.month, day |-> d.day]
        /\ d.year \in Nat /\ d.month \in 1..12 /\ d.day \in Nat \ {0} /\ d.year >= 1970
        /\ d.day <= DaysOf(d)
    BY DEF Dates
  <2>2. DaysOf(d) = md(d.year)[d.month]
    BY SameMonth DEF Dates
  <2> QED
    BY <2>1, <2>2, PastStep
<1>2. rest \in Nat /\ rest < diy(d.year)
  <2>1. d.month + 1 \in 1..13 /\ 13 \in 1..13
    BY <1>1
  <2>2. Past(d.year, d.month + 1) <= Past(d.year, 13)
    BY <1>1, <2>1, PastGrows
  <2>3. Past(d.year, 13) = diy(d.year) /\ diy(d.year) \in Int
    BY <1>1, ElapsedStep DEF Past
  <2> QED
    BY <1>1, <2>2, <2>3
<1>3. /\ Elapsed(1970) \in Int /\ Elapsed(d.year) \in Int /\ Elapsed(1970) <= Elapsed(d.year)
      /\ Elapsed(d.year + 1) = Elapsed(d.year) + diy(d.year) /\ diy(d.year) \in Int
  <2>1. d.year = 1970 \/ 1970 < d.year
    BY <1>1
  <2> QED
    BY <1>1, <2>1, ElapsedStep, ElapsedGrows
<1>4. n = Elapsed(d.year) - Elapsed(1970) + rest /\ n \in Nat
  BY <1>1, <1>2, <1>3 DEF DayNumber
<1>5. YearFrom[y] = [year |-> d.year, days |-> rest]
  <2>1. y \in YearLoop /\ y.year = 1970 /\ y.days = n
    BY <1>4 DEF YearLoop
  <2>2. d.year \in YearsOf(y)
    BY <1>1, <1>2, <1>3, <1>4, <2>1 DEF YearsOf, DayAt
  <2>3. YearFrom[y] = [year |-> d.year, days |-> DayAt(y) - Elapsed(d.year)]
    BY <2>1, <2>2, YearFromSpec
  <2>4. DayAt(y) - Elapsed(d.year) = rest
    BY <2>1, <1>2, <1>3, <1>4 DEF DayAt
  <2> QED
    BY <2>3, <2>4
<1>6. MonthFrom[m] = [year |-> d.year, month |-> d.month, days |-> d.day - 1]
  <2>1. /\ m \in MonthLoop /\ m.year = d.year /\ m.month = 1 /\ m.days = rest
        /\ Past(d.year, 1) = 0
    BY <1>1, <1>2, PastGrows DEF MonthLoop
  <2>2. d.month \in MonthsOf(m)
    BY <1>1, <1>2, <2>1 DEF MonthsOf, YearDayAt
  <2>3. LastMonth(m) = d.month
    BY <2>1, <2>2, OneMonth
  <2>4. MonthFrom[m] = [year |-> m.year, month |-> LastMonth(m),
                        days |-> YearDayAt(m) - Past(m.year, LastMonth(m))]
    BY <2>1, MonthFromSpec DEF MonthEnd
  <2>5. YearDayAt(m) - Past(d.year, d.month) = d.day - 1
    BY <2>1, <1>1, <1>2 DEF YearDayAt
  <2> QED
    BY <2>1, <2>3, <2>4, <2>5
<1>7. days_to_ymd(n) = [year |-> d.year, month |-> d.month, day |-> d.day]
  <2> HIDE DEF n, rest
  <2>1. [year |-> YearFrom[y].year, month |-> 1, days |-> YearFrom[y].days] = m
    BY <1>5
  <2>2. MonthFrom[m].month = d.month /\ MonthFrom[m].days + 1 = d.day /\ d.month # 13
    BY <1>6, <1>1
  <2> QED
    BY <1>5, <2>1, <2>2 DEF days_to_ymd
<1> QED
  BY <1>1, <1>4, <1>7

\* The reference calendar moves on by a day at a time.
LEMMA NextDay ==
    ASSUME NEW d \in Dates
    PROVE  NextDate(d) \in Dates /\ DayNumber(NextDate(d)) = DayNumber(d) + 1
<1>1. /\ d = [year |-> d.year, month |-> d.month, day |-> d.day]
      /\ d.year \in Nat /\ d.month \in 1..12 /\ d.day \in Nat \ {0} /\ d.year >= 1970
      /\ d.day <= DaysOf(d) /\ DaysOf(d) = md(d.year)[d.month]
  BY SameMonth DEF Dates
<1>2. /\ Past(d.year, d.month) \in Nat /\ md(d.year)[d.month] \in 28..31
      /\ Past(d.year, d.month + 1) = Past(d.year, d.month) + md(d.year)[d.month]
  <2>1. d.year \in Nat /\ d.month \in 1..12
    BY <1>1
  <2> QED
    BY <2>1, PastStep, Zenon
<1>3. /\ Elapsed(d.year) \in Int /\ diy(d.year) \in Int /\ Elapsed(1970) \in Int
      /\ Elapsed(d.year + 1) = Elapsed(d.year) + diy(d.year)
  BY <1>1, ElapsedStep
<1>4. CASE d.day < DaysOf(d)
  <2> DEFINE e == [year |-> d.year, month |-> d.month, day |-> d.day + 1]
  <2>1. NextDate(d) = e
    BY <1>1, <1>4 DEF NextDate
  <2>2. /\ e \in [year : Nat, month : 1..12, day : Nat]
        /\ e.year = d.year /\ e.month = d.month /\ e.day = d.day + 1
    BY <1>1
  <2> HIDE DEF e
  <2>3. DaysOf(e) = DaysOf(d)
    BY <2>2, <1>1, SameMonth
  <2>4. e \in Dates
    BY <2>2, <2>3, <1>1, <1>2, <1>4 DEF Dates
  <2>5. DayNumber(e) = DayNumber(d) + 1
    BY <2>2, <1>1, <1>2, <1>3 DEF DayNumber
  <2> QED
    BY <2>1, <2>4, <2>5
<1>5. CASE ~ (d.day < DaysOf(d)) /\ d.month < 12
  <2> DEFINE e == [year |-> d.year, month |-> d.month + 1, day |-> 1]
  <2>1. NextDate(d) = e
    BY <1>1, <1>5 DEF NextDate
  <2>2. /\ e \in [year : Nat, month : 1..12, day : Nat \ {0}]
        /\ e.year = d.year /\ e.month = d.month + 1 /\ e.day = 1
    BY <1>1, <1>5
  <2> HIDE DEF e
  <2>3. DaysOf(e) = md(e.year)[e.month] /\ md(e.year)[e.month] \in 28..31
    BY <2>2, <1>1, SameMonth, PastStep
  <2>4. e \in Dates
    BY <2>2, <2>3, <1>1 DEF Dates
  <2>5. d.day = md(d.year)[d.month]
    BY <1>1, <1>2, <1>5
  <2>6. DayNumber(e) = DayNumber(d) + 1
    BY <2>2, <2>5, <1>1, <1>2, <1>3 DEF DayNumber
  <2> QED
    BY <2>1, <2>4, <2>6
<1>6. CASE ~ (d.day < DaysOf(d)) /\ ~ (d.month < 12)
  <2> DEFINE e == [year |-> d.year + 1, month |-> 1, day |-> 1]
  <2>1. NextDate(d) = e
    BY <1>1, <1>6 DEF NextDate
  <2>2. /\ e \in [year : Nat, month : 1..12, day : Nat \ {0}]
        /\ e.year = d.year + 1 /\ e.month = 1 /\ e.day = 1
    BY <1>1
  <2> HIDE DEF e
  <2>3. DaysOf(e) = md(e.year)[e.month] /\ md(e.year)[e.month] \in 28..31
    BY <2>2, <1>1, SameMonth, PastStep
  <2>4. e \in Dates
    BY <2>2, <2>3, <1>1 DEF Dates
  <2>5. d.day = md(d.year)[d.month] /\ d.month = 12
    BY <1>1, <1>2, <1>6
  <2>6. Past(d.year, 13) = diy(d.year) /\ Past(e.year, 1) = 0
    BY <2>2, <1>1, PastGrows DEF Past
  <2>7. DayNumber(e) = DayNumber(d) + 1
    BY <2>2, <2>5, <2>6, <1>1, <1>2, <1>3 DEF DayNumber
  <2> QED
    BY <2>1, <2>4, <2>7
<1> QED
  BY <1>4, <1>5, <1>6

\* The day ymd_hms_to_epoch counts for a date.
ReadDay(d) ==
    (d.year - 1970) * 365 + leap_days(d.year) + days_before_month[d.month] + (d.day - 1)
      + IF d.month > 2 /\ is_leap(d.year) THEN 1 ELSE 0

Hour(t) == t \div 3600
Minute(t) == (t % 3600) \div 60
SecondIn(t) == t % 60
Seconds(h, m, s) == h * 3600 + m * 60 + s

\* A second of the day is a number below 86400.
LEMMA SecondBelow == ASSUME NEW t \in SecondsOfDay PROVE t \in Nat /\ t < 86400
BY SMT DEF SecondsOfDay

\* In particular a number.
LEMMA SecondIsNat == ASSUME NEW t \in SecondsOfDay PROVE t \in Nat
BY SecondBelow

\* What hours, minutes and seconds take from a number below 86400.
LEMMA HoursOf ==
    ASSUME NEW t \in Nat, t < 86400
    PROVE  /\ t \div 3600 \in 0..23
           /\ t % 3600 \in Nat /\ t % 3600 < 3600
           /\ t = 3600 * (t \div 3600) + (t % 3600)
<1>1. t \div 3600 \in Nat /\ t \div 3600 < 24
  BY SMT
<1>2. t % 3600 \in Nat /\ t % 3600 < 3600 /\ t = 3600 * (t \div 3600) + (t % 3600)
  BY SMT
<1> DEFINE h == t \div 3600
<1> HIDE DEF h
<1>3. h \in 0..23
  <2>1. h \in Nat /\ h < 24
    BY <1>1 DEF h
  <2> QED
    BY <2>1, SMT
<1> QED
  BY <1>2, <1>3 DEF h

LEMMA MinutesOf ==
    ASSUME NEW n \in Nat, n < 3600
    PROVE  /\ n \div 60 \in 0..59 /\ n % 60 \in 0..59
           /\ n = 60 * (n \div 60) + (n % 60)
<1>1. n \div 60 \in Nat /\ n \div 60 < 60
  BY SMT
<1>2. n % 60 \in Nat /\ n % 60 < 60
  BY SMT
<1>3. n = 60 * (n \div 60) + (n % 60)
  BY SMT
<1> DEFINE m == n \div 60
           u == n % 60
<1>4. m \in Nat /\ m < 60 /\ u \in Nat /\ u < 60
  BY <1>1, <1>2
<1> HIDE DEF m, u
<1>5. m \in 0..59 /\ u \in 0..59
  BY <1>4, SMT
<1> QED
  BY <1>3, <1>5 DEF m, u

\* Whole minutes do not change the seconds.
LEMMA SecondsOf ==
    ASSUME NEW h \in Nat, NEW m \in Nat, NEW u \in Nat, u < 60
    PROVE  (h * 3600 + m * 60 + u) % 60 = u
<1>1. \A k \in Nat : (60 * k + u) % 60 = u
  BY SMT
<1>2. h * 3600 + m * 60 + u = 60 * (60 * h + m) + u /\ 60 * h + m \in Nat
  BY SMT
<1> QED
  BY <1>1, <1>2, SMT

\* Hours, minutes and seconds add up to the second of the day.
LEMMA SecondsSplit ==
    ASSUME NEW t \in SecondsOfDay
    PROVE  /\ Hour(t) \in 0..23 /\ Minute(t) \in 0..59 /\ SecondIn(t) \in 0..59
           /\ Seconds(Hour(t), Minute(t), SecondIn(t)) = t
<1> DEFINE h == t \div 3600
           n == t % 3600
           m == n \div 60
           u == n % 60
<1>1. t \in Nat /\ t < 86400
  BY SecondBelow
<1>2. h \in 0..23 /\ n \in Nat /\ n < 3600 /\ t = 3600 * h + n
  BY <1>1, HoursOf
<1>3. Hour(t) = h /\ Minute(t) = m
  BY DEF Hour, Minute
<1> HIDE DEF h, n
<1>4. m \in 0..59 /\ u \in 0..59 /\ n = 60 * m + u
  BY <1>2, MinutesOf
<1> HIDE DEF m, u
<1>5. h \in Nat /\ m \in Nat /\ u \in Nat /\ u < 60
  BY <1>2, <1>4, SMT
<1>6. t = h * 3600 + m * 60 + u
  BY <1>1, <1>2, <1>4, <1>5, SMT
<1>7. SecondIn(t) = u
  BY <1>5, <1>6, SecondsOf DEF SecondIn
<1>8. Seconds(Hour(t), Minute(t), SecondIn(t)) = t
  BY <1>3, <1>6, <1>7 DEF Seconds
<1> QED
  BY <1>2, <1>3, <1>4, <1>7, <1>8

\* A second of the day carries nothing into the next day.
LEMMA NoCarry == ASSUME NEW t \in SecondsOfDay PROVE t \div 86400 = 0 /\ t % 86400 = t
<1>1. t \in Nat /\ t < 86400
  BY SecondBelow
<1> QED
  BY <1>1, SMT

\* The stamp of a date and a time, and of a second of the day.
Stamp(d, h, m, s) ==
    [year |-> d.year, month |-> d.month, day |-> d.day, hour |-> h, min |-> m, sec |-> s]

StampOf(d, t) == Stamp(d, Hour(t), Minute(t), SecondIn(t))

\* What ymd_hms_to_epoch makes of a date and a count of seconds.
Reading(d, secs) ==
    [day |-> ReadDay(d) + (secs \div 86400), second |-> secs % 86400]

\* A stamp in range is read as the day counted for its date and the seconds of its
\* time, with a carry for the leap second.
LEMMA ReadTime ==
    ASSUME NEW d \in Dates, NEW h \in 0..23, NEW m \in 0..59, NEW u \in 0..60
    PROVE  /\ ReadDay(d) \in Int
           /\ ymd_hms_to_epoch(Stamp(d, h, m, u)) = Reading(d, Seconds(h, m, u))
<1> DEFINE s == Stamp(d, h, m, u)
<1>1. /\ d.year \in Nat /\ d.month \in 1..12 /\ d.day \in Nat \ {0} /\ d.year >= 1970
      /\ d.day <= md(d.year)[d.month]
  BY SameMonth DEF Dates
<1>2. d.day <= 31
  <2>1. d.month \in {1, 2, 3, 4, 5, 6, 7, 8, 9, 10, 11, 12}
    BY <1>1
  <2> QED
    BY <1>1, <2>1 DEF md
<1>3. days_before_month[d.month] \in Nat
  BY <1>1 DEF days_before_month
<1>4. ReadDay(d) \in Int
  BY <1>1, <1>3 DEF ReadDay, leap_days
<1>5. /\ s.year = d.year /\ s.month = d.month /\ s.day = d.day
      /\ s.hour = h /\ s.min = m /\ s.sec = u
  BY DEF Stamp
<1> HIDE DEF s
<1>6. InRange(s)
  BY <1>1, <1>2, <1>5, SMT DEF InRange
<1>7. ymd_hms_to_epoch(s) = Reading(d, Seconds(h, m, u))
  BY <1>5, <1>6, SMT DEF ymd_hms_to_epoch, ReadDay, leap_correction, Seconds, Reading
<1> QED
  BY <1>4, <1>7, SMT DEF s

\* A stamp is read as its second of the day of its date.
LEMMA ReadStamp ==
    ASSUME NEW d \in Dates, NEW t \in SecondsOfDay
    PROVE  ymd_hms_to_epoch(StampOf(d, t)) = [day |-> ReadDay(d), second |-> t]
<1>1. /\ Hour(t) \in 0..23 /\ Minute(t) \in 0..59 /\ SecondIn(t) \in 0..60
      /\ Seconds(Hour(t), Minute(t), SecondIn(t)) = t
  BY SecondsSplit, SMT
<1>2. /\ ReadDay(d) \in Int
      /\ ymd_hms_to_epoch(StampOf(d, t)) = Reading(d, t)
  BY <1>1, ReadTime, ZenonT(60) DEF StampOf
<1>3. t \div 86400 = 0 /\ t % 86400 = t
  BY NoCarry, SMT
<1>4. ReadDay(d) + 0 = ReadDay(d)
  BY <1>2
<1> QED
  BY <1>2, <1>3, <1>4, SMT DEF Reading

\* The leap second after the last second is the next midnight.
LEMMA ReadLeapSecond ==
    ASSUME NEW d \in Dates
    PROVE  ymd_hms_to_epoch([StampOf(d, 86399) EXCEPT !.sec = 60])
             = [day |-> ReadDay(d) + 1, second |-> 0]
<1>1. Hour(86399) = 23 /\ Minute(86399) = 59 /\ Seconds(23, 59, 60) = 86400
  BY SMT DEF Hour, Minute, Seconds
<1>2. [StampOf(d, 86399) EXCEPT !.sec = 60] = Stamp(d, 23, 59, 60)
  BY <1>1, SMT DEF StampOf, Stamp
<1>3. Reading(d, 86400) = [day |-> ReadDay(d) + 1, second |-> 0]
  BY SMT DEF Reading
<1>4. 23 \in 0..23 /\ 59 \in 0..59 /\ 60 \in 0..60
  OBVIOUS
<1>5. ymd_hms_to_epoch(Stamp(d, 23, 59, 60)) = Reading(d, Seconds(23, 59, 60))
  BY <1>4, ReadTime, ZenonT(60)
<1> QED
  BY <1>1, <1>2, <1>3, <1>5, SMT

\* The approximate count is exact through the year 2100.
LEMMA ReadDayExact == \A d \in Dates : d.year <= 2100 => ReadDay(d) = DayNumber(d)
<1> SUFFICES ASSUME NEW d \in Dates, d.year <= 2100 PROVE ReadDay(d) = DayNumber(d)
  OBVIOUS
<1>1. /\ d.year \in Nat /\ d.month \in 1..12 /\ d.day \in Nat \ {0} /\ d.year >= 1970
      /\ days_before_month[d.month] \in Nat
  BY DEF Dates, days_before_month
<1>2. Elapsed(d.year) - Elapsed(1970) = (d.year - 1970) * 365 + leap_days(d.year)
  <2>1. \A y \in 1970..2100 : (y - 1) \div 100 - (y - 1) \div 400 = 15
    BY SMTT(30)
  <2>2. \A y \in 1970..2100 : (y - 1) \div 4 = 492 + (y - 1969) \div 4
    BY SMTT(30)
  <2>3. d.year \in 1970..2100 /\ 1970 \in 1970..2100 /\ (1970 - 1969) \div 4 = 0
    BY <1>1, SMT
  <2>4. /\ (d.year - 1) \div 100 - (d.year - 1) \div 400 = 15
        /\ (1970 - 1) \div 100 - (1970 - 1) \div 400 = 15
    BY <2>1, <2>3, SMT
  <2>5. /\ (d.year - 1) \div 4 = 492 + (d.year - 1969) \div 4
        /\ (1970 - 1) \div 4 = 492
    BY <2>2, <2>3, SMT
  <2> QED
    BY <1>1, <2>4, <2>5, SMT DEF Elapsed, leap_days
<1>3. Past(d.year, d.month)
        = days_before_month[d.month] + IF d.month > 2 /\ is_leap(d.year) THEN 1 ELSE 0
  BY <1>1 DEF Past
<1> QED
  BY <1>1, <1>2, <1>3, ElapsedStep DEF ReadDay, DayNumber, leap_days

\* It grows from day to day for ever, also where it is not exact: the extra leap
\* day of a year like 2100 only leaves a gap.
LEMMA ReadDayGrows == \A d \in Dates : ReadDay(d) < ReadDay(NextDate(d))
<1> SUFFICES ASSUME NEW d \in Dates PROVE ReadDay(d) < ReadDay(NextDate(d))
  OBVIOUS
<1>1. /\ d = [year |-> d.year, month |-> d.month, day |-> d.day]
      /\ d.year \in Nat /\ d.month \in 1..12 /\ d.day \in Nat \ {0} /\ d.year >= 1970
      /\ d.day <= md(d.year)[d.month]  /\ DaysOf(d) = md(d.year)[d.month]
  BY SameMonth DEF Dates
<1>2. d.month \in {1, 2, 3, 4, 5, 6, 7, 8, 9, 10, 11, 12}
  BY <1>1
<1>3. days_before_month[d.month] \in Nat /\ leap_days(d.year) \in Int
  BY <1>1 DEF days_before_month, leap_days
<1>4. CASE d.day < DaysOf(d)
  <2>1. NextDate(d) = [year |-> d.year, month |-> d.month, day |-> d.day + 1]
    BY <1>1, <1>4 DEF NextDate
  <2> QED
    BY <1>1, <1>3, <2>1 DEF ReadDay
<1>5. CASE ~ (d.day < DaysOf(d)) /\ d.month < 12
  <2>1. NextDate(d) = [year |-> d.year, month |-> d.month + 1, day |-> 1]
    BY <1>1, <1>5 DEF NextDate
  <2>2. d.month \in {1, 2, 3, 4, 5, 6, 7, 8, 9, 10, 11}
    BY <1>2, <1>5
  <2>3. days_before_month[d.month] + md(d.year)[d.month]
          + (IF d.month > 2 /\ is_leap(d.year) THEN 1 ELSE 0)
        = days_before_month[d.month + 1]
          + IF d.month + 1 > 2 /\ is_leap(d.year) THEN 1 ELSE 0
    BY <2>2 DEF days_before_month, md
  <2>4. days_before_month[d.month + 1] \in Nat /\ md(d.year)[d.month] \in Nat
    BY <2>2 DEF days_before_month, md
  <2> QED
    BY <1>1, <1>3, <2>1, <2>3, <2>4 DEF ReadDay
<1>6. CASE ~ (d.day < DaysOf(d)) /\ ~ (d.month < 12)
  <2>1. NextDate(d) = [year |-> d.year + 1, month |-> 1, day |-> 1]
    BY <1>1, <1>6 DEF NextDate
  <2>2. d.month = 12 /\ d.day <= 31
    BY <1>1, <1>6 DEF md
  <2>3. leap_days(d.year + 1) >= leap_days(d.year) + IF is_leap(d.year) THEN 1 ELSE 0
    BY <1>1 DEF leap_days, is_leap
  <2>4. leap_days(d.year + 1) \in Int
    BY <1>1 DEF leap_days
  <2> QED
    BY <1>1, <1>3, <2>1, <2>2, <2>3, <2>4 DEF ReadDay, days_before_month
<1> QED
  BY <1>4, <1>5, <1>6

-----------------------------------------------------------------------------
(* The walk.                                                               *)

\* The clock shows a time of the day that the calendar says, and the stamp is
\* that of this day and time.
IInv ==
    /\ second \in SecondsOfDay
    /\ date \in Dates /\ day = DayNumber(date)
    /\ stamp = StampOf(date, second)

\* The stamp of a day and a time is what epoch_to_iso makes of the two.
LEMMA Stamped ==
    ASSUME NEW d \in Dates, NEW t \in SecondsOfDay
    PROVE  epoch_to_iso(DayNumber(d), t) = StampOf(d, t)
<1>1. days_to_ymd(DayNumber(d)) = d
  BY DatesBack
<1> QED
  BY <1>1, SMT DEF epoch_to_iso, StampOf, Stamp, Hour, Minute, SecondIn

\* The walk begins on the first of January 1970.
LEMMA InitIInv == Init => IInv
<1> SUFFICES ASSUME Init PROVE IInv
  OBVIOUS
<1>1. date \in Dates /\ DayNumber(date) = 0
  <2>1. /\ date \in [year : Nat, month : 1..12, day : Nat \ {0}]
        /\ date.year = 1970 /\ date.month = 1 /\ date.day = 1
    BY DEF Init
  <2> QED
    BY <2>1, ElapsedStep, PastGrows DEF Dates, DaysOf, DayNumber
<1>2. day = 0 /\ second = 0 /\ stamp = epoch_to_iso(0, 0) /\ second \in SecondsOfDay
  BY SMT DEF Init, SecondsOfDay
<1>3. stamp = StampOf(date, second)
  BY <1>1, <1>2, Stamped
<1> QED
  BY <1>1, <1>2, <1>3 DEF IInv

\* The clock is next looked at later on the same day, if it is on this day at all.
LEMMA NextTick ==
    ASSUME second \in SecondsOfDay, Later # {}
    PROVE  LET next == CHOOSE t \in Later : \A u \in Later : t <= u
           IN  next \in SecondsOfDay /\ second < next
<1> DEFINE next == CHOOSE t \in Later : \A u \in Later : t <= u
<1>0. \A t \in Ticks : t \in SecondsOfDay
  BY CalendarConstants
<1>1. \A t \in Later : t \in SecondsOfDay /\ t > second
  BY <1>0, Zenon DEF Later
<1>2. Later \in SUBSET Nat
  BY <1>1, SecondIsNat, Zenon
<1>3. next \in Later
  BY <1>2, LeastNatural, Zenon
<1> HIDE DEF next
<1>4. next \in SecondsOfDay /\ next > second
  BY <1>1, <1>3, Zenon
<1>5. next \in Nat /\ second \in Nat
  BY <1>4, SecondIsNat, Zenon
<1>6. second < next
  BY <1>4, <1>5, SMT
<1> QED
  BY <1>4, <1>6, Zenon DEF next

\* A tick shows a later second of the same day or the midnight that follows.
LEMMA StepIInv ==
    ASSUME IInv, Next
    PROVE  /\ IInv'
           /\ \/ date' = date /\ second < second'
              \/ date' = NextDate(date)
<1> USE DEF IInv
<1>1. stamp' = epoch_to_iso(day', second')
  BY DEF Next, Tick
<1>2. CASE Later # {}
  <2>1. day' = day /\ date' = date
        /\ second' = CHOOSE t \in Later : \A u \in Later : t <= u
    BY <1>2 DEF Next, Tick
  <2>5. second' \in SecondsOfDay /\ second < second'
    BY <1>2, <2>1, NextTick, Zenon
  <2>6. stamp' = StampOf(date', second')
    BY <1>1, <2>1, <2>5, Stamped
  <2> QED
    BY <2>1, <2>5, <2>6
<1>3. CASE Later = {}
  <2>1. day' = day + 1 /\ second' = 0 /\ date' = NextDate(date)
    BY <1>3 DEF Next, Tick
  <2>2. date' \in Dates /\ day' = DayNumber(date') /\ second' \in SecondsOfDay
    <3>1. 0 \in SecondsOfDay
      BY SMT DEF SecondsOfDay
    <3> QED
      BY <2>1, <3>1, NextDay
  <2>3. stamp' = StampOf(date', second')
    BY <1>1, <2>2, Stamped
  <2> QED
    BY <2>1, <2>2, <2>3
<1> QED
  BY <1>2, <1>3

\* The walk keeps the calendar and the stamp with the clock.
THEOREM Invariant == Spec => []IInv
<1>1. IInv /\ UNCHANGED vars => IInv'
  BY DEF IInv, vars
<1> QED
  BY InitIInv, StepIInv, <1>1, PTL DEF Spec

\* The date in a stamp is that of the calendar, on every day there will be:
\* days_to_ymd is right for ever.
THEOREM Exact == Spec => []DatesExact
<1>1. IInv => DatesExact
  <2> SUFFICES ASSUME IInv PROVE DatesExact
    OBVIOUS
  <2>1. date = [year |-> date.year, month |-> date.month, day |-> date.day]
    BY DEF IInv, Dates
  <2>2. stamp.year = date.year /\ stamp.month = date.month /\ stamp.day = date.day
    BY DEF IInv, StampOf, Stamp
  <2> QED
    BY <2>1, <2>2 DEF DatesExact
<1> QED
  BY Invariant, <1>1, PTL

\* A stamp made through the year 2100, at any second, is read back by
\* ymd_hms_to_epoch as the instant it was made at, and the leap second after the
\* last as the midnight that follows.
THEOREM ReadBack == Spec => []StampsReadBack
<1>1. IInv => StampsReadBack
  <2> SUFFICES ASSUME IInv, date.year <= 2100
               PROVE  /\ ymd_hms_to_epoch(stamp) = [day |-> day, second |-> second]
                      /\ second = 86399 => ymd_hms_to_epoch([stamp EXCEPT !.sec = 60])
                                             = [day |-> day + 1, second |-> 0]
    BY SMT DEF StampsReadBack
  <2>1. date \in Dates /\ second \in SecondsOfDay /\ stamp = StampOf(date, second)
    BY DEF IInv
  <2>2. ReadDay(date) = day
    BY <2>1, ReadDayExact, SMT DEF IInv
  <2>3. ymd_hms_to_epoch(stamp) = [day |-> day, second |-> second]
    BY <2>1, <2>2, ReadStamp, SMT
  <2>4. second = 86399 => ymd_hms_to_epoch([stamp EXCEPT !.sec = 60])
                            = [day |-> day + 1, second |-> 0]
    BY <2>1, <2>2, ReadLeapSecond, SMT
  <2> QED
    BY <2>3, <2>4, SMT
<1> QED
  BY Invariant, <1>1, PTL

\* However wrong the approximate count becomes, a later stamp is read as later.
THEOREM ReadInOrder == Spec => LaterReadsLater
<1> DEFINE Reads == Before(ymd_hms_to_epoch(stamp), ymd_hms_to_epoch(stamp'))
<1>1. ASSUME IInv, Next PROVE Reads
  <2>1. /\ ymd_hms_to_epoch(stamp) = [day |-> ReadDay(date), second |-> second]
        /\ date \in Dates /\ second \in SecondsOfDay
    BY <1>1, ReadStamp DEF IInv
  <2>2. /\ ymd_hms_to_epoch(stamp') = [day |-> ReadDay(date'), second |-> second']
        /\ \/ date' = date /\ second < second'
           \/ date' = NextDate(date)
    BY <1>1, StepIInv, ReadStamp DEF IInv
  <2>3. ReadDay(date) < ReadDay(NextDate(date))
    BY <2>1, ReadDayGrows
  <2> QED
    BY <2>1, <2>2, <2>3 DEF Before
<1>2. IInv /\ [Next]_vars => [Reads]_vars
  BY <1>1
<1> QED
  BY Invariant, <1>2, PTL DEF Spec, LaterReadsLater
=============================================================================
