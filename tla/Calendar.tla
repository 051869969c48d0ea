------------------------------ MODULE Calendar ------------------------------
(***************************************************************************)
(* The date arithmetic of src/datetime.rs.  Every request is stamped with  *)
(* epoch_to_iso, by an exact Gregorian rule, and its age is computed by    *)
(* ymd_hms_to_epoch, by an approximate one; the freshness gate is right    *)
(* only where the two agree.  A clock walks through the days, beside a     *)
(* reference calendar that knows only how one date follows another.        *)
(*                                                                         *)
(* An instant is a day since 1970-01-01 and a second of that day, which    *)
(* keeps every number below TLC's 2^31.  A stamp is the record of the six  *)
(* numbers in the text.  The u64 overflows, which checked_* turns into     *)
(* None, lie beyond the year 10^11 and are left out.                       *)
(***************************************************************************)
EXTENDS Integers

CONSTANTS
    LastDay,        \* where the walk ends
    Ticks           \* seconds of a day at which the clock is looked at

SecondsOfDay == {t \in Nat : t < 86400}

ASSUME CalendarConstants ==
    /\ LastDay \in Nat
    /\ Ticks \subseteq SecondsOfDay /\ 0 \in Ticks

VARIABLES
    day, second,    \* the clock
    date,           \* the reference calendar's [year, month, day]
    stamp           \* what now_iso8601 returns

vars == <<day, second, date, stamp>>

----------------------------------------------------------------------------
(* src/datetime.rs                                                         *)

None == [day |-> -1, second |-> 0]

\* (for mutation) the Julian rule
is_leap_julian(year) == year % 4 = 0

is_leap(year) == year % 4 = 0 /\ (year % 100 # 0 \/ year % 400 = 0)

\* The first loop of days_to_ymd: whole years are taken off the days.
diy(year) == IF is_leap(year) THEN 366 ELSE 365

YearLoop == [year : Nat, days : Nat]

YearFrom[s \in YearLoop] ==
    IF s.days < diy(s.year) THEN s
    ELSE YearFrom[[year |-> s.year + 1, days |-> s.days - diy(s.year)]]

\* The second one: whole months.  It would run off the table at month 13.
md(year) == <<31, IF is_leap(year) THEN 29 ELSE 28, 31, 30, 31, 30,
              31, 31, 30, 31, 30, 31>>

MonthLoop == [year : Nat, month : 1..13, days : Nat]

MonthFrom[s \in MonthLoop] ==
    IF s.month = 13 \/ s.days < md(s.year)[s.month] THEN s
    ELSE MonthFrom[[year |-> s.year, month |-> s.month + 1,
                    days |-> s.days - md(s.year)[s.month]]]

days_to_ymd(days) ==
    LET y == YearFrom[[year |-> 1970, days |-> days]]
        m == MonthFrom[[year |-> y.year, month |-> 1, days |-> y.days]]
    IN  [year |-> y.year, month |-> IF m.month = 13 THEN 0 ELSE m.month,
         day |-> m.days + 1]

epoch_to_iso(d, tod) ==
    LET ymd == days_to_ymd(d)
    IN  [year |-> ymd.year, month |-> ymd.month, day |-> ymd.day,
         hour |-> tod \div 3600, min |-> (tod % 3600) \div 60, sec |-> tod % 60]

\* The range checks: sec = 60 passes, and so does the 31st of every month.
InRange(s) ==
    /\ s.year >= 1970 /\ s.month \in 1..12 /\ s.day \in 1..31
    /\ s.hour <= 23 /\ s.min <= 59 /\ s.sec <= 60

days_before_month == <<0, 31, 59, 90, 120, 151, 181, 212, 243, 273, 304, 334>>

\* (for mutation) the leap days counted from 1970; no day for this year's one
leap_days_from_1970(year) == (year - 1970) \div 4
leap_correction_none(s) == 0

leap_days(year) == (year - 1969) \div 4
leap_correction(s) == IF s.month > 2 /\ is_leap(s.year) THEN 1 ELSE 0

\* The leap second carries into the next day, as the multiplications do.
ymd_hms_to_epoch(s) ==
    IF ~InRange(s) THEN None
    ELSE LET days == (s.year - 1970) * 365 + leap_days(s.year)
                     + days_before_month[s.month] + (s.day - 1) + leap_correction(s)
             secs == s.hour * 3600 + s.min * 60 + s.sec
         IN  [day |-> days + (secs \div 86400), second |-> secs % 86400]

----------------------------------------------------------------------------
(* The reference calendar and the clock.                                   *)

LeapYear(year) == IF year % 100 = 0 THEN year % 400 = 0 ELSE year % 4 = 0

DaysOf(d) ==
    CASE d.month \in {4, 6, 9, 11} -> 30
      [] d.month = 2 -> IF LeapYear(d.year) THEN 29 ELSE 28
      [] OTHER -> 31

NextDate(d) ==
    IF d.day < DaysOf(d) THEN [d EXCEPT !.day = @ + 1]
    ELSE IF d.month < 12 THEN [year |-> d.year, month |-> d.month + 1, day |-> 1]
    ELSE [year |-> d.year + 1, month |-> 1, day |-> 1]

Init ==
    /\ day = 0 /\ second = 0
    /\ date = [year |-> 1970, month |-> 1, day |-> 1]
    /\ stamp = epoch_to_iso(0, 0)

Later == {t \in Ticks : t > second}

Tick ==
    /\ IF Later # {}
       THEN /\ second' = CHOOSE t \in Later : \A u \in Later : t <= u
            /\ UNCHANGED <<day, date>>
       ELSE /\ day < LastDay
            /\ day' = day + 1 /\ second' = 0
            /\ date' = NextDate(date)
    /\ stamp' = epoch_to_iso(day', second')

Next == Tick

Spec == Init /\ [][Next]_vars

----------------------------------------------------------------------------
\* The exact path names the date of the reference calendar, on every day.
DatesExact == [k \in {"year", "month", "day"} |-> stamp[k]] = date

\* A stamp is read back as the instant it was made at, through the end of the
\* year 2100.  The approximate leap count is first wrong on 1 January 2101, not
\* in 2100 itself.  A second later than the last one is the next midnight.
StampsReadBack ==
    date.year <= 2100 =>
        /\ ymd_hms_to_epoch(stamp) = [day |-> day, second |-> second]
        /\ second = 86399 =>
             ymd_hms_to_epoch([stamp EXCEPT !.sec = 60])
                = [day |-> day + 1, second |-> 0]

\* A later stamp is always read as later, also across the years where the two
\* rules disagree: no request looks older or fresher than one stamped after it.
Before(a, b) == a.day < b.day \/ (a.day = b.day /\ a.second < b.second)

LaterReadsLater ==
    [][Before(ymd_hms_to_epoch(stamp), ymd_hms_to_epoch(stamp'))]_vars
=============================================================================
