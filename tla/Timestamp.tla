----------------------------- MODULE Timestamp -----------------------------
(***************************************************************************)
(* iso_timestamp's calendar: the date it computes from a number of days    *)
(* since 1970, checked against a calendar that counts day by day.          *)
(***************************************************************************)
EXTENDS Integers

CONSTANTS LastDay       \* how many days are counted

VARIABLES
    days,       \* days since 1970-01-01
    date        \* what the calendar counts

dateVars == <<days, date>>

Date == [year : Nat, month : 1 .. 12, day : 1 .. 31]

-----------------------------------------------------------------------------
(* The calendar *)

LeapYear(y) == (y % 4 = 0 /\ y % 100 # 0) \/ y % 400 = 0

MonthLength(y, m) ==
    IF m = 2 THEN (IF LeapYear(y) THEN 29 ELSE 28) ELSE IF m \in {4, 6, 9, 11} THEN 30 ELSE 31

Tomorrow(d) ==
    IF d.day < MonthLength(d.year, d.month) THEN [d EXCEPT !.day = @ + 1]
    ELSE IF d.month < 12 THEN [year |-> d.year, month |-> d.month + 1, day |-> 1]
    ELSE [year |-> d.year + 1, month |-> 1, day |-> 1]

-----------------------------------------------------------------------------
(* iso_timestamp: years begin on March 1, eras of 400 of them in year 0    *)

Era(n) == (n + 719468) \div 146097
DayOfEra(n) == (n + 719468) % 146097

(* Fault: the last days of an era are not taken back. *)
YearOfEraShort(doe) == (doe - doe \div 1460 + doe \div 36524) \div 365

YearOfEra(doe) == (doe - doe \div 1460 + doe \div 36524 - doe \div 146096) \div 365

DayOfYear(doe) ==
    LET yoe == YearOfEra(doe) IN doe - (365 * yoe + yoe \div 4 - yoe \div 100)

CivilFromDays(n) ==
    LET doy == DayOfYear(DayOfEra(n))
        mp == (5 * doy + 2) \div 153
        m == IF mp < 10 THEN mp + 3 ELSE mp - 9
        y == YearOfEra(DayOfEra(n)) + Era(n) * 400
    IN  [year |-> IF m <= 2 THEN y + 1 ELSE y, month |-> m, day |-> doy - (153 * mp + 2) \div 5 + 1]

-----------------------------------------------------------------------------

DateInit == days = 0 /\ date = [year |-> 1970, month |-> 1, day |-> 1]

NextDay ==
    /\ days < LastDay
    /\ days' = days + 1
    /\ date' = Tomorrow(date)

DateNext == NextDay

DateSpec == DateInit /\ [][DateNext]_dateVars

-----------------------------------------------------------------------------
(* Properties *)

(* "2026-01-31"-shaped lines are ordered and filtered by their date        *)
(* (logctl.rs:163-166): the computed date is that of the calendar, over    *)
(* leap days, century years and the change of era.                         *)
DateIsCivil == CivilFromDays(days) = date
=============================================================================
