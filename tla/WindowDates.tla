---------------------------- MODULE WindowDates -----------------------------
(***************************************************************************)
(* The core library's UTC calendar: from the seconds of the epoch to the   *)
(* name of a window, checked against a calendar that is counted month by   *)
(* month.  A time is a day number and a second of that day.                *)
(***************************************************************************)
EXTENDS Integers, Sequences

CONSTANTS
    WindowWidth,    \* window_seconds
    LastYear        \* bound: the last year of the calendar

\* Names hold minutes.  The tuner's startup refuses a width that is not a whole
\* number of them, the collector's only refuses 0.
ASSUME WidthAssumption == WindowWidth \in Nat /\ WindowWidth >= 60

VARIABLES
    year, month,    \* the month the calendar counted last
    days            \* days from 1970-01-01 to its end

calendar == <<year, month, days>>

SecondsPerDay == 86400

(* unix_seconds % width, for a second counted from a day's midnight; TLC's
   integers hold the remainder of the product and not the product. *)
IntoWindow(day, second) ==
    ((day % WindowWidth) * (SecondsPerDay % WindowWidth) + second) % WindowWidth

(* aligned_window_start: a window may start on an earlier day than it ends. *)
AlignedWindowStart(day, second) == second - IntoWindow(day, second)

\* Mutant: the last day of the 400 years opens another year.
CivilFromDaysEraEnd(n) ==
    LET z == n + 719468
        era == z \div 146097
        doe == z - era * 146097
        yoe == (doe - doe \div 1460 + doe \div 36524) \div 365
        doy == doe - (365 * yoe + yoe \div 4 - yoe \div 100)
        mp == (5 * doy + 2) \div 153
        m == mp + (IF mp < 10 THEN 3 ELSE -9)
    IN  <<yoe + era * 400 + (IF m <= 2 THEN 1 ELSE 0), m,
          doy - (153 * mp + 2) \div 5 + 1>>

CivilFromDays(n) ==
    LET z == n + 719468
        era == z \div 146097
        doe == z - era * 146097
        yoe == (doe - doe \div 1460 + doe \div 36524 - doe \div 146096)
                 \div 365
        doy == doe - (365 * yoe + yoe \div 4 - yoe \div 100)
        mp == (5 * doy + 2) \div 153
        m == mp + (IF mp < 10 THEN 3 ELSE -9)
    IN  <<yoe + era * 400 + (IF m <= 2 THEN 1 ELSE 0), m,
          doy - (153 * mp + 2) \div 5 + 1>>

(* format_window_timestamp: fields of a fixed width, so that names compare as
   their fields do. *)
FormatWindowTimestamp(day, second) ==
    CivilFromDays(day) \o <<second \div 3600, (second % 3600) \div 60>>

-----------------------------------------------------------------------------
IsLeap(y) == y % 4 = 0 /\ (y % 100 # 0 \/ y % 400 = 0)
DaysIn(y, m) ==
    IF m = 2 THEN (IF IsLeap(y) THEN 29 ELSE 28)
    ELSE IF m \in {4, 6, 9, 11} THEN 30 ELSE 31

CalendarInit == year = 1970 /\ month = 0 /\ days = 0

NextMonth ==
    /\ year < LastYear
    /\ month' = (month % 12) + 1
    /\ year' = IF month = 12 THEN year + 1 ELSE year
    /\ days' = days + DaysIn(year', month')

CalendarSpec == CalendarInit /\ [][NextMonth]_calendar

-----------------------------------------------------------------------------
(* The date in a window's name is the date of its day, in leap years and at
   the turn of centuries too. *)
DatesMatchCalendar ==
    month # 0 =>
        LET n == DaysIn(year, month)
        IN  \A d \in 1 .. n :
                CivilFromDays(days - n + d - 1) = <<year, month, d>>

Before(s, t) ==
    \E i \in DOMAIN s : s[i] < t[i] /\ \A j \in 1 .. i - 1 : s[j] = t[j]

(* The name of the window that the t-th second from the start of the month's
   last day is in. *)
NameAt(t) ==
    LET start == AlignedWindowStart(days - 1, t)
    IN  FormatWindowTimestamp(days - 1 + start \div SecondsPerDay,
                              start % SecondsPerDay)

(* Where the first window from that day on starts. *)
FirstStart == (-IntoWindow(days - 1, 0)) % WindowWidth

(* Names of windows sort as the windows do, through the last day of the month
   into the next one: no two windows share the directory of their segments,
   and the first and the last second of one window do. *)
WindowsNamedApart ==
    month # 0 => \A i \in 0 .. SecondsPerDay \div WindowWidth :
        LET start == FirstStart + i * WindowWidth
        IN  /\ NameAt(start + WindowWidth - 1) = NameAt(start)
            /\ Before(NameAt(start), NameAt(start + WindowWidth))

(* Windows are named by the calendar and apart from one another. *)
WindowNamesExact == DatesMatchCalendar /\ WindowsNamedApart
=============================================================================
