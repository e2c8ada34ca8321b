--------------------------- MODULE SchoolCalendar ---------------------------
(***************************************************************************)
(* The arithmetic of school years in src/src/history_importer.py.  A       *)
(* school year is named by the calendar year it starts in; the columns of  *)
(* a grade sheet carry a day and a month and no year.  A date is a month   *)
(* here, counted from January of year 0: the code never looks at the day   *)
(* but to compare it.                                                      *)
(***************************************************************************)
EXTENDS Integers

Months == 1..12
Spring == 1..6            \* _SPRING_MONTHS
StartMonth == 9           \* ACADEMIC_YEAR_START_MONTH
LinkNextYearFrom == 8     \* _LINK_NEXT_YEAR_FROM_MONTH
Unknown == 0              \* NULL

Date(y, m) == 12 * y + m - 1
Year(t) == t \div 12
Month(t) == (t % 12) + 1

\* current_academic_year
CurrentYear(t) == IF Month(t) >= StartMonth THEN Year(t) ELSE Year(t) - 1

\* year_for_month, as the date of column m in a sheet of school year y
ColumnDate(m, y) == Date(IF m >= StartMonth THEN y ELSE y + 1, m)

\* infer_sheet_academic_year: from the months that have grades.
InferYear(months, t) ==
    IF months \cap Spring = {} /\ Month(t) >= LinkNextYearFrom THEN Year(t) ELSE Year(t) - 1

\* is_sheet_stale
IsStale(y, t) == y # Unknown /\ y < CurrentYear(t)
=============================================================================
