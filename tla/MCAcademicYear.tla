--------------------------- MODULE MCAcademicYear ---------------------------
(* Small instances of AcademicYear for TLC: the sheets of 2025/26 and of   *)
(* 2026/27, in the autumn of 2026 and over New Year.                       *)
EXTENDS AcademicYear, TLC

CONSTANTS old, new
TwoYears == (old :> 2025) @@ (new :> 2026)
September == Date(2026, 9)
November == Date(2026, 11)
December == Date(2026, 12)
January == Date(2027, 1)
=============================================================================
