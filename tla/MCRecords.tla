----------------------------- MODULE MCRecords -----------------------------
(* Small instances, for TLC, of what becomes of the school's records beyond *)
(* the first message: the academic year of a sheet, the quarter grades, and *)
(* the dashboard with its conditional request and its computations, and the *)
(* two tables a grade is kept in.  They share no state, so each behaviour   *)
(* explores one of them and leaves the others at rest; of the dashboard it  *)
(* lets the grades change, or the quarter grades, or what else is answered. *)
EXTENDS MCAcademicYear, QuarterGrades, Dashboard, Summary, GradeArchive

CONSTANTS autumn, winter, p1, f1
TwoDates == (autumn :> 0) @@ (winter :> 1)

VARIABLE part
allVars == <<part, vars, quarterVars, dashboardVars, summaryVars, archiveVars>>

RecordsInit ==
    /\ part \in {"year", "quarters", "grades", "stored", "rest", "summary", "archive"}
    /\ Init /\ QuarterInit /\ DashboardInit /\ SummaryInit /\ ArchiveInit
    /\ part # "year" => link = old /\ year = SheetYear[link]
    /\ part # "grades" => Stored(grades) = {}
    /\ part # "rest" => profile = p1 /\ face = f1

RecordsNext ==
    \/ /\ part = "year" /\ Next
       /\ UNCHANGED <<part, quarterVars, dashboardVars, summaryVars, archiveVars>>
    \/ /\ part = "quarters" /\ QuarterNext
       /\ UNCHANGED <<part, vars, dashboardVars, summaryVars, archiveVars>>
    \/ /\ part = "grades" /\ DashboardNext /\ UNCHANGED <<quarters, storing, profile, face>>
       /\ UNCHANGED <<part, vars, quarterVars, summaryVars, archiveVars>>
    \/ /\ part = "stored" /\ DashboardNext /\ UNCHANGED <<grades, shelved, profile, face>>
       /\ UNCHANGED <<part, vars, quarterVars, summaryVars, archiveVars>>
    \/ /\ part = "rest" /\ DashboardNext /\ UNCHANGED <<grades, shelved, quarters, storing>>
       /\ UNCHANGED <<part, vars, quarterVars, summaryVars, archiveVars>>
    \/ /\ part = "summary" /\ SummaryNext
       /\ UNCHANGED <<part, vars, quarterVars, dashboardVars, archiveVars>>
    \/ /\ part = "archive" /\ ArchiveNext
       /\ UNCHANGED <<part, vars, quarterVars, dashboardVars, summaryVars>>

RecordsSpec ==
    /\ RecordsInit /\ [][RecordsNext]_allVars
    /\ WF_vars(part = "year" /\ DayPasses) /\ WF_vars(part = "year" /\ Monitor)
    /\ \A j \in Jobs : WF_vars(part = "year" /\ Importer(j))

\* Every variable of AcademicYear, QuarterGrades, Dashboard, Summary
\* and GradeArchive has its type.
RecordsTypeOK == TypeOK /\ QuarterTypeOK /\ DashboardTypeOK /\ SummaryTypeOK /\ ArchiveTypeOK
=============================================================================
