---------------------------- MODULE AcademicYear ----------------------------
(***************************************************************************)
(* Whose year is this sheet?  One child: the link to the school's sheet,   *)
(* students.academic_year, the monitor that pauses a sheet of last year    *)
(* and looks at it once a day (monitor_engine.py), the importer that       *)
(* infers the year and dates the grades (history_importer.py), and the     *)
(* parent who changes the link (handlers/family.py, db/families.py).       *)
(*                                                                         *)
(* One day a month passes, which is all the calendar arithmetic tells      *)
(* apart.  A grade is known by the date it was really given on: two grades *)
(* of different dates have different values.  The monitor's confirmation   *)
(* and outbox are GradeMonitor's.                                          *)
(***************************************************************************)
EXTENDS SchoolCalendar, FiniteSets

CONSTANTS
    Sheets,
    SheetYear,    \* [Sheets -> the school year the sheet is really of]
    FirstDay, LastDay,
    MaxRelinks,   \* bound: changes of the link
    MaxFaults     \* bound: sheets that cannot be read, statements that fail

ASSUME CalendarAssumption ==
    /\ SheetYear \in [Sheets -> Nat \ {0}]
    /\ FirstDay \in Nat /\ LastDay \in Nat /\ FirstDay >= 24 /\ FirstDay <= LastDay
    /\ MaxRelinks \in Nat /\ MaxFaults \in Nat

VARIABLES
    now,
    graded,       \* [Sheets -> months in which the sheet has grades]
    link,         \* students.spreadsheet_id
    year,         \* students.academic_year
    recheck,      \* settings: stale_recheck, the day of the last one
    nudge,        \* settings: relink_nudge
    rows,         \* grade_history: [date, of], of being the grade
    cycle,        \* the monitor: the student as it was read
    job,          \* imports: 0 is the monitor's hourly one, the rest follow a change of link
    relinks, faults,
    \* history
    polled,       \* a cycle has ended today
    told,         \* grades announced: [date, of, known]
    nudged,       \* sheets a family was asked to replace
    overtaken     \* the link changed while a cycle or an import was using it

vars == <<now, graded, link, year, recheck, nudge, rows, cycle, job, relinks, faults,
          polled, told, nudged, overtaken>>
marks == <<recheck, nudge, nudged>>

Idle == [at |-> "idle"]
Done == [at |-> "done"]    \* a cycle has ended, and the hourly import may follow
Jobs == 0..MaxRelinks
Days == FirstDay..LastDay
YearsSeen == {Unknown} \cup {SheetYear[s] : s \in Sheets}
                       \cup {Year(t) : t \in Days} \cup {Year(t) - 1 : t \in Days}

TypeOK ==
    /\ now \in Days
    /\ graded \in [Sheets -> SUBSET Months]
    /\ link \in Sheets /\ year \in YearsSeen
    /\ recheck \in Days \cup {0} /\ nudge \in Days \cup {0}
    /\ rows \subseteq [date : 0..now, of : 0..now]
    /\ cycle \in {Idle, Done} \cup
          [at : {"fetch"}, link : Sheets, year : YearsSeen, day : Days] \cup
          [at : {"process"}, link : Sheets, year : YearsSeen, day : Days, data : SUBSET Months]
    /\ job \in [Jobs -> {Idle} \cup
          [at : {"read"}, link : Sheets] \cup
          [at : {"set"}, link : Sheets, year : YearsSeen, data : SUBSET Months]]
    /\ relinks \in 0..MaxRelinks /\ faults \in 0..MaxFaults
    /\ polled \in BOOLEAN /\ overtaken \in BOOLEAN
    /\ told \subseteq [date : Days, of : 0..LastDay, known : BOOLEAN]
    /\ nudged \subseteq Sheets

\* A sheet of a year that is under way or over has the grades given so far.
GivenBefore(s, t) == {m \in Months \ {7, 8} : ColumnDate(m, SheetYear[s]) < t}

Init ==
    /\ now = FirstDay
    /\ graded = [s \in Sheets |-> GivenBefore(s, FirstDay)]
    /\ link \in Sheets /\ year \in {Unknown, SheetYear[link]}
    /\ recheck = 0 /\ nudge = 0 /\ rows = {}
    /\ cycle = Idle /\ job = [j \in Jobs |-> Idle]
    /\ relinks = 0 /\ faults = 0
    /\ polled = FALSE /\ told = {} /\ nudged = {} /\ overtaken = FALSE

Fault == faults < MaxFaults /\ faults' = faults + 1
-----------------------------------------------------------------------------
(* The world. *)

\* A cycle takes minutes: no day passes without one.
DayPasses ==
    /\ now < LastDay /\ polled
    /\ now' = now + 1 /\ polled' = FALSE
    /\ UNCHANGED <<graded, link, year, marks, rows, cycle, job, relinks, faults, told, overtaken>>

\* The teacher gives a grade in the sheet of this school year.
TeacherGrades(s) ==
    /\ SheetYear[s] = CurrentYear(now) /\ Month(now) \notin graded[s]
    /\ graded' = [graded EXCEPT ![s] = @ \cup {Month(now)}]
    /\ UNCHANGED <<now, link, year, marks, rows, cycle, job, relinks, faults, polled, told,
                   overtaken>>

\* A cycle or an import is using the link.
InUse == cycle.at \in {"fetch", "process"} \/ \E j \in Jobs : job[j] # Idle

\* Mutant: the year of the old link stays.
RelinkKeepsYear(s) ==
    /\ relinks < MaxRelinks /\ s # link
    /\ relinks' = relinks + 1
    /\ link' = s /\ year' = year
    /\ job' = [job EXCEPT ![relinks + 1] = [at |-> "read", link |-> s]]
    /\ overtaken' = (overtaken \/ InUse)
    /\ UNCHANGED <<now, graded, marks, rows, cycle, faults, polled, told>>

\* callback_relink_confirm: update_student_spreadsheet, and an import begins
\* in a thread of its own.
Relink(s) ==
    /\ relinks < MaxRelinks /\ s # link
    /\ relinks' = relinks + 1
    /\ link' = s /\ year' = Unknown
    /\ job' = [job EXCEPT ![relinks + 1] = [at |-> "read", link |-> s]]
    /\ overtaken' = (overtaken \/ InUse)
    /\ UNCHANGED <<now, graded, marks, rows, cycle, faults, polled, told>>
-----------------------------------------------------------------------------
(* The monitor. *)

\* _handle_stale_sheet: a reminder to the family, not twice within the
\* interval and not in the quiet hours; it may fail.  The yearly alert to the
\* administrator is left out.
HandleStale(s, day) ==
    \/ nudge < day /\ nudge' = day /\ nudged' = nudged \cup {s}
    \/ UNCHANGED <<nudge, nudged>>

EndCycle == cycle' = Done /\ polled' = TRUE

\* Mutant: a paused sheet is never looked at again.
CycleStartsNoRecheck ==
    /\ cycle \in {Idle, Done} /\ job[0] = Idle
    /\ IF IsStale(year, now)
       THEN HandleStale(link, now) /\ EndCycle
       ELSE /\ cycle' = [at |-> "fetch", link |-> link, year |-> year, day |-> now]
            /\ UNCHANGED <<nudge, nudged, polled>>
    /\ UNCHANGED <<now, graded, link, year, recheck, rows, job, relinks, faults, told, overtaken>>

\* get_active_spreadsheets and _passes_stale_gate, which claims the day's look
\* at a paused sheet before anything is read.
CycleStarts ==
    /\ cycle \in {Idle, Done} /\ job[0] = Idle
    /\ IF IsStale(year, now) /\ recheck = now
       THEN HandleStale(link, now) /\ EndCycle /\ UNCHANGED recheck
       ELSE /\ cycle' = [at |-> "fetch", link |-> link, year |-> year, day |-> now]
            /\ recheck' = IF IsStale(year, now) THEN now ELSE recheck
            /\ UNCHANGED <<nudge, nudged, polled>>
    /\ UNCHANGED <<now, graded, link, year, rows, job, relinks, faults, told, overtaken>>

Fetch ==
    /\ cycle.at = "fetch"
    /\ cycle' = [at |-> "process", link |-> cycle.link, year |-> cycle.year,
                 day |-> cycle.day, data |-> graded[cycle.link]]
    /\ UNCHANGED <<now, graded, link, year, marks, rows, job, relinks, faults, polled, told,
                   overtaken>>

FetchFails ==
    /\ cycle.at = "fetch" /\ Fault /\ EndCycle
    /\ UNCHANGED <<now, graded, link, year, marks, rows, job, relinks, told, overtaken>>

\* _reconcile_academic_year: the sheet is right and the record is not, unless
\* the year is not known or the sheet is empty.
Corrected(c) ==
    IF c.year = Unknown \/ c.data = {} THEN c.year ELSE InferYear(c.data, c.day)

\* Today's column, the echo guard for an unknown year, and a grade the history
\* does not hold yet.
Announce(c, y) ==
    LET column == ColumnDate(Month(c.day), IF y = Unknown THEN CurrentYear(c.day) ELSE y)
        of == ColumnDate(Month(c.day), SheetYear[c.link])
        echo == y = Unknown /\ [date |-> c.day - 12, of |-> of] \in rows
        row == [date |-> c.day, of |-> of]
    IN IF Month(c.day) \in c.data /\ column = c.day /\ ~echo /\ row \notin rows
       THEN /\ rows' = {r \in rows : r.date # c.day} \cup {row}
            /\ told' = told \cup {[date |-> c.day, of |-> of, known |-> y # Unknown]}
       ELSE UNCHANGED <<rows, told>>

\* Mutant: the record is trusted.
ProcessTrusting ==
    /\ cycle.at = "process"
    /\ Announce(cycle, cycle.year)
    /\ EndCycle
    /\ UNCHANGED <<now, graded, link, year, marks, job, relinks, faults, overtaken>>

\* What a cycle does with a sheet it holds to be of year y.
ActOn(y) ==
    /\ IF IsStale(y, cycle.day)
       THEN /\ recheck' = cycle.day
            /\ HandleStale(cycle.link, cycle.day)
            /\ UNCHANGED <<rows, told>>
       ELSE Announce(cycle, y) /\ UNCHANGED marks
    /\ EndCycle
    /\ UNCHANGED <<now, graded, link, job, relinks, overtaken>>

Process ==
    /\ cycle.at = "process"
    /\ year' = IF Corrected(cycle) # cycle.year THEN Corrected(cycle) ELSE year
    /\ ActOn(Corrected(cycle))
    /\ UNCHANGED faults

\* The correction is not saved: the cycle goes on with the year on record.
ProcessUnsaved ==
    /\ cycle.at = "process" /\ Corrected(cycle) # cycle.year /\ Fault
    /\ UNCHANGED year
    /\ ActOn(cycle.year)
-----------------------------------------------------------------------------
(* The importer, import_history_for_student. *)

Stage(j, what) == job' = [job EXCEPT ![j] = what]

\* _maybe_sync_all_grades, in the monitor's thread after a cycle.
SyncStarts ==
    /\ cycle = Done /\ cycle' = Idle /\ ~IsStale(year, now)
    /\ Stage(0, [at |-> "read", link |-> link])
    /\ UNCHANGED <<now, graded, link, year, marks, rows, relinks, faults, polled, told,
                   overtaken>>

\* Mutant: a column of the days to come is imported too.
ImportAhead(s, y, months) ==
    rows' = rows \cup {[date |-> ColumnDate(m, y), of |-> ColumnDate(m, SheetYear[s])] :
                         m \in months}

\* Every column before today is a row of the history.
Import(s, y, months) ==
    rows' = rows \cup {[date |-> ColumnDate(m, y), of |-> ColumnDate(m, SheetYear[s])] :
                         m \in {n \in months : ColumnDate(n, y) < now}}

\* The year on record is used with the link the job holds.
ImportKnown(j) ==
    /\ job[j].at = "read" /\ year # Unknown
    /\ Import(job[j].link, year, graded[job[j].link])
    /\ Stage(j, Idle)
    /\ UNCHANGED <<now, graded, link, year, marks, cycle, relinks, faults, polled, told, overtaken>>

\* No year on record: one is inferred from the sheet.
ReadYear(j) ==
    /\ job[j].at = "read" /\ year = Unknown
    /\ LET s == job[j].link
       IN Stage(j, [at |-> "set", link |-> s, year |-> InferYear(graded[s], now),
                    data |-> graded[s]])
    /\ UNCHANGED <<now, graded, link, year, marks, rows, cycle, relinks, faults, polled, told,
                   overtaken>>

\* set_student_academic_year, then the sheet that was read for it.
SetYear(j) ==
    /\ job[j].at = "set"
    /\ year' = job[j].year
    /\ Import(job[j].link, job[j].year, job[j].data)
    /\ Stage(j, Idle)
    /\ UNCHANGED <<now, graded, link, marks, cycle, relinks, faults, polled, told, overtaken>>

ImportFails(j) ==
    /\ job[j] # Idle /\ Fault
    /\ Stage(j, Idle)
    /\ UNCHANGED <<now, graded, link, year, marks, rows, cycle, relinks, polled, told, overtaken>>

Monitor == CycleStarts \/ Fetch \/ Process
Importer(j) == ReadYear(j) \/ SetYear(j) \/ ImportKnown(j)

Next ==
    \/ DayPasses \/ Monitor \/ FetchFails \/ ProcessUnsaved \/ SyncStarts
    \/ \E s \in Sheets : TeacherGrades(s) \/ Relink(s)
    \/ \E j \in Jobs : Importer(j) \/ ImportFails(j)

Spec == Init /\ [][Next]_vars

\* Threads run, and days pass.
FairSpec ==
    Spec /\ WF_vars(DayPasses) /\ WF_vars(Monitor) /\ \A j \in Jobs : WF_vars(Importer(j))
-----------------------------------------------------------------------------
(* Properties *)

\* The new calendar year has begun: a sheet of last year reads like one of
\* this year, because its spring is taken for the coming one.
AfterNewYear == Month(now) < StartMonth

\* An old sheet is told from a current one (monitor_engine 292-386, 506-531,
\* 739-745, 798-810), whatever is linked and until New Year.  A grade announced as
\* today's, once the year is known, was given today: it takes both a link changed
\* under a reader and a failed statement or read to announce an old one.  And a
\* family is asked to replace only a sheet that is over, unless the link changed
\* under a cycle or an import; a cycle that began before midnight judges January
\* by December.
LastYearStaysQuiet ==
    /\ \A a \in told :
          a.known => (a.of = a.date \/ Month(a.date) < StartMonth \/ (overtaken /\ faults > 0))
    /\ \A s \in nudged : SheetYear[s] < CurrentYear(now) \/ overtaken \/ AfterNewYear

\* monitor_engine 739-741: grades of last year's sheet are never announced.
LastYearNeverAnnounced == \A a \in told : a.known => a.of = a.date

\* history_importer 419-477: the importer files a grade under the date it was
\* given on, unless the link changed under a cycle or an import that was under
\* way, or New Year is past.
HistoryDatesAreTrue ==
    \A r \in rows : \/ r.of = r.date \/ overtaken \/ AfterNewYear
                    \/ \E a \in told : a.date = r.date /\ a.of = r.of

\* monitor_engine 266-334: a wrong year on record does not stay, whoever wrote
\* it, as long as the sheet has a grade to judge by, another day of autumn is
\* to come and reading the sheet does not fail for ever.
WrongYear == year # Unknown /\ year # SheetYear[link] /\ graded[link] # {}
WrongYearHeals == (WrongYear /\ now < LastDay /\ faults = MaxFaults) ~> ~WrongYear
=============================================================================
