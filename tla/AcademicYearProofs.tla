------------------------- MODULE AcademicYearProofs -------------------------
(***************************************************************************)
(* What the rules of src/src/history_importer.py for the year of a sheet   *)
(* guarantee, for every year, month and set of grades; and, with them,     *)
(* that the monitor and the importer tell last year's sheet from this      *)
(* year's, for any sheets, any changes of the link and any failures, and   *)
(* that nothing is dated ahead.                                            *)
(***************************************************************************)
EXTENDS AcademicYear, TLAPS

\* The months in which a sheet of school year y may have grades on date t.
GivenBy(y, t) == {m \in Months : ColumnDate(m, y) <= t}

LEMMA DateParts ==
    ASSUME NEW y \in Nat, NEW m \in Months
    PROVE  /\ Date(y, m) \in Nat
           /\ Year(Date(y, m)) = y
           /\ Month(Date(y, m)) = m
BY SMTT(30) DEF Date, Year, Month, Months

LEMMA PartsOfDate ==
    ASSUME NEW t \in Nat
    PROVE  /\ Year(t) \in Nat /\ Month(t) \in Months
           /\ t = Date(Year(t), Month(t))
BY SMTT(30) DEF Date, Year, Month, Months

\* year_for_month and current_academic_year (history_importer 59-69) agree: a
\* column of a sheet of school year y is dated inside that school year.
THEOREM ColumnInItsYear ==
    ASSUME NEW y \in Nat, NEW m \in Months
    PROVE  /\ ColumnDate(m, y) \in Nat
           /\ CurrentYear(ColumnDate(m, y)) = y
<1> DEFINE z == IF m >= StartMonth THEN y ELSE y + 1
<1>1. z \in Nat
  BY DEF StartMonth
<1>2. ColumnDate(m, y) = Date(z, m)
  BY DEF ColumnDate
<1>3. Date(z, m) \in Nat /\ Year(Date(z, m)) = z /\ Month(Date(z, m)) = m
  BY <1>1, DateParts
<1> QED
  BY <1>2, <1>3 DEF CurrentYear, StartMonth, Months

\* The echo of the incident of 2 September (monitor_engine 798-810): no column
\* of a sheet that is stale reads as today's.
THEOREM StaleSheetHasNoToday ==
    ASSUME NEW t \in Nat, NEW y \in Nat, IsStale(y, t), NEW m \in Months
    PROVE  ColumnDate(m, y) # t
<1>1. y < CurrentYear(t)
  BY DEF IsStale
<1>2. CurrentYear(ColumnDate(m, y)) = y
  BY ColumnInItsYear
<1> QED
  BY <1>1, <1>2

\* The sheet of this school year is recognised (history_importer 72-89) on
\* every date but in August, whatever grades it has so far.
THEOREM CurrentSheetRecognised ==
    ASSUME NEW t \in Nat, Month(t) # 8,
           NEW months \in SUBSET GivenBy(CurrentYear(t), t)
    PROVE  InferYear(months, t) = CurrentYear(t)
<1>1. Year(t) \in Nat /\ Month(t) \in Months /\ t = Date(Year(t), Month(t))
  BY PartsOfDate
<1>2. CASE Month(t) >= StartMonth
  <2>1. CurrentYear(t) = Year(t)
    BY <1>2 DEF CurrentYear
  <2>2. ASSUME NEW m \in months, m \in Spring PROVE FALSE
    <3>1. m \in Months /\ ColumnDate(m, Year(t)) <= t
      BY <2>1 DEF GivenBy
    <3>2. ColumnDate(m, Year(t)) = Date(Year(t) + 1, m)
      BY <2>2 DEF ColumnDate, Spring, StartMonth
    <3> QED
      BY <1>1, <3>1, <3>2 DEF Date, Months
  <2>3. months \cap Spring = {}
    BY <2>2
  <2> QED
    BY <1>1, <1>2, <2>1, <2>3 DEF InferYear, StartMonth, LinkNextYearFrom, Months
<1>3. CASE ~(Month(t) >= StartMonth)
  BY <1>1, <1>3 DEF InferYear, CurrentYear, StartMonth, LinkNextYearFrom, Months
<1> QED
  BY <1>2, <1>3

\* From September to December a sheet with a grade of spring is taken for last
\* year's, so the daily recheck (monitor_engine 292-334) keeps it paused.
THEOREM LastYearRecognisedInAutumn ==
    ASSUME NEW t \in Nat, Month(t) >= StartMonth, Year(t) > 1,
           NEW months \in SUBSET Months, months \cap Spring # {}
    PROVE  IsStale(InferYear(months, t), t)
<1>1. Year(t) \in Nat
  BY PartsOfDate
<1> QED
  BY <1>1 DEF IsStale, InferYear, CurrentYear, Unknown

\* From January to August every sheet with a grade of spring, of whatever
\* year, is taken for this school year's: a paused sheet is polled again.
THEOREM SpringIsTakenForCurrent ==
    ASSUME NEW t \in Nat, Month(t) < StartMonth,
           NEW months \in SUBSET Months, months \cap Spring # {}
    PROVE  InferYear(months, t) = CurrentYear(t) /\ ~IsStale(InferYear(months, t), t)
<1>1. Year(t) \in Nat /\ Month(t) \in Months
  BY PartsOfDate
<1> QED
  BY <1>1 DEF IsStale, InferYear, CurrentYear, StartMonth, Months
-----------------------------------------------------------------------------
(* The window: the days of the model lie in one school year, from a day of *)
(* its autumn on.  In summer the code dates a new, empty sheet differently *)
(* from the school year that is ending, and the properties do not hold.    *)

Y == CurrentYear(FirstDay)
Autumn(t) == Month(t) >= StartMonth

OneSchoolYear == Autumn(FirstDay) /\ CurrentYear(LastDay) = Y

LEMMA YearBounds ==
    ASSUME NEW t \in Nat
    PROVE  /\ CurrentYear(t) \in Int
           /\ 12 * CurrentYear(t) + 8 <= t /\ t <= 12 * CurrentYear(t) + 19
           /\ Autumn(t) <=> t <= 12 * CurrentYear(t) + 11
<1>1. Year(t) \in Nat /\ Month(t) \in 1..12 /\ t = 12 * Year(t) + Month(t) - 1
  BY PartsOfDate DEF Date, Months
<1>2. CASE Month(t) >= 9
  <2>1. CurrentYear(t) = Year(t)
    BY <1>2 DEF CurrentYear, StartMonth
  <2> QED
    BY <1>1, <1>2, <2>1 DEF Autumn, StartMonth
<1>3. CASE ~(Month(t) >= 9)
  <2>1. CurrentYear(t) = Year(t) - 1
    BY <1>3 DEF CurrentYear, StartMonth
  <2> QED
    BY <1>1, <1>3, <2>1 DEF Autumn, StartMonth
<1> QED
  BY <1>2, <1>3

\* Every day of the window is of the one school year, its autumn first.
LEMMA Window ==
    ASSUME OneSchoolYear
    PROVE  /\ Y \in Nat /\ Y >= 2
           /\ \A t \in Days : t \in Nat /\ Month(t) \in Months /\ CurrentYear(t) = Y
           /\ \A t, u \in Days : t <= u /\ Autumn(u) => Autumn(t)
<1>1. Y \in Int /\ 12 * Y + 8 <= FirstDay /\ FirstDay <= 12 * Y + 11
  BY YearBounds, CalendarAssumption DEF OneSchoolYear, Y
<1>2. LastDay <= 12 * Y + 19
  BY YearBounds, CalendarAssumption DEF OneSchoolYear
<1>3. Y \in Nat /\ Y >= 2
  BY <1>1, CalendarAssumption
<1>4. ASSUME NEW t \in Days
      PROVE  /\ t \in Nat /\ Month(t) \in Months /\ CurrentYear(t) = Y
             /\ Autumn(t) <=> t <= 12 * Y + 11
  <2>1. t \in Nat /\ 12 * Y + 8 <= t /\ t <= 12 * Y + 19
    BY <1>1, <1>2, CalendarAssumption DEF Days
  <2>2. /\ CurrentYear(t) \in Int
        /\ 12 * CurrentYear(t) + 8 <= t /\ t <= 12 * CurrentYear(t) + 19
        /\ Autumn(t) <=> t <= 12 * CurrentYear(t) + 11
    BY <2>1, YearBounds
  <2>3. CurrentYear(t) = Y
    BY <1>1, <2>1, <2>2
  <2> QED
    BY <2>1, <2>2, <2>3, PartsOfDate
<1>5. ASSUME NEW t \in Days, NEW u \in Days, t <= u, Autumn(u) PROVE Autumn(t)
  BY <1>1, <1>4, <1>5
<1> QED
  BY <1>3, <1>4, <1>5

\* What is inferred in the window's autumn.
LEMMA InferredInAutumn ==
    ASSUME OneSchoolYear, NEW t \in Days, Autumn(t), NEW months
    PROVE  InferYear(months, t) = IF months \cap Spring = {} THEN Y ELSE Y - 1
<1>1. CurrentYear(t) = Y
  BY Window
<1>2. Month(t) \in Months
  BY Window
<1>3. Year(t) = Y /\ Month(t) >= 8
  BY <1>1, <1>2 DEF CurrentYear, Autumn, StartMonth, Months
<1> QED
  BY <1>3 DEF InferYear, LinkNextYearFrom

LEMMA InferredIsNat ==
    ASSUME OneSchoolYear, NEW t \in Days, NEW months
    PROVE  InferYear(months, t) \in Nat \ {Unknown}
<1>1. t \in Nat /\ CurrentYear(t) = Y /\ Y \in Nat /\ Y >= 2
  BY Window
<1>2. Year(t) \in Nat /\ Year(t) >= Y
  BY <1>1, PartsOfDate DEF CurrentYear
<1> QED
  BY <1>1, <1>2 DEF InferYear, Unknown

\* A column that reads as today's is of a sheet of this school year, and the
\* other way round.
LEMMA ColumnOfToday ==
    ASSUME OneSchoolYear, NEW t \in Days, NEW y \in Nat
    PROVE  ColumnDate(Month(t), y) = t <=> y = Y
<1>1. t \in Nat /\ Month(t) \in Months /\ CurrentYear(t) = Y /\ Y \in Nat
  BY Window
<1>2. ASSUME ColumnDate(Month(t), y) = t PROVE y = Y
  BY <1>1, <1>2, ColumnInItsYear
<1>3. ColumnDate(Month(t), Y) = t
  <2>1. t = Date(Year(t), Month(t)) /\ Year(t) \in Nat
    BY <1>1, PartsOfDate
  <2>2. Year(t) = IF Month(t) >= StartMonth THEN Y ELSE Y + 1
    BY <1>1, <2>1 DEF CurrentYear
  <2> QED
    BY <2>1, <2>2 DEF ColumnDate
<1> QED
  BY <1>2, <1>3
-----------------------------------------------------------------------------
(* The inductive invariant. *)

\* Grades a sheet may hold: last year's has its spring, this year's has none
\* of it in autumn, and next year's is empty.
Plausible(months, s) ==
    /\ SheetYear[s] < Y => months \cap Spring # {}
    /\ SheetYear[s] = Y /\ Autumn(now) => months \cap Spring = {}
    /\ SheetYear[s] > Y => months = {}

\* What may be on record for sheet s: nothing, or a year that tells whether
\* the sheet is over.
Fits(y, s) ==
    y # Unknown => /\ y < Y <=> SheetYear[s] < Y
                   /\ y \in {Y - 1, Y} \/ y = SheetYear[s]

InCycle == cycle.at \in {"fetch", "process"}

Fetching == [at : {"fetch"}, link : Sheets, year : Nat, day : Days]
Processing == [at : {"process"}, link : Sheets, year : Nat, day : Days, data : SUBSET Months]
Beginning == [at : {"read"}, link : Sheets]
Setting == [at : {"set"}, link : Sheets, year : Nat \ {Unknown}, data : SUBSET Months]

Types ==
    /\ now \in Days
    /\ graded \in [Sheets -> SUBSET Months]
    /\ link \in Sheets
    /\ year \in Nat
    /\ cycle \in {Idle, Done} \cup Fetching \cup Processing
    /\ job \in [Jobs -> {Idle} \cup Beginning \cup Setting]
    /\ relinks \in Nat
    /\ faults \in Nat

\* Grades in the sheets, and in the hands of a cycle or an import.
GradesInv ==
    /\ \A s \in Sheets : Plausible(graded[s], s)
    /\ InCycle => cycle.day <= now
    /\ cycle.at = "process" => Plausible(cycle.data, cycle.link)
    /\ \A j \in Jobs : job[j].at = "set" => Plausible(job[j].data, job[j].link)

\* Until a link changes under a reader, all of them use the same one.
InUseInv ==
    ~overtaken => /\ InCycle => cycle.link = link
                  /\ \A j \in Jobs : job[j] # Idle => job[j].link = link

\* The year on record, and in the hands of a cycle or an import.
YearInv ==
    /\ Autumn(now) /\ ~overtaken => Fits(year, link)
    /\ InCycle /\ Autumn(cycle.day) /\ ~overtaken => Fits(cycle.year, cycle.link)
    /\ \A j \in Jobs :
          job[j].at = "set" /\ Autumn(now) => Fits(job[j].year, job[j].link)

Told ==
    \A a \in told :
       a.known => (a.of = a.date \/ Month(a.date) < StartMonth \/ (overtaken /\ faults > 0))
Nudged == \A s \in nudged : SheetYear[s] < CurrentYear(now) \/ overtaken \/ AfterNewYear

IInv == Types /\ GradesInv /\ InUseInv /\ YearInv /\ Told /\ Nudged

LEMMA InitIInv == ASSUME OneSchoolYear PROVE Init => IInv
<1> SUFFICES ASSUME Init PROVE IInv
  OBVIOUS
<1>1. /\ Y \in Nat /\ Y >= 2 /\ FirstDay \in Nat /\ FirstDay \in Days
      /\ 12 * Y + 8 <= FirstDay /\ FirstDay <= 12 * Y + 11
  <2>1. FirstDay \in Nat /\ LastDay \in Nat
    BY CalendarAssumption
  <2>2. /\ Y \in Int /\ 12 * Y + 8 <= FirstDay /\ FirstDay <= 12 * Y + 11
        /\ FirstDay <= LastDay
    BY <2>1, YearBounds, CalendarAssumption DEF OneSchoolYear, Y
  <2> QED
    BY <2>1, <2>2, Window DEF Days
<1>2. now = FirstDay /\ link \in Sheets /\ year \in {Unknown, SheetYear[link]}
  BY DEF Init
<1>3. SheetYear \in [Sheets -> Nat \ {0}]
  BY CalendarAssumption
<1>4. Types
  BY <1>1, <1>2, <1>3 DEF Init, Types, GivenBefore, Unknown
<1>5. ASSUME NEW s \in Sheets PROVE Plausible(GivenBefore(s, FirstDay), s)
  <2>1. SheetYear[s] \in Nat
    BY <1>3
  <2>2. ASSUME SheetYear[s] < Y PROVE 1 \in GivenBefore(s, FirstDay) \cap Spring
    <3>1. ColumnDate(1, SheetYear[s]) = 12 * (SheetYear[s] + 1)
      BY <2>1 DEF ColumnDate, Date, StartMonth
    <3>2. ColumnDate(1, SheetYear[s]) < FirstDay
      BY <1>1, <2>1, <2>2, <3>1
    <3> QED
      BY <3>2 DEF GivenBefore, Months, Spring
  <2>3. ASSUME SheetYear[s] = Y, NEW m \in GivenBefore(s, FirstDay), m \in Spring
        PROVE  FALSE
    <3>1. ColumnDate(m, Y) = 12 * (Y + 1) + m - 1
      BY <2>3, <1>1 DEF ColumnDate, Date, StartMonth, Spring
    <3>2. ColumnDate(m, Y) < FirstDay
      BY <2>3 DEF GivenBefore
    <3> QED
      BY <1>1, <2>3, <3>1, <3>2 DEF Spring
  <2>4. ASSUME SheetYear[s] > Y, NEW m \in GivenBefore(s, FirstDay) PROVE FALSE
    <3>1. m \in Months /\ ColumnDate(m, SheetYear[s]) < FirstDay
      BY <2>4 DEF GivenBefore
    <3>2. /\ ColumnDate(m, SheetYear[s]) \in Int
          /\ ColumnDate(m, SheetYear[s]) >= 12 * SheetYear[s] + 8
      BY <2>1, <3>1 DEF ColumnDate, Date, StartMonth, Months
    <3> QED
      BY <1>1, <2>1, <2>4, <3>1, <3>2
  <2> QED
    BY <2>2, <2>3, <2>4 DEF Plausible
<1>6. GradesInv
  BY <1>5 DEF Init, GradesInv, InCycle, Idle
<1>7. InUseInv
  BY DEF Init, InUseInv, InCycle, Idle
<1>8. YearInv
  <2>1. Fits(year, link)
    BY <1>1, <1>2, <1>3 DEF Fits
  <2> QED
    BY <2>1 DEF Init, YearInv, InCycle, Idle
<1>9. Told /\ Nudged
  BY DEF Init, Told, Nudged
<1> QED
  BY <1>4, <1>6, <1>7, <1>8, <1>9 DEF IInv

LEMMA Forms ==
    ASSUME Types
    PROVE  /\ cycle.at = "fetch" => cycle \in Fetching
           /\ cycle.at = "process" => cycle \in Processing
           /\ \A j \in Jobs : job[j].at = "read" => job[j] \in Beginning
           /\ \A j \in Jobs : job[j].at = "set" => job[j] \in Setting
           /\ \A j \in Jobs : job[j] # Idle => job[j].at \in {"read", "set"}
<1>1. cycle \in {Idle, Done} \cup Fetching \cup Processing
  BY DEF Types
<1>2. \A j \in Jobs : job[j] \in {Idle} \cup Beginning \cup Setting
  BY DEF Types
<1> QED
  BY <1>1, <1>2 DEF Idle, Done, Fetching, Processing, Beginning, Setting

LEMMA TypesStep == ASSUME OneSchoolYear, Types, [Next]_vars PROVE Types'
<1> USE DEF Types
<1>1. CASE DayPasses
  BY <1>1, CalendarAssumption DEF DayPasses, marks, Days
<1>2. CASE CycleStarts
  <2>1. cycle' \in {Done} \cup Fetching
    BY <1>2 DEF CycleStarts, EndCycle, Fetching
  <2> QED
    BY <1>2, <2>1 DEF CycleStarts
<1>3. CASE Fetch
  <2>1. cycle \in Fetching
    BY <1>3, Forms DEF Fetch
  <2>2. cycle' \in Processing
    BY <1>3, <2>1 DEF Fetch, Fetching, Processing
  <2> QED
    BY <1>3, <2>2 DEF Fetch
<1>4. CASE FetchFails
  BY <1>4 DEF FetchFails, EndCycle, Fault
<1>5. CASE Process
  <2>1. cycle \in Processing
    BY <1>5, Forms DEF Process
  <2>2. cycle.year \in Nat /\ cycle.day \in Days
    BY <2>1 DEF Processing
  <2>3. Corrected(cycle) \in Nat
    BY <2>2, InferredIsNat DEF Corrected
  <2> QED
    BY <1>5, <2>3 DEF Process, ActOn, EndCycle
<1>6. CASE ProcessUnsaved
  BY <1>6 DEF ProcessUnsaved, ActOn, EndCycle, Fault
<1>7. CASE SyncStarts
  BY <1>7 DEF SyncStarts, Stage, Beginning
<1>8. ASSUME NEW s \in Sheets, TeacherGrades(s) PROVE Types'
  <2>1. Month(now) \in Months
    BY Window
  <2> QED
    BY <1>8, <2>1 DEF TeacherGrades
<1>9. ASSUME NEW s \in Sheets, Relink(s) PROVE Types'
  <2>1. [at |-> "read", link |-> s] \in Beginning
    BY DEF Beginning
  <2>2. job' \in [Jobs -> {Idle} \cup Beginning \cup Setting]
    BY <1>9, <2>1 DEF Relink
  <2> QED
    BY <1>9, <2>2 DEF Relink, Unknown
<1>10. ASSUME NEW j \in Jobs, ReadYear(j) PROVE Types'
  <2>1. job[j].link \in Sheets
    BY <1>10, Forms DEF ReadYear, Beginning
  <2>2. InferYear(graded[job[j].link], now) \in Nat \ {Unknown}
    BY InferredIsNat
  <2>3. job' \in [Jobs -> {Idle} \cup Beginning \cup Setting]
    BY <1>10, <2>1, <2>2 DEF ReadYear, Stage, Setting
  <2> QED
    BY <1>10, <2>3 DEF ReadYear
<1>11. ASSUME NEW j \in Jobs, SetYear(j) PROVE Types'
  <2>1. job[j].year \in Nat
    BY <1>11, Forms DEF SetYear, Setting
  <2> QED
    BY <1>11, <2>1 DEF SetYear, Stage
<1>12. ASSUME NEW j \in Jobs, ImportKnown(j) PROVE Types'
  BY <1>12 DEF ImportKnown, Stage
<1>13. ASSUME NEW j \in Jobs, ImportFails(j) PROVE Types'
  BY <1>13 DEF ImportFails, Stage, Fault
<1>14. CASE UNCHANGED vars
  BY <1>14 DEF vars
<1> QED
  BY <1>1, <1>2, <1>3, <1>4, <1>5, <1>6, <1>7, <1>8, <1>9, <1>10, <1>11, <1>12, <1>13, <1>14
     DEF Next, Monitor, Importer

\* No day of spring or summer is followed by one of autumn.
LEMMA AutumnEnds ==
    ASSUME OneSchoolYear, Types, [Next]_vars
    PROVE  /\ now <= now' /\ now' \in Days
           /\ Autumn(now') => Autumn(now)
<1>1. now \in Days /\ now' \in Days
  BY TypesStep DEF Types
<1>2. now' \in {now, now + 1}
  BY DEF Next, vars, DayPasses, Monitor, CycleStarts, Fetch, Process, FetchFails, ProcessUnsaved,
         ActOn, SyncStarts, TeacherGrades, Relink, Importer, ReadYear, SetYear, ImportKnown,
         ImportFails
<1>3. now <= now'
  BY <1>1, <1>2, Window
<1> QED
  BY <1>1, <1>3, Window

\* What a step may do to the cycle, and to an import.
LEMMA CycleMoves ==
    ASSUME [Next]_vars
    PROVE  cycle' \in {cycle, Idle, Done} \/ CycleStarts \/ Fetch
BY DEF Next, vars, DayPasses, Monitor, Process, FetchFails, ProcessUnsaved, ActOn, EndCycle,
       SyncStarts, TeacherGrades, Relink, Importer, ReadYear, SetYear, ImportKnown, ImportFails

LEMMA JobsMove ==
    ASSUME [Next]_vars, NEW Some, job \in [Jobs -> Some], NEW j \in Jobs
    PROVE  job'[j] \in {job[j], Idle, [at |-> "read", link |-> link']} \/ ReadYear(j)
<1>1. job \in [Jobs -> Some]
  OBVIOUS
<1>2. CASE job' = job
  BY <1>2
<1>3. CASE SyncStarts
  BY <1>1, <1>3 DEF SyncStarts, Stage
<1>4. ASSUME NEW s \in Sheets, Relink(s)
      PROVE  job'[j] \in {job[j], [at |-> "read", link |-> link']}
  BY <1>1, <1>4 DEF Relink
<1>5. ASSUME NEW k \in Jobs, ReadYear(k) PROVE job'[j] = job[j] \/ ReadYear(j)
  BY <1>1, <1>5 DEF ReadYear, Stage
<1>6. ASSUME NEW k \in Jobs, SetYear(k) \/ ImportKnown(k) \/ ImportFails(k)
      PROVE  job'[j] \in {job[j], Idle}
  BY <1>1, <1>6 DEF SetYear, ImportKnown, ImportFails, Stage
<1>7. \/ job' = job \/ SyncStarts
      \/ \E s \in Sheets : Relink(s)
      \/ \E k \in Jobs : ReadYear(k) \/ SetYear(k) \/ ImportKnown(k) \/ ImportFails(k)
  BY DEF Next, vars, DayPasses, Monitor, CycleStarts, Fetch, Process, FetchFails, ProcessUnsaved,
         ActOn, TeacherGrades, Importer
<1> QED
  BY <1>2, <1>3, <1>4, <1>5, <1>6, <1>7

\* Grades come only to the sheet of this school year, in the month they are
\* given; a cycle and an import take them over as they are.
LEMMA GradesStep == ASSUME OneSchoolYear, Types, GradesInv, [Next]_vars PROVE GradesInv'
<1> DEFINE Good(months, s, t) ==
             /\ SheetYear[s] < Y => months \cap Spring # {}
             /\ SheetYear[s] = Y /\ Autumn(t) => months \cap Spring = {}
             /\ SheetYear[s] > Y => months = {}
<1>1. /\ \A s \in Sheets : Good(graded[s], s, now)
      /\ InCycle => cycle.day <= now
      /\ cycle.at = "process" => Good(cycle.data, cycle.link, now)
      /\ \A j \in Jobs : job[j].at = "set" => Good(job[j].data, job[j].link, now)
  BY DEF GradesInv, Plausible
<1>2. /\ now \in Int /\ now' \in Int /\ now <= now'
      /\ Autumn(now') => Autumn(now)
  BY AutumnEnds, Window DEF Types
<1>3. \A s, g : Good(g, s, now) => Good(g, s, now')
  BY <1>2
<1> HIDE DEF Good
<1>4. graded' = graded \/ \E s \in Sheets : TeacherGrades(s)
  BY DEF Next, vars, DayPasses, Monitor, CycleStarts, Fetch, Process, FetchFails, ProcessUnsaved,
         ActOn, SyncStarts, TeacherGrades, Relink, Importer, ReadYear, SetYear, ImportKnown,
         ImportFails
<1>5. ASSUME NEW s \in Sheets PROVE Good(graded'[s], s, now')
  <2>1. CASE graded' = graded
    BY <1>1, <1>3, <2>1
  <2>2. ASSUME NEW u \in Sheets, TeacherGrades(u) PROVE Good(graded'[s], s, now')
    <3>1. /\ graded' = [graded EXCEPT ![u] = @ \cup {Month(now)}]
          /\ SheetYear[u] = Y /\ now' = now
      BY <2>2, Window DEF TeacherGrades, Types
    <3>2. CASE s # u
      BY <1>1, <1>3, <3>1, <3>2 DEF Types
    <3>3. CASE s = u
      <4>1. graded'[s] = graded[s] \cup {Month(now)}
        BY <3>1, <3>3 DEF Types
      <4>2. Autumn(now) => Month(now) \notin Spring
        BY DEF Autumn, StartMonth, Spring
      <4>3. Y \in Nat
        BY Window
      <4> QED
        BY <1>1, <3>1, <3>3, <4>1, <4>2, <4>3 DEF Good
    <3> QED
      BY <3>2, <3>3
  <2> QED
    BY <1>4, <2>1, <2>2
<1>6. /\ InCycle' => cycle'.day <= now'
      /\ cycle'.at = "process" => Good(cycle'.data, cycle'.link, now')
  <2>1. CASE cycle' = cycle
    BY <1>1, <1>2, <1>3, <2>1, Forms, Window DEF InCycle, Fetching, Processing
  <2>2. CASE cycle' \in {Idle, Done}
    BY <2>2 DEF InCycle, Idle, Done
  <2>3. CASE CycleStarts
    BY <1>2, <2>2, <2>3 DEF CycleStarts, EndCycle, InCycle
  <2>4. CASE Fetch
    <3>1. cycle.link \in Sheets /\ cycle.day <= now
      BY <1>1, <2>4, Forms DEF Fetch, Fetching, InCycle
    <3>2. cycle' = [at |-> "process", link |-> cycle.link, year |-> cycle.year,
                    day |-> cycle.day, data |-> graded[cycle.link]] /\ now' = now
      BY <2>4 DEF Fetch
    <3> QED
      BY <1>1, <1>3, <3>1, <3>2 DEF InCycle
  <2>5. cycle' \in {cycle, Idle, Done} \/ CycleStarts \/ Fetch
    BY CycleMoves
  <2> QED
    BY <2>1, <2>2, <2>3, <2>4, <2>5
<1>7. ASSUME NEW j \in Jobs, job'[j].at = "set" PROVE Good(job'[j].data, job'[j].link, now')
  <2>1. CASE job'[j] = job[j]
    BY <1>1, <1>3, <1>7, <2>1
  <2>2. CASE ReadYear(j)
    <3>1. job[j].link \in Sheets
      BY <2>2, Forms DEF ReadYear, Beginning
    <3>2. job'[j].link = job[j].link /\ job'[j].data = graded[job[j].link]
      BY <2>2 DEF ReadYear, Stage, Types
    <3> QED
      BY <1>1, <1>3, <3>1, <3>2
  <2>3. job'[j] \in {job[j], Idle, [at |-> "read", link |-> link']} \/ ReadYear(j)
    BY JobsMove DEF Types
  <2> QED
    BY <1>7, <2>1, <2>2, <2>3 DEF Idle
<1> QED
  BY <1>5, <1>6, <1>7 DEF GradesInv, Plausible, Good

LEMMA LinkMoves ==
    ASSUME [Next]_vars
    PROVE  (link' = link /\ overtaken' = overtaken) \/ \E s \in Sheets : Relink(s)
BY DEF Next, vars, DayPasses, Monitor, CycleStarts, Fetch, Process, FetchFails, ProcessUnsaved,
       ActOn, SyncStarts, TeacherGrades, Importer, ReadYear, SetYear, ImportKnown, ImportFails

LEMMA InUseStep == ASSUME Types, InUseInv, [Next]_vars PROVE InUseInv'
<1>1. SUFFICES ASSUME ~overtaken'
               PROVE  /\ InCycle' => cycle'.link = link'
                      /\ \A j \in Jobs : job'[j] # Idle => job'[j].link = link'
  BY DEF InUseInv
<1>2. CASE link' = link /\ overtaken' = overtaken
  <2>1. /\ InCycle => cycle.link = link
        /\ \A j \in Jobs : job[j] # Idle => job[j].link = link
    BY <1>1, <1>2 DEF InUseInv
  <2>2. ASSUME InCycle' PROVE cycle'.link = link'
    <3>1. CASE cycle' \in {cycle, Idle, Done}
      BY <1>2, <2>1, <2>2, <3>1 DEF InCycle, Idle, Done
    <3>2. CASE CycleStarts
      BY <1>2, <2>2, <3>2 DEF InCycle, CycleStarts, EndCycle, Done
    <3>3. CASE Fetch
      BY <1>2, <2>1, <3>3 DEF InCycle, Fetch
    <3> QED
      BY <3>1, <3>2, <3>3, CycleMoves
  <2>3. ASSUME NEW j \in Jobs, job'[j] # Idle PROVE job'[j].link = link'
    <3>1. ReadYear(j) => job[j] # Idle /\ job'[j].link = job[j].link
      BY DEF ReadYear, Stage, Types, Idle
    <3>2. job'[j] \in {job[j], Idle, [at |-> "read", link |-> link']} \/ ReadYear(j)
      BY JobsMove DEF Types
    <3> QED
      BY <1>2, <2>1, <2>3, <3>1, <3>2
  <2> QED
    BY <2>2, <2>3
<1>3. ASSUME NEW s \in Sheets, Relink(s)
      PROVE  /\ InCycle' => cycle'.link = link'
             /\ \A j \in Jobs : job'[j] # Idle => job'[j].link = link'
  <2>1. ~InUse
    BY <1>1, <1>3 DEF Relink
  <2>2. cycle' = cycle /\ link' = s
    BY <1>3 DEF Relink
  <2>3. ~InCycle'
    BY <2>1, <2>2 DEF InUse, InCycle
  <2>4. ASSUME NEW j \in Jobs, job'[j] # Idle PROVE job'[j].link = link'
    <3>1. job[j] = Idle
      BY <2>1 DEF InUse
    <3>2. job'[j] = [at |-> "read", link |-> s]
      BY <1>3, <2>4, <3>1 DEF Relink, Types
    <3> QED
      BY <2>2, <3>2
  <2> QED
    BY <2>3, <2>4
<1> QED
  BY <1>2, <1>3, LinkMoves

\* What is inferred in autumn from the sheet's own grades tells whether the
\* sheet is over.
LEMMA InferredFits ==
    ASSUME OneSchoolYear, NEW t \in Days, Autumn(t), NEW s \in Sheets, NEW months,
           SheetYear[s] < Y => months \cap Spring # {},
           SheetYear[s] = Y => months \cap Spring = {},
           SheetYear[s] > Y => months = {}
    PROVE  Fits(InferYear(months, t), s)
<1>1. InferYear(months, t) = IF months \cap Spring = {} THEN Y ELSE Y - 1
  BY InferredInAutumn
<1>2. Y \in Nat /\ SheetYear[s] \in Nat
  BY Window, CalendarAssumption
<1>3. months \cap Spring # {} => SheetYear[s] < Y
  BY <1>2
<1> QED
  BY <1>1, <1>2, <1>3 DEF Fits

LEMMA YearStep ==
    ASSUME OneSchoolYear, Types, GradesInv, InUseInv, YearInv, [Next]_vars
    PROVE  YearInv'
<1>1. /\ now \in Days /\ now' \in Days /\ (Autumn(now') => Autumn(now))
  BY AutumnEnds DEF Types
<1>2. /\ Autumn(now) /\ ~overtaken => Fits(year, link)
      /\ InCycle /\ Autumn(cycle.day) /\ ~overtaken => Fits(cycle.year, cycle.link)
      /\ \A j \in Jobs :
            job[j].at = "set" /\ Autumn(now) => Fits(job[j].year, job[j].link)
  BY DEF YearInv
<1>3. ~overtaken' => ~overtaken
  BY LinkMoves DEF Relink
<1>4. ASSUME Autumn(now'), ~overtaken' PROVE Fits(year', link')
  <2>1. CASE year' = year /\ link' = link
    BY <1>1, <1>2, <1>3, <1>4, <2>1
  <2>2. ASSUME NEW s \in Sheets, Relink(s) PROVE Fits(year', link')
    BY <2>2 DEF Relink, Fits
  <2>3. CASE Process
    <3>1. /\ cycle \in Processing /\ cycle.day <= now /\ cycle.link = link
          /\ Plausible(cycle.data, cycle.link)
      BY <1>3, <1>4, <2>3, Forms DEF Process, GradesInv, InUseInv, InCycle
    <3>2. cycle.day \in Days /\ cycle.link \in Sheets /\ Autumn(cycle.day)
      BY <1>1, <1>4, <3>1, Window DEF Processing
    <3>3. Fits(InferYear(cycle.data, cycle.day), link)
      BY <1>1, <1>4, <3>1, <3>2, InferredFits DEF Plausible
    <3>4. year' \in {year, InferYear(cycle.data, cycle.day)} /\ link' = link
      BY <2>3 DEF Process, ActOn, Corrected
    <3> QED
      BY <1>1, <1>2, <1>3, <1>4, <3>3, <3>4
  <2>4. ASSUME NEW j \in Jobs, SetYear(j) PROVE Fits(year', link')
    <3>1. job[j].at = "set" /\ year' = job[j].year /\ link' = link
      BY <2>4 DEF SetYear
    <3>2. job[j].link = link
      BY <1>3, <1>4, <3>1 DEF InUseInv, Idle
    <3> QED
      BY <1>1, <1>2, <1>4, <3>1, <3>2
  <2>5. \/ year' = year /\ link' = link
        \/ \E s \in Sheets : Relink(s)
        \/ Process
        \/ \E j \in Jobs : SetYear(j)
    BY DEF Next, vars, DayPasses, Monitor, CycleStarts, Fetch, FetchFails, ProcessUnsaved,
           ActOn, SyncStarts, TeacherGrades, Importer, ReadYear, ImportKnown, ImportFails
  <2> QED
    BY <2>1, <2>2, <2>3, <2>4, <2>5
<1>5. ASSUME InCycle', Autumn(cycle'.day), ~overtaken' PROVE Fits(cycle'.year, cycle'.link)
  <2>1. CASE cycle' \in {cycle, Idle, Done}
    BY <1>2, <1>3, <1>5, <2>1 DEF InCycle, Idle, Done
  <2>2. CASE CycleStarts
    BY <1>2, <1>3, <1>5, <2>2 DEF CycleStarts, EndCycle, InCycle, Done
  <2>3. CASE Fetch
    BY <1>2, <1>3, <1>5, <2>3 DEF Fetch, InCycle
  <2> QED
    BY <2>1, <2>2, <2>3, CycleMoves
<1>6. ASSUME NEW j \in Jobs, job'[j].at = "set", Autumn(now')
      PROVE  Fits(job'[j].year, job'[j].link)
  <2>1. CASE job'[j] = job[j]
    BY <1>1, <1>2, <1>6, <2>1
  <2>2. CASE ReadYear(j)
    <3>1. job[j].link \in Sheets
      BY <2>2, Forms DEF ReadYear, Beginning
    <3>2. /\ job'[j].link = job[j].link
          /\ job'[j].year = InferYear(graded[job[j].link], now)
      BY <2>2 DEF ReadYear, Stage, Types
    <3>3. Plausible(graded[job[j].link], job[j].link)
      BY <3>1 DEF GradesInv
    <3>4. Fits(InferYear(graded[job[j].link], now), job[j].link)
      BY <1>1, <1>6, <3>1, <3>3, InferredFits DEF Plausible
    <3> QED
      BY <3>2, <3>4
  <2>3. job'[j] \in {job[j], Idle, [at |-> "read", link |-> link']} \/ ReadYear(j)
    BY JobsMove DEF Types
  <2> QED
    BY <1>6, <2>1, <2>2, <2>3 DEF Idle
<1> QED
  BY <1>4, <1>5, <1>6 DEF YearInv, Fits

\* Excuses stay.
LEMMA ExcusesStay ==
    ASSUME OneSchoolYear, Types, [Next]_vars
    PROVE  /\ overtaken => overtaken'
           /\ faults > 0 => faults' > 0
           /\ AfterNewYear => AfterNewYear'
<1>1. overtaken => overtaken'
  BY LinkMoves DEF Relink
<1>2. faults' \in {faults, faults + 1}
  BY DEF Next, vars, DayPasses, Monitor, CycleStarts, Fetch, Process, FetchFails, ProcessUnsaved,
         ActOn, SyncStarts, TeacherGrades, Relink, Importer, ReadYear, SetYear, ImportKnown,
         ImportFails, Fault
<1>3. now \in Days /\ now' \in Days /\ (Autumn(now') => Autumn(now))
  BY AutumnEnds DEF Types
<1>4. Month(now) \in Int /\ Month(now') \in Int
  BY <1>3, Window DEF Months
<1> QED
  BY <1>1, <1>2, <1>3, <1>4 DEF Types, AfterNewYear, Autumn, StartMonth

\* What the cycle announces when it holds the sheet to be of a known year y:
\* a grade in today's column of a sheet of this school year.
LEMMA Announced ==
    ASSUME OneSchoolYear, Types, cycle.at = "process", NEW y \in Nat, Announce(cycle, y),
           NEW a \in told', a \notin told
    PROVE  /\ a.date = cycle.day
           /\ a.of = ColumnDate(Month(cycle.day), SheetYear[cycle.link])
           /\ a.known <=> y # Unknown
           /\ cycle.data # {}
           /\ y # Unknown => y = Y
<1>1. cycle.day \in Days
  BY Forms DEF Processing
<1>2. /\ a = [date |-> cycle.day, known |-> y # Unknown,
              of |-> ColumnDate(Month(cycle.day), SheetYear[cycle.link])]
      /\ Month(cycle.day) \in cycle.data
      /\ y # Unknown => ColumnDate(Month(cycle.day), y) = cycle.day
  BY DEF Announce
<1>3. y # Unknown => y = Y
  BY <1>1, <1>2, ColumnOfToday
<1> QED
  BY <1>2, <1>3

\* The two places a grade is announced from: with the corrected year, and with
\* the year on record when the correction could not be saved.
LEMMA ToldStep ==
    ASSUME OneSchoolYear, Types, GradesInv, YearInv, Told, [Next]_vars
    PROVE  Told'
<1> SUFFICES ASSUME NEW a \in told', a.known
             PROVE  a.of = a.date \/ Month(a.date) < StartMonth \/ (overtaken' /\ faults' > 0)
  BY DEF Told
<1>1. CASE a \in told
  BY <1>1, ExcusesStay DEF Told
<1>2. CASE a \notin told
  <2>1. Process \/ ProcessUnsaved
    BY <1>2 DEF Next, vars, DayPasses, Monitor, CycleStarts, Fetch, FetchFails, SyncStarts,
                TeacherGrades, Relink, Importer, ReadYear, SetYear, ImportKnown, ImportFails
  <2>2. /\ cycle \in Processing /\ cycle.at = "process"
        /\ Plausible(cycle.data, cycle.link)
    BY <2>1, Forms DEF Process, ProcessUnsaved, GradesInv
  <2>3. /\ cycle.day \in Days /\ cycle.link \in Sheets /\ cycle.year \in Nat
        /\ cycle.day <= now /\ now \in Days
    BY <2>2 DEF Processing, GradesInv, InCycle, Types
  <2>4. Y \in Nat /\ SheetYear[cycle.link] \in Nat /\ Month(cycle.day) \in Int
    BY <2>3, Window, CalendarAssumption DEF Months
  <2>5. ASSUME a.date = cycle.day, cycle.data # {}, ~(SheetYear[cycle.link] < Y),
               a.of = ColumnDate(Month(cycle.day), SheetYear[cycle.link])
        PROVE  a.of = a.date
    <3>1. SheetYear[cycle.link] = Y
      BY <2>2, <2>4, <2>5 DEF Plausible
    <3> QED
      BY <2>3, <2>4, <2>5, <3>1, ColumnOfToday
  <2>6. CASE Process
    <3>1. Corrected(cycle) \in Nat
      BY <2>3, InferredIsNat DEF Corrected
    <3>2. Announce(cycle, Corrected(cycle))
      BY <1>2, <2>6 DEF Process, ActOn
    <3>3. /\ a.date = cycle.day
          /\ a.of = ColumnDate(Month(cycle.day), SheetYear[cycle.link])
          /\ cycle.data # {} /\ Corrected(cycle) = Y /\ Corrected(cycle) # Unknown
      BY <1>2, <2>2, <3>1, <3>2, Announced
    <3>4. ASSUME Autumn(cycle.day) PROVE ~(SheetYear[cycle.link] < Y)
      <4>1. InferYear(cycle.data, cycle.day) = Y
        BY <3>3 DEF Corrected
      <4>2. cycle.data \cap Spring = {}
        BY <2>3, <2>4, <3>4, <4>1, InferredInAutumn
      <4> QED
        BY <2>2, <4>2 DEF Plausible
    <3> QED
      BY <2>4, <2>5, <3>3, <3>4 DEF Autumn, StartMonth
  <2>7. CASE ProcessUnsaved
    <3>1. Announce(cycle, cycle.year) /\ faults' = faults + 1
      BY <1>2, <2>7 DEF ProcessUnsaved, ActOn, Fault
    <3>2. /\ a.date = cycle.day
          /\ a.of = ColumnDate(Month(cycle.day), SheetYear[cycle.link])
          /\ cycle.data # {} /\ cycle.year = Y /\ cycle.year # Unknown
      BY <1>2, <2>2, <2>3, <3>1, Announced
    <3>3. faults' > 0
      BY <3>1 DEF Types
    <3>4. ASSUME Autumn(cycle.day), ~overtaken PROVE ~(SheetYear[cycle.link] < Y)
      BY <2>2, <2>4, <3>2, <3>4 DEF YearInv, InCycle, Fits
    <3> QED
      BY <2>4, <2>5, <3>2, <3>3, <3>4, ExcusesStay DEF Autumn, StartMonth
  <2> QED
    BY <2>1, <2>6, <2>7
<1> QED
  BY <1>1, <1>2

\* A family is asked to replace the sheet the cycle holds to be over: by the
\* record when the cycle starts, or by what it has just read.
LEMMA NudgedStep ==
    ASSUME OneSchoolYear, Types, GradesInv, YearInv, Nudged, [Next]_vars
    PROVE  Nudged'
<1>1. /\ now \in Days /\ now' \in Days /\ Y \in Nat
      /\ CurrentYear(now) = Y /\ CurrentYear(now') = Y
      /\ Month(now) \in Int
  BY AutumnEnds, Window DEF Types, Months
<1>2. SUFFICES ASSUME NEW s \in nudged', s \notin nudged, ~overtaken, Autumn(now)
               PROVE  SheetYear[s] < Y
  <2>1. ASSUME NEW s \in nudged'
        PROVE  SheetYear[s] < CurrentYear(now') \/ overtaken' \/ AfterNewYear'
    BY <1>1, <1>2, ExcusesStay DEF Nudged, AfterNewYear, Autumn, StartMonth
  <2> QED
    BY <2>1 DEF Nudged
<1>3. CycleStarts \/ Process \/ ProcessUnsaved
  BY <1>2 DEF Next, vars, DayPasses, Monitor, Fetch, FetchFails, SyncStarts, TeacherGrades,
              Relink, Importer, ReadYear, SetYear, ImportKnown, ImportFails, marks
<1>4. CASE CycleStarts
  <2>1. s = link /\ IsStale(year, now)
    BY <1>2, <1>4 DEF CycleStarts, HandleStale
  <2>2. year # Unknown /\ year < Y
    BY <1>1, <2>1 DEF IsStale
  <2> QED
    BY <1>2, <2>1, <2>2 DEF YearInv, Fits
<1>5. CASE Process \/ ProcessUnsaved
  <2>1. /\ cycle \in Processing /\ cycle.at = "process"
        /\ Plausible(cycle.data, cycle.link)
    BY <1>5, Forms DEF Process, ProcessUnsaved, GradesInv
  <2>2. /\ cycle.day \in Days /\ cycle.link \in Sheets /\ cycle.year \in Nat
        /\ Autumn(cycle.day) /\ CurrentYear(cycle.day) = Y
    <3>1. cycle.day \in Days /\ cycle.day <= now
      BY <2>1 DEF Processing, GradesInv, InCycle
    <3> QED
      BY <1>1, <1>2, <2>1, <3>1, Window DEF Processing
  <2>3. PICK y \in {Corrected(cycle), cycle.year} : ActOn(y)
    BY <1>5 DEF Process, ProcessUnsaved
  <2>4. s = cycle.link /\ IsStale(y, cycle.day)
    BY <1>2, <2>3 DEF ActOn, HandleStale, marks
  <2>5. y # Unknown /\ y < Y
    BY <2>2, <2>4 DEF IsStale
  <2>6. CASE y = cycle.year
    BY <1>2, <2>1, <2>2, <2>4, <2>5, <2>6 DEF YearInv, InCycle, Fits
  <2>7. CASE y = InferYear(cycle.data, cycle.day)
    <3>1. Fits(y, cycle.link)
      BY <1>2, <2>1, <2>2, <2>7, InferredFits DEF Plausible
    <3> QED
      BY <2>4, <2>5, <3>1 DEF Fits
  <2> QED
    BY <2>3, <2>6, <2>7 DEF Corrected
<1> QED
  BY <1>3, <1>4, <1>5

LEMMA NextIInv == ASSUME OneSchoolYear, IInv, [Next]_vars PROVE IInv'
BY TypesStep, GradesStep, InUseStep, YearStep, ToldStep, NudgedStep DEF IInv

LEMMA Invariant == ASSUME OneSchoolYear PROVE Spec => []IInv
<1>1. Init => IInv
  BY InitIInv
<1>2. IInv /\ [Next]_vars => IInv'
  BY NextIInv
<1> QED
  BY <1>1, <1>2, PTL DEF Spec

\* Last year's grades stay quiet (monitor_engine 292-386, 506-531, 739-745,
\* 798-810): in every school year, from a day of its autumn on, whatever sheets
\* are linked and however cycles, imports, changes of the link and failures
\* follow each other, a grade announced as today's under a known year was given
\* today, unless New Year is past or a link changed under a reader and a
\* statement or a read failed; and only a sheet that is over is asked to be
\* replaced, unless the link changed under a reader or New Year is past.
THEOREM OldGradesStayQuiet == ASSUME OneSchoolYear PROVE Spec => []LastYearStaysQuiet
<1>1. IInv => LastYearStaysQuiet
  BY DEF IInv, Told, Nudged, LastYearStaysQuiet
<1> QED
  BY <1>1, Invariant, PTL
-----------------------------------------------------------------------------
(* The dates of the history. *)

\* No sheet older than last year's is linked: one of two years ago is taken
\* for last year's, and its grades are filed a year late.
RecentSheets == \A s \in Sheets : SheetYear[s] >= Y - 1

\* What a year that fits the sheet makes of its grades: their own dates.
LEMMA ImportedTrue ==
    ASSUME OneSchoolYear, RecentSheets, NEW s \in Sheets, NEW y \in Nat, NEW months,
           Fits(y, s), y # Unknown, SheetYear[s] > Y => months = {},
           Import(s, y, months), NEW r \in rows', r \notin rows
    PROVE  r.of = r.date
<1>1. PICK m \in months : r = [date |-> ColumnDate(m, y), of |-> ColumnDate(m, SheetYear[s])]
  BY DEF Import
<1>2. Y \in Nat /\ SheetYear[s] \in Nat /\ SheetYear[s] >= Y - 1
  BY Window, CalendarAssumption DEF RecentSheets
<1>3. y = SheetYear[s]
  BY <1>1, <1>2 DEF Fits
<1> QED
  BY <1>1, <1>3

LEMMA HistoryStep ==
    ASSUME OneSchoolYear, RecentSheets, IInv, HistoryDatesAreTrue, [Next]_vars
    PROVE  HistoryDatesAreTrue'
<1>1. /\ Types /\ GradesInv /\ InUseInv /\ YearInv
      /\ now \in Days /\ Month(now) \in Int
  BY Window DEF IInv, Types, Months
<1>2. told \subseteq told'
  BY DEF Next, vars, DayPasses, Monitor, CycleStarts, Fetch, Process, FetchFails, ProcessUnsaved,
         ActOn, Announce, SyncStarts, TeacherGrades, Relink, Importer, ReadYear, SetYear,
         ImportKnown, ImportFails
<1>3. SUFFICES ASSUME NEW r \in rows', r \notin rows, ~overtaken, Autumn(now)
               PROVE  r.of = r.date \/ \E a \in told' : a.date = r.date /\ a.of = r.of
  <2>1. ASSUME NEW r \in rows'
        PROVE  \/ r.of = r.date \/ overtaken' \/ AfterNewYear'
               \/ \E a \in told' : a.date = r.date /\ a.of = r.of
    BY <1>1, <1>2, <1>3, ExcusesStay DEF HistoryDatesAreTrue, AfterNewYear, Autumn, StartMonth
  <2> QED
    BY <2>1 DEF HistoryDatesAreTrue
<1>4. \/ Process \/ ProcessUnsaved
      \/ \E j \in Jobs : SetYear(j) \/ ImportKnown(j)
  BY <1>3 DEF Next, vars, DayPasses, Monitor, CycleStarts, Fetch, FetchFails, SyncStarts,
              TeacherGrades, Relink, Importer, ReadYear, ImportFails
<1>5. CASE Process \/ ProcessUnsaved
  <2>1. PICK y : Announce(cycle, y)
    BY <1>3, <1>5 DEF Process, ProcessUnsaved, ActOn
  <2> DEFINE of == ColumnDate(Month(cycle.day), SheetYear[cycle.link])
             a == [date |-> cycle.day, of |-> of, known |-> y # Unknown]
  <2>2. r = [date |-> cycle.day, of |-> of] /\ told' = told \cup {a}
    BY <1>3, <2>1 DEF Announce
  <2>3. a \in told' /\ a.date = r.date /\ a.of = r.of
    BY <2>2
  <2> QED
    BY <2>3
<1>6. ASSUME NEW j \in Jobs, SetYear(j) PROVE r.of = r.date
  <2>1. /\ job[j].at = "set" /\ job[j].link \in Sheets /\ job[j].year \in Nat \ {Unknown}
        /\ Import(job[j].link, job[j].year, job[j].data)
    BY <1>1, <1>6, Forms DEF SetYear, Setting
  <2>2. Fits(job[j].year, job[j].link) /\ Plausible(job[j].data, job[j].link)
    BY <1>1, <1>3, <2>1 DEF YearInv, GradesInv
  <2> QED
    BY <1>3, <2>1, <2>2, ImportedTrue DEF Plausible
<1>7. ASSUME NEW j \in Jobs, ImportKnown(j) PROVE r.of = r.date
  <2>1. /\ job[j].at = "read" /\ job[j].link \in Sheets /\ year \in Nat /\ year # Unknown
        /\ Import(job[j].link, year, graded[job[j].link])
    BY <1>1, <1>7, Forms DEF ImportKnown, Beginning, Types
  <2>2. job[j].link = link
    BY <1>1, <1>3, <2>1 DEF InUseInv, Idle
  <2>3. Fits(year, job[j].link) /\ Plausible(graded[job[j].link], job[j].link)
    BY <1>1, <1>3, <2>1, <2>2 DEF YearInv, GradesInv
  <2> QED
    BY <1>3, <2>1, <2>3, ImportedTrue DEF Plausible
<1> QED
  BY <1>4, <1>5, <1>6, <1>7

\* The history is dated right (history_importer 419-477): in every school year,
\* from a day of its autumn on, for any sheets not older than last year's, each
\* grade is filed under the date it was given on, unless it was announced under
\* that date, the link changed under a reader, or New Year is past.
THEOREM HistoryIsDatedRight ==
    ASSUME OneSchoolYear, RecentSheets PROVE Spec => []HistoryDatesAreTrue
<1>1. Init => HistoryDatesAreTrue
  BY DEF Init, HistoryDatesAreTrue
<1>2. IInv /\ HistoryDatesAreTrue /\ [Next]_vars => HistoryDatesAreTrue'
  BY HistoryStep
<1> QED
  BY <1>1, <1>2, Invariant, PTL DEF Spec
-----------------------------------------------------------------------------
(* The types, over any number of school years. *)

\* A sheet shows no grade of the days to come, nor does what was read of it, and
\* a cycle's day is not one of them.
NoneAhead ==
    /\ \A s \in Sheets : graded[s] \subseteq GivenBy(SheetYear[s], now)
    /\ cycle.at = "process" => cycle.data \subseteq GivenBy(SheetYear[cycle.link], now)
    /\ InCycle => cycle.day <= now
    /\ \A j \in Jobs : job[j].at = "set" =>
                     job[j].data \subseteq GivenBy(SheetYear[job[j].link], now)

Fetches == [at : {"fetch"}, link : Sheets, year : YearsSeen, day : Days]
Processes == [at : {"process"}, link : Sheets, year : YearsSeen, day : Days, data : SUBSET Months]
Sets == [at : {"set"}, link : Sheets, year : YearsSeen, data : SUBSET Months]

LEMMA YearsOfDays ==
    /\ Days \subseteq Nat /\ 0 \notin Days /\ FirstDay \in Days /\ YearsSeen \subseteq Nat
    /\ Unknown \in YearsSeen
    /\ \A s \in Sheets : SheetYear[s] \in Nat /\ SheetYear[s] \in YearsSeen
    /\ \A t \in Days : Month(t) \in Months /\ \A months : InferYear(months, t) \in YearsSeen
<1>1. \A t \in Days : t \in Nat /\ t >= 24
  BY CalendarAssumption DEF Days
<1>2. ASSUME NEW t \in Days PROVE Year(t) \in Nat /\ Year(t) - 1 \in Nat /\ Month(t) \in Months
  <2>1. Year(t) \in Nat /\ Month(t) \in Months /\ t = 12 * Year(t) + Month(t) - 1
    BY <1>1, PartsOfDate DEF Date
  <2> QED
    BY <1>1, <2>1 DEF Months
<1>3. \A t \in Days : \A months : InferYear(months, t) \in YearsSeen
  BY DEF InferYear, YearsSeen
<1>4. \A s \in Sheets : SheetYear[s] \in Nat
  BY CalendarAssumption
<1>5. YearsSeen \subseteq Nat
  BY <1>2, <1>4 DEF YearsSeen, Unknown
<1>6. \A s \in Sheets : SheetYear[s] \in YearsSeen
  BY DEF YearsSeen
<1>7. FirstDay \in Days /\ Days \subseteq Nat /\ 0 \notin Days /\ Unknown \in YearsSeen
  BY <1>1, CalendarAssumption DEF Days, YearsSeen
<1> QED
  BY <1>2, <1>3, <1>4, <1>5, <1>6, <1>7

LEMMA StageForms ==
    ASSUME TypeOK
    PROVE  /\ cycle.at = "fetch" => cycle \in Fetches
           /\ cycle.at = "process" => cycle \in Processes
           /\ \A j \in Jobs : job[j].at = "read" => job[j] \in Beginning
           /\ \A j \in Jobs : job[j].at = "set" => job[j] \in Sets
<1>1. cycle \in {Idle, Done} \cup Fetches \cup Processes
  BY DEF TypeOK, Fetches, Processes
<1>2. \A j \in Jobs : job[j] \in {Idle} \cup Beginning \cup Sets
  BY DEF TypeOK, Beginning, Sets
<1> QED
  BY <1>1, <1>2 DEF Idle, Done, Fetches, Processes, Beginning, Sets

\* Time goes on by days.
LEMMA TimeTypes ==
    ASSUME TypeOK, [Next]_vars PROVE now' \in Days /\ now \in Days /\ now <= now' /\ now \in Nat
<1>1. now' = now \/ (now < LastDay /\ now' = now + 1)
  BY DEF Next, vars, DayPasses, Monitor, CycleStarts, Fetch, Process, FetchFails, ProcessUnsaved,
         ActOn, SyncStarts, TeacherGrades, Relink, Importer, ReadYear, SetYear, ImportKnown,
         ImportFails
<1> QED
  BY <1>1, CalendarAssumption DEF TypeOK, Days

LEMMA GivenLater ==
    ASSUME NEW y \in Nat, NEW t \in Nat, NEW u \in Nat, t <= u
    PROVE  GivenBy(y, t) \subseteq GivenBy(y, u)
<1> SUFFICES ASSUME NEW m \in Months, ColumnDate(m, y) <= t PROVE ColumnDate(m, y) <= u
  BY DEF GivenBy
<1> QED
  BY ColumnInItsYear

LEMMA NoneAheadStart == ASSUME Init PROVE NoneAhead
<1>1. ASSUME NEW s \in Sheets PROVE graded[s] \subseteq GivenBy(SheetYear[s], now)
  <2>1. SheetYear[s] \in Nat /\ now = FirstDay /\ FirstDay \in Nat
    BY CalendarAssumption DEF Init
  <2>2. ASSUME NEW m \in Months, ColumnDate(m, SheetYear[s]) < FirstDay
        PROVE  m \in GivenBy(SheetYear[s], now)
    BY <2>1, <2>2, ColumnInItsYear DEF GivenBy
  <2> QED
    BY <2>1, <2>2 DEF Init, GivenBefore
<1> QED
  BY <1>1 DEF NoneAhead, Init, InCycle, Idle

\* A grade is given on the day it is given.
LEMMA NoneAheadStep == ASSUME TypeOK, NoneAhead, [Next]_vars PROVE NoneAhead'
<1>1. now' \in Nat /\ now \in Nat /\ now <= now' /\ now \in Days
  BY TimeTypes, YearsOfDays
<1>2. \A s \in Sheets : GivenBy(SheetYear[s], now) \subseteq GivenBy(SheetYear[s], now')
  BY <1>1, YearsOfDays, GivenLater
<1>3. /\ graded \in [Sheets -> SUBSET Months] /\ link \in Sheets
      /\ job \in [Jobs -> {Idle} \cup Beginning \cup Sets]
  BY DEF TypeOK, Beginning, Sets
<1>4. ASSUME NEW s \in Sheets PROVE graded'[s] \subseteq GivenBy(SheetYear[s], now')
  <2>1. graded[s] \subseteq GivenBy(SheetYear[s], now')
    BY <1>2 DEF NoneAhead
  <2>2. CASE graded' = graded
    BY <2>1, <2>2
  <2>3. ASSUME NEW u \in Sheets, TeacherGrades(u)
        PROVE  graded'[s] \subseteq GivenBy(SheetYear[s], now')
    <3>1. /\ graded' = [graded EXCEPT ![u] = @ \cup {Month(now)}]
          /\ SheetYear[u] = CurrentYear(now) /\ now' = now
      BY <2>3 DEF TeacherGrades
    <3>2. CASE s # u
      BY <1>3, <2>1, <3>1, <3>2
    <3>3. CASE s = u
      <4>1. ColumnDate(Month(now), SheetYear[s]) = now /\ Month(now) \in Months
        <5>1. now = Date(Year(now), Month(now)) /\ Month(now) \in Months /\ Year(now) \in Nat
          BY <1>1, PartsOfDate
        <5>2. ColumnDate(Month(now), CurrentYear(now)) = Date(Year(now), Month(now))
          BY <5>1 DEF ColumnDate, CurrentYear, Date
        <5> QED
          BY <3>1, <3>3, <5>1, <5>2
      <4>2. Month(now) \in GivenBy(SheetYear[s], now')
        BY <1>1, <3>1, <4>1 DEF GivenBy
      <4> QED
        BY <1>3, <2>1, <3>1, <3>3, <4>2
    <3> QED
      BY <3>2, <3>3
  <2>4. graded' = graded \/ \E u \in Sheets : TeacherGrades(u)
    BY DEF Next, vars, DayPasses, Monitor, CycleStarts, Fetch, Process, FetchFails,
           ProcessUnsaved, ActOn, SyncStarts, Relink, Importer, ReadYear, SetYear, ImportKnown,
           ImportFails
  <2> QED
    BY <2>2, <2>3, <2>4
<1>5. /\ InCycle' => cycle'.day <= now'
      /\ cycle'.at = "process" => cycle'.data \subseteq GivenBy(SheetYear[cycle'.link], now')
  <2>1. CASE cycle' = cycle
    <3>1. cycle.at = "process" => cycle.link \in Sheets
      BY StageForms DEF Processes
    <3>2. InCycle => cycle.day \in Nat
      BY StageForms, YearsOfDays DEF InCycle, Processes, Fetches
    <3> QED
      BY <1>1, <1>2, <2>1, <3>1, <3>2 DEF NoneAhead, InCycle
  <2>2. CASE cycle' \in {Idle, Done}
    BY <2>2 DEF InCycle, Idle, Done
  <2>3. CASE CycleStarts
    BY <1>1, <2>2, <2>3 DEF CycleStarts, EndCycle, InCycle
  <2>4. CASE Fetch
    <3>1. cycle.link \in Sheets /\ cycle.day <= now
      BY <2>4, StageForms DEF Fetch, Fetches, InCycle, NoneAhead
    <3>2. cycle' = [at |-> "process", link |-> cycle.link, year |-> cycle.year,
                    day |-> cycle.day, data |-> graded[cycle.link]] /\ now' = now
      BY <2>4 DEF Fetch
    <3> QED
      BY <3>1, <3>2 DEF InCycle, NoneAhead
  <2>5. cycle' \in {cycle, Idle, Done} \/ CycleStarts \/ Fetch
    BY CycleMoves
  <2> QED
    BY <2>1, <2>2, <2>3, <2>4, <2>5
<1>6. ASSUME NEW j \in Jobs, job'[j].at = "set"
      PROVE  job'[j].data \subseteq GivenBy(SheetYear[job'[j].link], now')
  <2>1. CASE job'[j] = job[j]
    <3>1. job[j].link \in Sheets
      BY <1>6, <2>1, StageForms DEF Sets
    <3> QED
      BY <1>2, <1>6, <2>1, <3>1 DEF NoneAhead
  <2>2. CASE ReadYear(j)
    <3>1. job[j].link \in Sheets /\ now' = now
      BY <2>2, StageForms DEF ReadYear, Beginning
    <3>2. job'[j].link = job[j].link /\ job'[j].data = graded[job[j].link]
      BY <1>3, <2>2 DEF ReadYear, Stage
    <3> QED
      BY <3>1, <3>2 DEF NoneAhead
  <2>3. job'[j] \in {job[j], Idle, [at |-> "read", link |-> link']} \/ ReadYear(j)
    BY <1>3, JobsMove
  <2> QED
    BY <1>6, <2>1, <2>2, <2>3 DEF Idle
<1> QED
  BY <1>4, <1>5, <1>6 DEF NoneAhead

\* What an import files, and what a cycle announces: grades of days that have been.
Filed == [date : 0..now, of : 0..now]

LEMMA ColumnGiven ==
    ASSUME NEW s \in Sheets, NEW t \in Nat, NEW m \in GivenBy(SheetYear[s], t)
    PROVE  m \in Months /\ ColumnDate(m, SheetYear[s]) \in 0..t
  BY YearsOfDays, ColumnInItsYear DEF GivenBy

LEMMA ImportTypes ==
    ASSUME TypeOK, NEW s \in Sheets, NEW y \in Nat, NEW months,
           months \subseteq GivenBy(SheetYear[s], now), Import(s, y, months)
    PROVE  rows' \subseteq Filed
<1>1. now \in Nat /\ rows \subseteq Filed
  BY YearsOfDays DEF TypeOK, Filed
<1>2. ASSUME NEW m \in months, ColumnDate(m, y) < now
      PROVE  [date |-> ColumnDate(m, y), of |-> ColumnDate(m, SheetYear[s])] \in Filed
  <2>1. m \in Months /\ ColumnDate(m, SheetYear[s]) \in 0..now
    BY <1>1, ColumnGiven
  <2>2. ColumnDate(m, y) \in 0..now
    BY <1>1, <1>2, <2>1, ColumnInItsYear
  <2> QED
    BY <2>1, <2>2 DEF Filed
<1> QED
  BY <1>1, <1>2 DEF Import

LEMMA AnnounceTypes ==
    ASSUME TypeOK, NoneAhead, cycle.at = "process", NEW y, Announce(cycle, y)
    PROVE  /\ rows' \subseteq Filed
           /\ told' \subseteq [date : Days, of : 0..LastDay, known : BOOLEAN]
<1> DEFINE of == ColumnDate(Month(cycle.day), SheetYear[cycle.link])
           row == [date |-> cycle.day, of |-> of]
           a == [date |-> cycle.day, of |-> of, known |-> y # Unknown]
<1>1. /\ rows \subseteq Filed /\ told \subseteq [date : Days, of : 0..LastDay, known : BOOLEAN]
      /\ now \in Nat /\ now <= LastDay
  BY CalendarAssumption, YearsOfDays DEF TypeOK, Filed, Days
<1>2. /\ cycle.link \in Sheets /\ cycle.day \in Days /\ cycle.day \in Nat
      /\ cycle.day <= now /\ cycle.data \subseteq GivenBy(SheetYear[cycle.link], now)
  BY StageForms, YearsOfDays DEF NoneAhead, InCycle, Processes
<1>3. CASE Month(cycle.day) \in cycle.data
  <2>1. of \in 0..now
    BY <1>1, <1>2, <1>3, ColumnGiven
  <2> HIDE DEF of
  <2>2. row \in Filed
    BY <1>1, <1>2, <2>1 DEF Filed
  <2>3. of \in 0..LastDay
    BY <1>1, <2>1, CalendarAssumption
  <2>4. (y # Unknown) \in BOOLEAN
    BY Zenon
  <2>5. a \in [date : Days, of : 0..LastDay, known : BOOLEAN]
    BY <1>2, <2>3, <2>4, Zenon
  <2>6. rows' \subseteq rows \cup {row} /\ told' \subseteq told \cup {a}
    BY Zenon DEF Announce, of
  <2> QED
    BY <1>1, <2>2, <2>5, <2>6, Zenon
<1>4. CASE Month(cycle.day) \notin cycle.data
  BY <1>1, <1>4 DEF Announce
<1> QED
  BY <1>3, <1>4

LEMMA ActTypes ==
    ASSUME TypeOK, NoneAhead, cycle.at = "process", NEW y, ActOn(y)
    PROVE  /\ recheck' \in Days \cup {0} /\ nudge' \in Days \cup {0} /\ nudged' \subseteq Sheets
           /\ rows' \subseteq Filed
           /\ told' \subseteq [date : Days, of : 0..LastDay, known : BOOLEAN]
           /\ polled' \in BOOLEAN /\ cycle' = Done
           /\ UNCHANGED <<now, graded, link, job, relinks, overtaken>>
<1>1. /\ recheck \in Days \cup {0} /\ nudge \in Days \cup {0} /\ nudged \subseteq Sheets
      /\ rows \subseteq Filed
      /\ told \subseteq [date : Days, of : 0..LastDay, known : BOOLEAN]
  BY DEF TypeOK, Filed
<1>2. cycle.day \in Days /\ cycle.link \in Sheets
  BY StageForms DEF Processes
<1>3. /\ polled' \in BOOLEAN /\ cycle' = Done
      /\ UNCHANGED <<now, graded, link, job, relinks, overtaken>>
  BY DEF ActOn, EndCycle
<1>4. CASE Announce(cycle, y) /\ UNCHANGED marks
  <2>1. UNCHANGED <<recheck, nudge, nudged>>
    BY <1>4 DEF marks
  <2> QED
    BY <1>1, <1>3, <1>4, <2>1, AnnounceTypes
<1>5. CASE /\ recheck' = cycle.day /\ HandleStale(cycle.link, cycle.day)
           /\ UNCHANGED <<rows, told>>
  BY <1>1, <1>2, <1>3, <1>5 DEF HandleStale
<1> QED
  BY <1>4, <1>5, Zenon DEF ActOn

\* Every step keeps every variable in its type.
LEMMA CalendarTypes == ASSUME TypeOK, NoneAhead, [Next]_vars PROVE TypeOK'
<1>0. /\ now \in Days /\ graded \in [Sheets -> SUBSET Months] /\ link \in Sheets
      /\ year \in YearsSeen /\ year \in Nat
      /\ recheck \in Days \cup {0} /\ nudge \in Days \cup {0} /\ nudged \subseteq Sheets
      /\ rows \subseteq Filed /\ told \subseteq [date : Days, of : 0..LastDay, known : BOOLEAN]
      /\ cycle \in {Idle, Done} \cup Fetches \cup Processes
      /\ job \in [Jobs -> {Idle} \cup Beginning \cup Sets]
      /\ relinks \in 0..MaxRelinks /\ faults \in 0..MaxFaults
      /\ MaxRelinks \in Nat /\ MaxFaults \in Nat
  BY YearsOfDays, CalendarAssumption
     DEF TypeOK, Filed, Fetches, Processes, Beginning, Sets
<1>1. polled \in BOOLEAN /\ overtaken \in BOOLEAN
  BY DEF TypeOK
<1> DEFINE World == /\ now' \in Days /\ graded' \in [Sheets -> SUBSET Months]
                    /\ link' \in Sheets /\ year' \in YearsSeen
           Marks == recheck' \in Days \cup {0} /\ nudge' \in Days \cup {0}
                    /\ nudged' \subseteq Sheets
           Log == /\ rows' \subseteq [date : 0..now', of : 0..now']
                  /\ told' \subseteq [date : Days, of : 0..LastDay, known : BOOLEAN]
           Readers == /\ cycle' \in {Idle, Done} \cup Fetches \cup Processes
                      /\ job' \in [Jobs -> {Idle} \cup Beginning \cup Sets]
           Counts == relinks' \in 0..MaxRelinks /\ faults' \in 0..MaxFaults
           Flags == polled' \in BOOLEAN /\ overtaken' \in BOOLEAN
<1>2. ASSUME World, Marks, Log, Readers, Counts, Flags PROVE TypeOK'
  BY <1>2, Zenon DEF TypeOK, Fetches, Processes, Beginning, Sets, Days, YearsSeen, Jobs, Idle, Done
<1>3. Flags
  <2>1. polled' \in {polled, TRUE, FALSE}
    BY DEF Next, vars, DayPasses, Monitor, CycleStarts, Fetch, FetchFails, Process,
           ProcessUnsaved, ActOn, EndCycle, SyncStarts, TeacherGrades, Relink, Importer,
           ReadYear, SetYear, ImportKnown, ImportFails
  <2>2. overtaken' = overtaken \/ overtaken' = (overtaken \/ InUse)
    BY LinkMoves, Zenon DEF Relink
  <2> QED
    BY <1>1, <2>1, <2>2, Zenon
<1>4. Log /\ now' \in Days
  <2>1. now' \in Days /\ now \in Nat /\ now' \in Nat /\ now <= now'
    BY TimeTypes, YearsOfDays
  <2>2. CASE /\ rows' \subseteq Filed
             /\ told' \subseteq [date : Days, of : 0..LastDay, known : BOOLEAN]
    <3>1. 0..now \subseteq 0..now'
      BY <2>1
    <3>2. Filed \subseteq [date : 0..now', of : 0..now']
      BY <3>1 DEF Filed
    <3> QED
      BY <2>1, <2>2, <3>2
  <2>3. CASE UNCHANGED <<rows, told>>
    BY <1>0, <2>2, <2>3
  <2>4. CASE Process \/ ProcessUnsaved
    <3>1. PICK y : ActOn(y)
      BY <2>4 DEF Process, ProcessUnsaved
    <3>2. cycle.at = "process"
      BY <2>4 DEF Process, ProcessUnsaved
    <3> QED
      BY <2>2, <3>1, <3>2, ActTypes
  <2>5. ASSUME NEW j \in Jobs, SetYear(j) PROVE Log /\ now' \in Days
    <3>1. /\ job[j].link \in Sheets /\ job[j].year \in Nat /\ UNCHANGED told
          /\ job[j].data \subseteq GivenBy(SheetYear[job[j].link], now)
      BY <2>5, StageForms, YearsOfDays DEF SetYear, Sets, NoneAhead
    <3> QED
      BY <1>0, <2>2, <2>5, <3>1, ImportTypes DEF SetYear
  <2>6. ASSUME NEW j \in Jobs, ImportKnown(j) PROVE Log /\ now' \in Days
    <3>1. /\ job[j].link \in Sheets /\ UNCHANGED told
          /\ graded[job[j].link] \subseteq GivenBy(SheetYear[job[j].link], now)
      BY <2>6, StageForms DEF ImportKnown, Beginning, NoneAhead
    <3> QED
      BY <1>0, <2>2, <2>6, <3>1, ImportTypes DEF ImportKnown
  <2> QED
    BY <2>3, <2>4, <2>5, <2>6
    DEF Next, vars, DayPasses, Monitor, CycleStarts, Fetch, FetchFails, SyncStarts,
        TeacherGrades, Relink, Importer, ReadYear, ImportFails
<1> HIDE DEF World, Marks, Log, Readers, Counts, Flags
<1>5. ASSUME UNCHANGED <<graded, link, year, recheck, nudge, nudged, cycle, job, relinks, faults>>
      PROVE  World /\ Marks /\ Readers /\ Counts
  BY <1>0, <1>4, <1>5 DEF World, Marks, Readers, Counts
<1>6. World /\ Marks /\ Readers /\ Counts
  <2>1. CASE DayPasses
    BY <1>5, <2>1 DEF DayPasses, marks
  <2>2. CASE CycleStarts
    <3>1. cycle' \in {Done} \cup Fetches
      BY <1>0, <2>2 DEF CycleStarts, EndCycle, Fetches
    <3>2. Marks
      BY <1>0, <2>2 DEF CycleStarts, HandleStale, Marks
    <3> QED
      BY <1>0, <1>4, <2>2, <3>1, <3>2 DEF CycleStarts, World, Readers, Counts
  <2>3. CASE Fetch
    <3>1. cycle \in Fetches
      BY <2>3, StageForms DEF Fetch
    <3>2. cycle' \in Processes
      BY <1>0, <2>3, <3>1 DEF Fetch, Fetches, Processes
    <3> QED
      BY <1>0, <1>4, <2>3, <3>2 DEF Fetch, marks, World, Marks, Readers, Counts
  <2>4. CASE FetchFails
    BY <1>0, <1>4, <2>4 DEF FetchFails, EndCycle, Fault, marks, World, Marks, Readers, Counts
  <2>5. CASE Process
    <3>1. cycle.at = "process" /\ ActOn(Corrected(cycle)) /\ UNCHANGED faults
      BY <2>5 DEF Process
    <3>2. Corrected(cycle) \in YearsSeen
      BY <3>1, StageForms, YearsOfDays DEF Corrected, Processes
    <3>3. year' \in YearsSeen
      BY <1>0, <2>5, <3>2 DEF Process
    <3> QED
      BY <1>0, <1>4, <3>1, <3>3, ActTypes DEF World, Marks, Readers, Counts
  <2>6. CASE ProcessUnsaved
    <3>1. cycle.at = "process" /\ ActOn(cycle.year) /\ UNCHANGED year
          /\ faults' \in 0..MaxFaults
      BY <1>0, <2>6 DEF ProcessUnsaved, Fault
    <3> QED
      BY <1>0, <1>4, <3>1, ActTypes DEF World, Marks, Readers, Counts
  <2>7. CASE SyncStarts
    <3>1. job' \in [Jobs -> {Idle} \cup Beginning \cup Sets]
      BY <1>0, <2>7 DEF SyncStarts, Stage, Beginning
    <3> QED
      BY <1>0, <1>4, <2>7, <3>1 DEF SyncStarts, marks, World, Marks, Readers, Counts
  <2>8. ASSUME NEW s \in Sheets, TeacherGrades(s) PROVE World /\ Marks /\ Readers /\ Counts
    <3>1. Month(now) \in Months
      BY <1>0, YearsOfDays
    <3> QED
      BY <1>0, <1>4, <2>8, <3>1 DEF TeacherGrades, marks, World, Marks, Readers, Counts
  <2>9. ASSUME NEW s \in Sheets, Relink(s) PROVE World /\ Marks /\ Readers /\ Counts
    <3>1. [at |-> "read", link |-> s] \in Beginning
      BY DEF Beginning
    <3>2. job' \in [Jobs -> {Idle} \cup Beginning \cup Sets]
      BY <1>0, <2>9, <3>1 DEF Relink
    <3>3. relinks' \in 0..MaxRelinks
      BY <1>0, <2>9 DEF Relink
    <3> QED
      BY <1>0, <1>4, <2>9, <3>2, <3>3, YearsOfDays
      DEF Relink, marks, World, Marks, Readers, Counts
  <2>10. ASSUME NEW j \in Jobs, ReadYear(j) PROVE World /\ Marks /\ Readers /\ Counts
    <3>1. job[j].link \in Sheets /\ graded[job[j].link] \in SUBSET Months
      BY <1>0, <2>10, StageForms DEF ReadYear, Beginning
    <3>2. InferYear(graded[job[j].link], now) \in YearsSeen
      BY <1>0, YearsOfDays
    <3>3. job' \in [Jobs -> {Idle} \cup Beginning \cup Sets]
      BY <1>0, <2>10, <3>1, <3>2 DEF ReadYear, Stage, Sets
    <3> QED
      BY <1>0, <1>4, <2>10, <3>3 DEF ReadYear, marks, World, Marks, Readers, Counts
  <2>11. ASSUME NEW j \in Jobs, SetYear(j) PROVE World /\ Marks /\ Readers /\ Counts
    <3>1. job[j].year \in YearsSeen
      BY <2>11, StageForms DEF SetYear, Sets
    <3> QED
      BY <1>0, <1>4, <2>11, <3>1 DEF SetYear, Stage, marks, World, Marks, Readers, Counts
  <2>12. ASSUME NEW j \in Jobs, ImportKnown(j) PROVE World /\ Marks /\ Readers /\ Counts
    BY <1>0, <1>4, <2>12 DEF ImportKnown, Stage, marks, World, Marks, Readers, Counts
  <2>13. ASSUME NEW j \in Jobs, ImportFails(j) PROVE World /\ Marks /\ Readers /\ Counts
    BY <1>0, <1>4, <2>13 DEF ImportFails, Stage, Fault, marks, World, Marks, Readers, Counts
  <2>14. CASE UNCHANGED vars
    BY <1>5, <2>14 DEF vars
  <2> QED
    BY <2>1, <2>2, <2>3, <2>4, <2>5, <2>6, <2>7, <2>8, <2>9, <2>10, <2>11, <2>12, <2>13, <2>14
       DEF Next, Monitor, Importer
<1> QED
  BY <1>2, <1>3, <1>4, <1>6

LEMMA CalendarStart == ASSUME Init PROVE TypeOK /\ NoneAhead
<1>1. now \in Days /\ link \in Sheets /\ year \in YearsSeen
  BY YearsOfDays DEF Init
<1>2. graded \in [Sheets -> SUBSET Months]
  BY DEF Init, GivenBefore
<1>3. relinks \in 0..MaxRelinks /\ faults \in 0..MaxFaults
  BY CalendarAssumption DEF Init
<1>4. polled \in BOOLEAN /\ overtaken \in BOOLEAN
  BY Zenon DEF Init
<1>5. /\ recheck = 0 /\ nudge = 0 /\ rows = {} /\ told = {} /\ nudged = {}
      /\ cycle = Idle /\ job = [j \in Jobs |-> Idle]
  BY DEF Init
<1>6. TypeOK
  BY <1>1, <1>2, <1>3, <1>4, <1>5, Zenon DEF TypeOK
<1> QED
  BY <1>6, NoneAheadStart

\* Nothing is dated ahead (history_importer 293-416, monitor_engine 739-810): over
\* any number of school years and whatever sheets are linked, every row of the
\* history and every announcement is of a day that has been and of a grade given by
\* then, and the years on record are those of a sheet, of a day or the one before.
THEOREM DatesArePast == Spec => []TypeOK
  BY CalendarStart, CalendarTypes, NoneAheadStep, PTL DEF Spec

=============================================================================
