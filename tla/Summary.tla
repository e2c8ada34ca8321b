------------------------------ MODULE Summary ------------------------------
(***************************************************************************)
(* What the dashboard computes of a student's grades (webapp/app.py        *)
(* 182-690): the summary of the period with its status line, the table by  *)
(* subject, the cards of the best and the worst subject, the report of the *)
(* year and the quarter table with its forecast.  The functions are        *)
(* written one by one and appear on the same page, so they have to agree.  *)
(*                                                                         *)
(* The history is the sequence of the student's grades, oldest first, each *)
(* on a date of its own; a selection of grades is the set of their         *)
(* positions.  An average is in hundredths, rounded.  A list of subjects   *)
(* is the set of those listed with the order they are listed in.           *)
(* The quarter grades are read by nothing else, so a history and a quarter *)
(* table are not explored together.                                        *)
(***************************************************************************)
EXTENDS Integers, Sequences, FiniteSets, FiniteSetsExt

CONSTANTS
    Subjects,
    Points,        \* the numbers a grade can be
    Text,          \* grade_value of a grade that is not a number
    None,          \* a value the page leaves empty
    MinSample,     \* MIN_SAMPLE: fewer grades say nothing (3)
    GrowthSample,  \* grades that make up a third of the year's growth (6)
    ListLimit,     \* subjects a list shows (5)
    MaxRecords     \* bound: grades

ASSUME SummaryAssumption ==
    /\ Points \subseteq 1..5 /\ {Text, None} \cap Int = {}
    /\ {MinSample, GrowthSample, ListLimit} \subseteq Nat \ {0} /\ GrowthSample >= 3
    /\ MaxRecords \in Nat

VARIABLES
    records,    \* the grades: [subject, value, day, month, current]
    quarterly   \* quarter_grades of the year: subject -> quarter -> value or None

summaryVars == <<records, quarterly>>

Problem == 350
Good == 450
Significant == 20

\* round(total / n, 2) in hundredths.
Round2(total, n) == (200 * total + n) \div (2 * n)

\* The sum of some grades, by how often each number was given.
Times(grades, v) == Cardinality({i \in grades : records[i].value = v})
Total(grades) == Times(grades, 1) + 2 * Times(grades, 2) + 3 * Times(grades, 3)
                 + 4 * Times(grades, 4) + 5 * Times(grades, 5)
Average(grades) == IF grades = {} THEN None ELSE Round2(Total(grades), Cardinality(grades))

\* The first k of some grades.
Oldest(grades, k) == {i \in grades : Cardinality({j \in grades : j <= i}) <= k}
-----------------------------------------------------------------------------
(* compute_summary, compute_by_subject and compute_dashboard_kpis.         *)

Numeric == {i \in DOMAIN records : records[i].value # Text}
Previous == {i \in Numeric : ~ records[i].current}
Current == {i \in Numeric : records[i].current}

Delta ==
    LET now == Cardinality(Current)
        before == Cardinality(Previous)
    IN IF now >= MinSample /\ before >= MinSample
       THEN Round2(Total(Current) * before - Total(Previous) * now, now * before)
       ELSE None

Trend == IF Delta = None THEN "stable"
         ELSE IF Delta >= Significant THEN "up"
         ELSE IF Delta <= -Significant THEN "down" ELSE "stable"

\* The subjects are met newest grade first: "at" is where a subject is met.
OfSubject(grades, s) == {i \in grades : records[i].subject = s}
SubjectStats(grades) ==
    {[name |-> s, avg |-> Average(OfSubject(grades, s)),
      count |-> Cardinality(OfSubject(grades, s)), at |-> Max(OfSubject(grades, s))] :
        s \in {records[i].subject : i \in grades}}

\* Sorting is stable: equal averages stay in the order the subjects are met.
Worse(a, b) == a.avg < b.avg \/ (a.avg = b.avg /\ a.at > b.at)
Better(a, b) == a.avg > b.avg \/ (a.avg = b.avg /\ a.at > b.at)
Listed(stats, Before(_, _)) ==
    {s \in stats : Cardinality({t \in stats : Before(t, s)}) < ListLimit}
FirstOf(stats, Before(_, _)) == CHOOSE s \in stats : \A t \in stats : ~ Before(t, s)

\* Deviation: a single bad grade makes a problem.
ProblemSubjectsOfAnySample(grades) ==
    Listed({s \in SubjectStats(grades) : s.avg <= Problem}, Worse)
ProblemSubjects(grades) ==
    Listed({s \in SubjectStats(grades) : s.avg <= Problem /\ s.count >= MinSample}, Worse)
TopSubjects(grades) ==
    Listed({s \in SubjectStats(grades) : s.avg >= Good /\ s.count >= MinSample}, Better)

Status == IF ProblemSubjects(Current) # {} THEN "concern"
          ELSE CASE Trend = "up" -> "improving" [] Trend = "down" -> "declining"
                 [] Trend = "stable" -> "stable"

\* compute_by_subject's arrow: the second half of four grades or more against
\* the first, by 0.3.
SubjectTrend(s) ==
    LET own == OfSubject(Current, s)
        early == Oldest(own, Cardinality(own) \div 2)
        late == own \ early
        pairs == Cardinality(early) * Cardinality(late)
        rise == 10 * (Total(late) * Cardinality(early) - Total(early) * Cardinality(late))
    IN IF Cardinality(own) < 4 THEN "flat"
       ELSE IF rise >= 3 * pairs THEN "up" ELSE IF rise <= -3 * pairs THEN "down" ELSE "flat"

\* compute_trend_by_subject: a point a week; the chart's limit of eight
\* subjects is left out, and the days below are of different weeks.
OfDay(grades, d) == {i \in grades : records[i].day = d}
WeekAverages(s) ==
    LET own == OfSubject(Current, s)
    IN {Average(OfDay(own, d)) : d \in {records[i].day : i \in own}}

\* The cards, at most one each: max and min of the table of compute_by_subject,
\* which is sorted by Better, give the first of equal subjects.
Eligible == {s \in SubjectStats(Current) : s.count >= MinSample}
FirstOfEqual(s) == \A t \in Eligible \ {s} : t.avg = s.avg => Better(s, t)
TopCard == {s \in Eligible : FirstOfEqual(s) /\ \A t \in Eligible : t.avg <= s.avg}
WorstCard == {s \in Eligible : FirstOfEqual(s) /\ \A t \in Eligible : t.avg >= s.avg}
-----------------------------------------------------------------------------
(* compute_year_report.                                                    *)

YearGrades == Numeric
OfMonth(m) == {i \in YearGrades : records[i].month = m}
MonthAverages == {Average(OfMonth(m)) : m \in {records[i].month : i \in YearGrades}}

\* The run of fives that ends with the grade at i or before it; the longest one.
StreakUpTo[i \in 0..Len(records)] ==
    IF i = 0 THEN 0
    ELSE IF i \notin YearGrades THEN StreakUpTo[i - 1]
    ELSE IF records[i].value < 5 THEN 0 ELSE StreakUpTo[i - 1] + 1
BestStreak == Max({StreakUpTo[i] : i \in 0..Len(records)})

Growth ==
    LET n == Cardinality(YearGrades)
        early == Oldest(YearGrades, n \div 3)
        late == YearGrades \ Oldest(YearGrades, n - n \div 3)
    IN IF n < GrowthSample THEN None
       ELSE Round2(Total(late) * Cardinality(early) - Total(early) * Cardinality(late),
                   Cardinality(early) * Cardinality(late))
-----------------------------------------------------------------------------
(* compute_quarters_with_forecast; quarter 5 is the year's grade.          *)

Known(s) == {q \in 1..4 : quarterly[s][q] \notin {None, Text}}
Share(s, q) == IF q \in Known(s) THEN quarterly[s][q] ELSE 0
Forecast(s) == Round2(Share(s, 1) + Share(s, 2) + Share(s, 3) + Share(s, 4), Cardinality(Known(s)))
YearValue(s) == IF quarterly[s][5] \notin {None, Text} THEN 100 * quarterly[s][5]
                ELSE IF Known(s) = {} THEN None ELSE Forecast(s)
IsForecast(s) == quarterly[s][5] \in {None, Text} /\ Known(s) # {}
QuarterTrend(s) ==
    LET last == quarterly[s][Max(Known(s))]
        first == quarterly[s][Min(Known(s))]
    IN IF Cardinality(Known(s)) < 2 \/ last = first THEN "flat"
       ELSE IF last > first THEN "up" ELSE "down"
-----------------------------------------------------------------------------
SummaryInit ==
    /\ records = <<>>
    /\ quarterly = [s \in Subjects |-> [q \in 1..5 |-> None]]

NoQuarters == \A s \in Subjects, q \in 1..5 : quarterly[s][q] = None
Recorded == Cardinality({r \in Subjects \X (1..5) : quarterly[r[1]][r[2]] # None})

\* Day 0 is of the previous period, day 1 of the current one and of the same
\* month, day 2 of the month after.
Grade(s, v, day) ==
    /\ NoQuarters /\ Len(records) < MaxRecords
    /\ records # <<>> => day >= records[Len(records)].day
    /\ records' = Append(records, [subject |-> s, value |-> v, day |-> day,
                                   current |-> day >= 1, month |-> day \div 2])
    /\ UNCHANGED quarterly

QuarterGrade(s, q, v) ==
    /\ records = <<>> /\ quarterly[s][q] = None /\ Recorded < MaxRecords
    /\ quarterly' = [quarterly EXCEPT ![s][q] = v]
    /\ UNCHANGED records

SummaryNext ==
    \E s \in Subjects, v \in Points \cup {Text} :
        \/ \E day \in 0..2 : Grade(s, v, day)
        \/ \E q \in 1..5 : QuarterGrade(s, q, v)

SummarySpec == SummaryInit /\ [][SummaryNext]_summaryVars
-----------------------------------------------------------------------------
SummaryTypeOK ==
    /\ records \in Seq([subject : Subjects, value : Points \cup {Text}, day : 0..2,
                        current : BOOLEAN, month : 0..1])
    /\ Len(records) <= MaxRecords
    /\ quarterly \in [Subjects -> [1..5 -> Points \cup {Text, None}]]

\* The status line worries exactly when the card of the worst subject shows a
\* problem, and the first problem is that subject, and the first of the best is
\* the best one's card.
StatusFitsCards ==
    /\ Status = "concern" <=> \E s \in WorstCard : s.avg <= Problem
    /\ Status = "concern" => WorstCard = {FirstOf(ProblemSubjects(Current), Worse)}
    /\ TopSubjects(Current) # {} => TopCard = {FirstOf(TopSubjects(Current), Better)}
    /\ TopSubjects(Current) \cap ProblemSubjects(Current) = {}

\* When the year is the period, its average and its lists are the dashboard's.
YearFitsPeriod ==
    Previous = {} =>
        /\ Average(YearGrades) = Average(Current)
        /\ ProblemSubjects(YearGrades) = ProblemSubjects(Current)

\* An average lies between those of its parts: of the months, of the subjects,
\* of the weeks, of the quarters.
Between(avg, parts) == (\E p \in parts : p <= avg) /\ (\E p \in parts : p >= avg)
AveragesLieBetween ==
    /\ YearGrades # {} => /\ Between(Average(YearGrades), MonthAverages)
                          /\ Between(Average(YearGrades), {s.avg : s \in SubjectStats(YearGrades)})
    /\ \A s \in SubjectStats(Current) : Between(s.avg, WeekAverages(s.name))
    /\ \A s \in Subjects : IsForecast(s) =>
           Between(YearValue(s), {100 * quarterly[s][q] : q \in Known(s)})

\* A rise or a fall is seen only where both periods have enough grades or some
\* later grade is the better or the worse one, and with all fives there is no
\* fall and no growth.
TrendsAreEarned ==
    /\ Trend # "stable" => Cardinality(Current) >= MinSample /\ Cardinality(Previous) >= MinSample
    /\ BestStreak = Cardinality(YearGrades) /\ Growth # None => Growth = 0
    /\ \A s \in Subjects :
           LET own == OfSubject(Current, s) IN
           /\ SubjectTrend(s) = "up" =>
                  \E i, j \in own : i < j /\ records[i].value < records[j].value
           /\ SubjectTrend(s) = "down" =>
                  \E i, j \in own : i < j /\ records[i].value > records[j].value
           /\ QuarterTrend(s) # "flat" => Cardinality(Known(s)) >= 2

\* The blocks of the dashboard agree with each other on every history and
\* quarter table (webapp/app.py 182-690): the status line with the cards, the
\* report of the year with the summary, every average with its parts, and the
\* trends with the samples they need.
ScreensAgree == StatusFitsCards /\ YearFitsPeriod /\ AveragesLieBetween /\ TrendsAreEarned
=============================================================================
