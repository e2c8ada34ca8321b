----------------------------- MODULE Dashboard -----------------------------
(***************************************************************************)
(* The dashboard's conditional request (webapp/app.py 712-907).  The page  *)
(* keeps one answer with its ETag and sends the tag along; the server      *)
(* computes today's tag first and says 304 when it is the same, otherwise  *)
(* it reads the data and answers with the tag computed before.  The tag is *)
(* made of the newest stamp and the number of grades in grade_history and  *)
(* of quarter grades, of some fields of the student and of the parent, and *)
(* of a bucket of six hours.  The answer holds more: the grades of the     *)
(* archive too, fields the tag has not, and a period cut by the server's   *)
(* own clock.  Meanwhile the monitor adds, changes and removes grades, the *)
(* importer adds old ones, the weekly run moves the oldest to the archive, *)
(* and two threads store quarter grades.                                   *)
(*                                                                         *)
(* One parent, one student and one length of the period (a year: it shows  *)
(* the archive).  A stamp is a number that grows with every write, and a   *)
(* row is its stamp: every write is taken to change what is shown.  An     *)
(* importer that looked before the archive moved a row is GradeArchive's.  *)
(* It starts in the evening; what the next day adds, its grades and the    *)
(* import of this day, is beyond it.                                       *)
(***************************************************************************)
EXTENDS Naturals, FiniteSets, FiniteSetsExt

CONSTANTS
    Todays,       \* entries (subject and date) of the first day
    Earlier,      \* entries of the days before
    Aged,         \* those of them the archive has still to take
    QuarterCells, \* (subject, quarter) of a quarter grade
    Profiles,     \* spreadsheet, year and name of the student, language and name of the parent
    Faces,        \* what else is shown: the role, the name behind an empty one, the years to choose
    ServerIsUtc,  \* the server's clock is not set to Tashkent's
    Nothing,      \* no row
    MaxStamps,    \* bound: writes to the tables of grades
    MaxUnits      \* bound: time

ASSUME DashboardAssumption ==
    /\ Nothing \notin Nat /\ MaxStamps \in Nat /\ MaxUnits \in Nat /\ MaxUnits >= 4
    /\ Todays \cap Earlier = {} /\ IsFiniteSet(Todays \cup Earlier) /\ Aged \subseteq Earlier
    /\ IsFiniteSet(QuarterCells) /\ ServerIsUtc \in BOOLEAN

VARIABLES
    grades,     \* the student's grades in either table: the stamp of each row, or Nothing
    shelved,    \* entries the week's run has moved to grade_history_archive
    quarters,   \* quarter_grades of the student, likewise
    storing,    \* the open transaction of each thread that stores quarter grades
    profile, face,
    serial,     \* stamps so far
    today,      \* day of Tashkent's clock
    hours,      \* part of the day: 0-5, 5-6, 6-12, 12-18, 18-24
    page,       \* the page's copy: [tag, body], or Nothing
    request,    \* the request being served
    happened,   \* ghost: what befell the data since the tag of the page's copy
    pending     \* ghost: the same since the tag of the request

dashboardVars == <<grades, shelved, quarters, storing, profile, face, serial, today, hours,
                   page, request, happened, pending>>

Entries == Todays \cup Earlier
Storers == {"check", "import"}
Stamps == 0..MaxStamps
Stored(table) == {k \in DOMAIN table : table[k] # Nothing}
\* MAX and COUNT of a table.
Watermark(table) ==
    [newest |-> IF Stored(table) = {} THEN 0 ELSE Max({table[k] : k \in Stored(table)}),
     count |-> Cardinality(Stored(table))]

\* grade_history alone, which is all the tag looks at.
LiveRows == [k \in Entries |-> IF k \in shelved THEN Nothing ELSE grades[k]]

\* Six hours of Tashkent's clock.
Bucket == <<today, IF hours <= 1 THEN 0 ELSE hours>>
\* The date of the server's clock, five hours behind if it shows UTC.
ServerDay == IF ServerIsUtc /\ hours = 0 THEN today - 1 ELSE today

OthersMark == [quarters |-> Watermark(quarters), profile |-> profile, bucket |-> Bucket]
OthersShown == [quarters |-> quarters, profile |-> profile, face |-> face,
                day |-> today, period |-> ServerDay]
-----------------------------------------------------------------------------
DashboardInit ==
    /\ \E old \in SUBSET Earlier : grades = [k \in Entries |-> IF k \in old THEN 0 ELSE Nothing]
    /\ shelved = {}
    /\ quarters = [c \in QuarterCells |-> 0]
    /\ storing = [s \in Storers |-> Nothing]
    /\ profile \in Profiles /\ face \in Faces
    /\ serial = 0 /\ today = 0 /\ hours = 4
    /\ page = Nothing /\ request = [at |-> "idle"]
    /\ happened = {} /\ pending = {}

Others == <<quarters, storing, profile, face, today, hours>>
Server == <<page, request>>
Excuses == <<happened, pending>>

\* A plain write and a change of the profile matter only between the tag and the
\* body of one answer; what the tag does not hold, only after it.
Note(event) ==
    /\ happened' = IF page = Nothing THEN {} ELSE happened \cup ({event} \ {"write", "profile"})
    /\ pending' = IF request.at = "idle" THEN {} ELSE pending \cup ({event} \ {"face"})
NextSerial == serial < MaxStamps /\ serial' = serial + 1

\* add_grade and update_grade_by_content stamp the row with the present.
MonitorWrites(k) ==
    /\ k \in Todays /\ today = 0 /\ NextSerial /\ grades' = [grades EXCEPT ![k] = serial']
    /\ Note("write")
    /\ UNCHANGED <<shelved, Others, Server>>

\* _drop_removed_grades.
MonitorDrops(k) ==
    /\ k \in Todays /\ today = 0 /\ k \in Stored(grades)
    /\ grades' = [grades EXCEPT ![k] = Nothing]
    /\ Note("drop")
    /\ UNCHANGED <<shelved, serial, Others, Server>>

\* A grade of an earlier day that is in neither table, stamped with its day's noon.
ImporterAdds(k) ==
    /\ k \in Earlier \ Stored(grades)
    /\ grades' = [grades EXCEPT ![k] = 0]
    /\ Note("import")
    /\ UNCHANGED <<shelved, serial, Others, Server>>

\* archive_old_grades, at three in the morning: one transaction, once a week.
ArchiveMoves ==
    /\ hours = 0 /\ shelved = {} /\ Aged \cap Stored(grades) # {}
    /\ shelved' = Aged \cap Stored(grades)
    /\ Note("archive")
    /\ UNCHANGED <<grades, serial, Others, Server>>

\* upsert_quarter_grade: now() is the beginning of the transaction.
QuarterBegins(s, c) ==
    /\ storing[s] = Nothing /\ NextSerial
    /\ storing' = [storing EXCEPT ![s] = [cell |-> c, stamp |-> serial']]
    /\ UNCHANGED <<grades, shelved, quarters, profile, face, today, hours, Server, Excuses>>

QuarterCommits(s) ==
    /\ storing[s] # Nothing
    /\ quarters' = [quarters EXCEPT ![storing[s].cell] = storing[s].stamp]
    /\ storing' = [storing EXCEPT ![s] = Nothing]
    /\ IF storing[s].stamp < Watermark(quarters).newest THEN Note("overlap") ELSE UNCHANGED Excuses
    /\ UNCHANGED <<grades, shelved, profile, face, serial, today, hours, Server>>

\* A plain value, which may change and change back.
ProfileChanges ==
    /\ profile' \in Profiles \ {profile}
    /\ Note("profile")
    /\ UNCHANGED <<grades, shelved, quarters, storing, face, serial, today, hours, Server>>

FaceChanges ==
    /\ face' \in Faces \ {face}
    /\ Note("face")
    /\ UNCHANGED <<grades, shelved, quarters, storing, profile, serial, today, hours, Server>>

TimePasses ==
    /\ 5 * today + hours < MaxUnits
    /\ IF hours = 4 THEN today' = today + 1 /\ hours' = 0
                    ELSE today' = today /\ hours' = hours + 1
    /\ UNCHANGED <<grades, shelved, quarters, storing, profile, face, serial, Server, Excuses>>
-----------------------------------------------------------------------------
(* A request, one query after the other.                                   *)

Database == <<grades, shelved, serial, Others>>

\* Of a parent with access: without it the answer is 403 or 402 and the page
\* keeps what it has.
Opens ==
    /\ request.at = "idle"
    /\ request' = [at |-> "tag", grades |-> Watermark(LiveRows)]
    /\ UNCHANGED <<Database, page, Excuses>>

TagComputed == [grades |-> request.grades, others |-> OthersMark]

NotModified ==
    /\ request.at = "tag" /\ page # Nothing /\ page.tag = TagComputed
    /\ request' = [at |-> "idle"] /\ pending' = {}
    /\ UNCHANGED <<Database, page, happened>>

Modified ==
    /\ request.at = "tag" /\ (page # Nothing => page.tag # TagComputed)
    /\ request' = [at |-> "body", tag |-> TagComputed]
    /\ UNCHANGED <<Database, page, Excuses>>

ReadGrades ==
    /\ request.at = "body"
    /\ request' = [at |-> "rest", tag |-> request.tag, body |-> grades]
    /\ UNCHANGED <<Database, page, Excuses>>

\* Deviation: the answer carries the tag of the moment it is sent.
AnswersWithLateTag ==
    /\ request.at = "rest"
    /\ page' = [tag |-> [grades |-> Watermark(LiveRows), others |-> OthersMark],
                body |-> [grades |-> request.body, others |-> OthersShown]]
    /\ request' = [at |-> "idle"]
    /\ happened' = pending /\ pending' = {} /\ UNCHANGED Database

Answers ==
    /\ request.at = "rest"
    /\ page' = [tag |-> request.tag, body |-> [grades |-> request.body, others |-> OthersShown]]
    /\ request' = [at |-> "idle"]
    /\ happened' = pending /\ pending' = {} /\ UNCHANGED Database

DashboardNext ==
    \/ \E k \in Entries : MonitorWrites(k) \/ MonitorDrops(k) \/ ImporterAdds(k)
    \/ ArchiveMoves
    \/ \E s \in Storers : QuarterCommits(s) \/ \E c \in QuarterCells : QuarterBegins(s, c)
    \/ ProfileChanges \/ FaceChanges \/ TimePasses
    \/ Opens \/ NotModified \/ Modified \/ ReadGrades \/ Answers

DashboardSpec == DashboardInit /\ [][DashboardNext]_dashboardVars
-----------------------------------------------------------------------------
Watermarks == [newest : Stamps, count : Nat]
Buckets == Nat \X (0..4)
Tags == [grades : Watermarks, others : [quarters : Watermarks, profile : Profiles, bucket : Buckets]]
Events == {"write", "drop", "import", "archive", "overlap", "profile", "face"}

DashboardTypeOK ==
    /\ grades \in [Entries -> Stamps \cup {Nothing}]
    /\ shelved \subseteq Aged \cap Stored(grades)
    /\ quarters \in [QuarterCells -> Stamps \cup {Nothing}]
    /\ storing \in [Storers -> [cell : QuarterCells, stamp : Stamps] \cup {Nothing}]
    /\ profile \in Profiles /\ face \in Faces
    /\ serial \in Stamps /\ today \in Nat /\ hours \in 0..4 /\ 5 * today + hours <= MaxUnits
    /\ page # Nothing => page.tag \in Tags
    /\ request.at \in {"idle", "tag", "body", "rest"}
    /\ happened \cup pending \subseteq Events
    /\ request.at \in {"body", "rest"} => request.tag \in Tags

TagNow == [grades |-> Watermark(LiveRows), others |-> OthersMark]

\* What the tag misses of the grades: a row gone for a row that came.
Undone == \/ "drop" \in happened /\ happened \cap {"import", "write"} # {}
          \/ {"archive", "import"} \subseteq happened

\* "Not modified" is true (app 712-776, 796-803): while the tag the server
\* would compute now is the page's, the page shows what the server would answer
\* now, however requests and writes interleave.  The exceptions, each of one
\* part of the page: grades after a removal, or the archive's run, that made up
\* for an import (a removal also for a write that fell between the tag and the
\* body); quarter grades stored in transactions that overlap; a profile changed
\* between the tag and the body and back later; what is in no tag; and, if the
\* server's clock is UTC, the bounds of the period from five to six.  The first
\* contradicts app 716-717, for which every INSERT changes the tag.
NotModifiedIsTrue ==
    page # Nothing /\ page.tag = TagNow =>
        LET shown == page.body.others IN
        /\ page.body.grades = grades \/ Undone
        /\ shown.quarters = quarters \/ "overlap" \in happened
        /\ shown.profile = profile \/ "profile" \in happened
        /\ shown.face = face \/ "face" \in happened
        /\ shown.day = today
        /\ shown.period = ServerDay \/ (ServerIsUtc /\ hours = 1)
=============================================================================
