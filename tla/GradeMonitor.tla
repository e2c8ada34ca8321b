---------------------------- MODULE GradeMonitor ----------------------------
(***************************************************************************)
(* The polling thread of src/src/monitor_engine.py and the outbox it keeps *)
(* in grade_history.notified_at: sweep what earlier cycles failed to       *)
(* announce, fetch today's column of every diary, compare each cell with   *)
(* the stored row, confirm a change on a second sighting, write it, send   *)
(* it to every parent, and only then mark the row notified.  Around it     *)
(* the teacher edits the diary, families change and subscriptions lapse;   *)
(* calls fail and the process dies between any two steps.                  *)
(*                                                                         *)
(* A key is one (student, subject) of today's column.  grade_history holds *)
(* at most one row for it while only the monitor writes today's rows, so   *)
(* the table is a function; text[k] = Blank means there is no row.         *)
(***************************************************************************)
EXTENDS GradeCells

CONSTANTS
    Students,     \* ids, in the order of ORDER BY student_id
    Subjects,
    Parents,      \* parents with a telegram_id
    Cells,        \* the non-blank cells sanitize_cell can read
    Garbage,      \* a cell sanitize_cell rejects
    NoStudent,
    Unreachable,  \* parents whose chat refuses every message (HTTP 400/403)
    Ttl,          \* polling cycles that fit into _PENDING_TTL_SECONDS
    SweepLimit,   \* LIMIT of get_unnotified_grades
    MaxEdits,     \* bound: edits by teachers, families and payments
    MaxFaults,    \* bound: failed calls and crashes
    MaxEvents     \* bound: both together

ASSUME StudentsAssumption == Students \subseteq Nat /\ NoStudent \notin Students
ASSUME CellsAssumption ==
    /\ \A c \in Cells : c \in Seq(Nat) /\ c # Blank
    /\ Garbage \notin Cells /\ Garbage # Blank
ASSUME BoundsAssumption ==
    /\ Ttl \in Nat \ {0} /\ SweepLimit \in Nat
    /\ MaxEdits \in Nat /\ MaxFaults \in Nat /\ MaxEvents \in Nat
ASSUME UnreachableAssumption == Unreachable \subseteq Parents

Keys == Students \X Subjects
KeysOf(s) == {k \in Keys : k[1] = s}

VARIABLES
    \* the world outside the process
    sheet,      \* what the diary shows today
    linked,     \* [Students -> SUBSET Parents], family_links
    active,     \* students with a subscription and a sheet of this school year
    edits,
    \* grade_history
    text,       \* raw_text of the row, Blank for no row
    notified,   \* notified_at IS NOT NULL
    \* the memory of the process
    pending,    \* _pending_grades, with the age of an entry in cycles
    pc,         \* where the polling thread is
    swept,      \* outbox rows the sweeper has still to handle
    polled,     \* fetched students still to process
    column,     \* today's column as it was fetched
    cur,        \* student being processed
    todo,       \* cells of cur still to compare
    written,    \* rows of the batch to mark once it is delivered
    recipients, \* parent_grades: [Parents -> SUBSET Keys]
    waiting,    \* parents of the batch not sent to yet
    delivered,  \* all_delivered so far
    \* bookkeeping of the model
    owed,       \* [Keys -> SUBSET Parents]: who must still hear of the row
    faults

world == <<sheet, linked, active, edits>>
table == <<text, notified>>
cycle == <<pc, swept, polled, column, cur, todo, written, recipients, waiting, delivered>>
vars == <<world, table, pending, cycle, owed, faults>>

NoPending == [cell |-> Blank, age |-> 0]
NoBatch == [p \in Parents |-> {}]
BlankColumn == [k \in Keys |-> Blank]

TypeOK ==
    /\ sheet \in [Keys -> Cells \cup {Blank, Garbage}]
    /\ linked \in [Students -> SUBSET Parents]
    /\ active \in SUBSET Students
    /\ edits \in Nat
    /\ text \in [Keys -> Cells \cup {Blank}]
    /\ notified \in [Keys -> BOOLEAN]
    /\ pending \in [Keys -> [cell : Cells \cup {Blank}, age : 0..Ttl]]
    /\ pc \in {"idle", "sweep", "sweepSend", "sweepMark", "fetch", "pick",
               "process", "send", "mark"}
    /\ swept \in SUBSET Keys
    /\ polled \in SUBSET Students
    /\ column \in [Keys -> Cells \cup {Blank, Garbage}]
    /\ cur \in Students \cup {NoStudent}
    /\ todo \in SUBSET Keys
    /\ written \in SUBSET Keys
    /\ recipients \in [Parents -> SUBSET Keys]
    /\ waiting \in SUBSET Parents
    /\ delivered \in BOOLEAN
    /\ owed \in [Keys -> SUBSET Parents]
    /\ faults \in Nat

Init ==
    /\ sheet = BlankColumn
    /\ linked = [s \in Students |-> Parents]
    /\ active = Students
    /\ edits = 0
    /\ text = BlankColumn
    /\ notified = [k \in Keys |-> FALSE]
    /\ pending = [k \in Keys |-> NoPending]
    /\ pc = "idle"
    /\ swept = {} /\ polled = {} /\ column = BlankColumn /\ cur = NoStudent
    /\ todo = {} /\ written = {} /\ recipients = NoBatch /\ waiting = {}
    /\ delivered = TRUE
    /\ owed = [k \in Keys |-> {}]
    /\ faults = 0
-----------------------------------------------------------------------------
(* The world outside the process. *)

MayEdit == edits < MaxEdits /\ edits + faults < MaxEvents
MayFail == faults < MaxFaults /\ edits + faults < MaxEvents

TeacherEdits(k) ==
    /\ MayEdit
    /\ edits' = edits + 1
    /\ \E c \in Cells \cup {Blank, Garbage} :
          c # sheet[k] /\ sheet' = [sheet EXCEPT ![k] = c]
    /\ UNCHANGED <<linked, active, table, pending, cycle, owed, faults>>

ParentJoins(s, p) ==
    /\ MayEdit
    /\ edits' = edits + 1
    /\ p \notin linked[s]
    /\ linked' = [linked EXCEPT ![s] = @ \cup {p}]
    /\ UNCHANGED <<sheet, active, table, pending, cycle, owed, faults>>

\* A parent taken out of the family is owed nothing any more.
ParentLeaves(s, p) ==
    /\ MayEdit
    /\ edits' = edits + 1
    /\ p \in linked[s]
    /\ linked' = [linked EXCEPT ![s] = @ \ {p}]
    /\ owed' = [k \in Keys |-> IF k \in KeysOf(s) THEN owed[k] \ {p} ELSE owed[k]]
    /\ UNCHANGED <<sheet, active, table, pending, cycle, faults>>

SubscriptionChanges(s) ==
    /\ MayEdit
    /\ edits' = edits + 1
    /\ active' = IF s \in active THEN active \ {s} ELSE active \cup {s}
    /\ UNCHANGED <<sheet, linked, table, pending, cycle, owed, faults>>

World ==
    \/ \E k \in Keys : TeacherEdits(k)
    \/ \E s \in Students, p \in Parents : ParentJoins(s, p) \/ ParentLeaves(s, p)
    \/ \E s \in Students : SubscriptionChanges(s)
-----------------------------------------------------------------------------
(* The sweeper: rows of the outbox that earlier cycles did not deliver. *)

Outbox == {k \in Keys : text[k] # Blank /\ ~notified[k]}

\* Mutant: the monitor without its sweeper.
SweepNothing(rows) == {{}}

\* get_unnotified_grades: the first SweepLimit rows, ordered by student.
SweepBatch(rows) ==
    {b \in SUBSET rows :
        /\ Cardinality(b) = IF Cardinality(rows) < SweepLimit
                            THEN Cardinality(rows) ELSE SweepLimit
        /\ \A k \in b, j \in rows \ b : k[1] <= j[1]}

\* Mutant: the expiry test is off by one.
AgedOneTooFew(entry) ==
    IF entry.cell = Blank \/ entry.age > Ttl
    THEN NoPending ELSE [entry EXCEPT !.age = @ + 1]

\* One more cycle has passed for the entries of _pending_grades.
Aged(entry) ==
    IF entry.cell = Blank \/ entry.age + 1 > Ttl
    THEN NoPending ELSE [entry EXCEPT !.age = @ + 1]

StartCycle ==
    /\ pc = "idle"
    /\ pending' = [k \in Keys |-> Aged(pending[k])]
    /\ IF active = {}
       THEN UNCHANGED <<cycle, faults>>
       ELSE /\ \/ swept' \in SweepBatch(Outbox) /\ UNCHANGED faults
               \/ MayFail /\ swept' = {} /\ faults' = faults + 1
            /\ polled' = active
            /\ pc' = "sweep"
            /\ UNCHANGED <<column, cur, todo, written, recipients, waiting, delivered>>
    /\ UNCHANGED <<world, table, owed>>

SweepStudent(s) ==
    /\ pc = "sweep"
    /\ \E k \in swept : k[1] = s
    /\ \A k \in swept : s <= k[1]
    /\ swept' = swept \ KeysOf(s)
    /\ LET rows == swept \cap KeysOf(s)
       IN \/ /\ written' = rows
             /\ waiting' = linked[s]
             /\ recipients' = [p \in Parents |-> IF p \in linked[s] THEN rows ELSE {}]
             /\ delivered' = TRUE
             /\ pc' = "sweepSend"
             /\ UNCHANGED faults
          \/ \* get_parents_for_student raised: next student
             /\ MayFail
             /\ faults' = faults + 1
             /\ UNCHANGED <<pc, written, waiting, recipients, delivered>>
    /\ UNCHANGED <<world, table, pending, polled, column, cur, todo, owed>>

SweepEnds ==
    /\ pc = "sweep"
    /\ swept = {}
    /\ pc' = "fetch"
    /\ UNCHANGED <<world, table, pending, swept, polled, column, cur, todo, written,
                   recipients, waiting, delivered, owed, faults>>
-----------------------------------------------------------------------------
(* Sending a batch and marking its rows, for the sweeper and for the       *)
(* student being processed.                                                *)

\* Sender.send returned True: sent, queued for the morning, or skipped for
\* a parent who asked for summaries only.
SendSucceeds(p) ==
    /\ pc \in {"sweepSend", "send"}
    /\ p \in waiting \ Unreachable
    /\ waiting' = waiting \ {p}
    /\ owed' = [k \in Keys |-> IF k \in recipients[p] THEN owed[k] \ {p} ELSE owed[k]]
    /\ UNCHANGED <<world, table, pending, pc, swept, polled, column, cur, todo,
                   written, recipients, delivered, faults>>

SendFails(p) ==
    /\ pc \in {"sweepSend", "send"}
    /\ p \in waiting
    /\ p \in Unreachable \/ MayFail
    /\ faults' = IF p \in Unreachable THEN faults ELSE faults + 1
    /\ waiting' = waiting \ {p}
    /\ delivered' = FALSE
    /\ UNCHANGED <<world, table, pending, pc, swept, polled, column, cur, todo,
                   written, recipients, owed>>

\* Where the thread goes on after the batch it sends or marks.
AfterBatch == IF pc \in {"sweepSend", "sweepMark"} THEN "sweep" ELSE "pick"

\* Mutant: the rows are marked whether or not every send succeeded.
DispatchEndsUnchecked ==
    /\ pc \in {"sweepSend", "send"}
    /\ waiting = {}
    /\ recipients' = NoBatch
    /\ pc' = IF pc = "sweepSend" THEN "sweepMark" ELSE "mark"
    /\ UNCHANGED <<world, table, pending, swept, polled, column, cur, todo, written,
                   waiting, delivered, owed, faults>>

DispatchEnds ==
    /\ pc \in {"sweepSend", "send"}
    /\ waiting = {}
    /\ recipients' = NoBatch
    /\ IF delivered
       THEN /\ pc' = IF pc = "sweepSend" THEN "sweepMark" ELSE "mark"
            /\ UNCHANGED <<written, delivered>>
       ELSE pc' = AfterBatch /\ written' = {} /\ delivered' = TRUE
    /\ UNCHANGED <<world, table, pending, swept, polled, column, cur, todo, waiting,
                   owed, faults>>

\* mark_grade_notified(_by_content): an exception is logged and swallowed,
\* the row stays in the outbox.
MarkNotified(k) ==
    /\ pc \in {"sweepMark", "mark"}
    /\ k \in written
    /\ written' = written \ {k}
    /\ pc' = IF written' = {} THEN AfterBatch ELSE pc
    /\ \/ notified' = [notified EXCEPT ![k] = (text[k] # Blank)] /\ UNCHANGED faults
       \/ MayFail /\ faults' = faults + 1 /\ UNCHANGED notified
    /\ UNCHANGED <<world, text, pending, swept, polled, column, cur, todo, recipients,
                   waiting, delivered, owed>>
-----------------------------------------------------------------------------
(* Reading the diaries. *)

\* Every student's sheet is one API call; a failed one drops the student
\* out of this cycle.
Fetch ==
    /\ pc = "fetch"
    /\ \E lost \in SUBSET polled :
          /\ lost # {} => MayFail
          /\ faults' = IF lost = {} THEN faults ELSE faults + 1
          /\ polled' = polled \ lost
          /\ column' = [k \in Keys |-> IF k[1] \in polled \ lost THEN sheet[k] ELSE Blank]
    /\ pc' = "pick"
    /\ UNCHANGED <<world, table, pending, swept, cur, todo, written, recipients,
                   waiting, delivered, owed>>

\* A column with nothing in it is skipped as a whole.
PickStudent(s) ==
    /\ pc = "pick"
    /\ s \in polled
    /\ polled' = polled \ {s}
    /\ LET filled == {k \in KeysOf(s) : column[k] # Blank}
       IN IF filled = {}
          THEN UNCHANGED <<pc, cur, todo>>
          ELSE pc' = "process" /\ cur' = s /\ todo' = filled
    /\ UNCHANGED <<world, table, pending, swept, column, written, recipients, waiting,
                   delivered, owed, faults>>

EndCycle ==
    /\ pc = "pick"
    /\ polled = {}
    /\ pc' = "idle"
    /\ column' = BlankColumn
    /\ UNCHANGED <<world, table, pending, swept, polled, cur, todo, written, recipients,
                   waiting, delivered, owed, faults>>
-----------------------------------------------------------------------------
(* Comparing one cell with the stored row. *)

Comparing(k) ==
    /\ pc = "process"
    /\ k \in todo
    /\ todo' = todo \ {k}
    /\ UNCHANGED <<world, pc, swept, polled, column, cur, waiting, delivered, faults>>

Changed(k) == column[k] # Garbage /\ column[k] # text[k]

CellUnchanged(k) ==
    /\ Comparing(k)
    /\ ~Changed(k)
    /\ UNCHANGED <<table, pending, written, recipients, owed>>

\* Mutant: the silent update resets notified_at like the other one.
CellTrimmedReopens(k) ==
    /\ Comparing(k)
    /\ Changed(k)
    /\ ~AddsGrade(text[k], column[k])
    /\ text[k] # Blank
    /\ text' = [text EXCEPT ![k] = column[k]]
    /\ notified' = [notified EXCEPT ![k] = FALSE]
    /\ UNCHANGED <<pending, written, recipients, owed>>

\* Marks were erased or reordered and none added: the row follows silently.
CellTrimmed(k) ==
    /\ Comparing(k)
    /\ Changed(k)
    /\ ~AddsGrade(text[k], column[k])
    /\ text[k] # Blank
    /\ text' = [text EXCEPT ![k] = column[k]]
    /\ UNCHANGED <<notified, pending, written, recipients, owed>>

\* Mutant: a pending value is not replaced when the cell changes.
CellPendingKeepsFirst(k) ==
    /\ Comparing(k)
    /\ Changed(k)
    /\ AddsGrade(text[k], column[k])
    /\ pending[k].cell # column[k]
    /\ pending' = IF pending[k] = NoPending
                  THEN [pending EXCEPT ![k] = [cell |-> column[k], age |-> 0]] ELSE pending
    /\ UNCHANGED <<table, written, recipients, owed>>

\* _check_pending_confirmation answered False.
CellPending(k) ==
    /\ Comparing(k)
    /\ Changed(k)
    /\ AddsGrade(text[k], column[k])
    /\ pending[k].cell # column[k]
    /\ pending' = [pending EXCEPT ![k] = [cell |-> column[k], age |-> 0]]
    /\ UNCHANGED <<table, written, recipients, owed>>

\* Mutant: the update of an existing row leaves notified_at as it was.
CellConfirmedKeepsMark(k) ==
    /\ Comparing(k)
    /\ Changed(k)
    /\ AddsGrade(text[k], column[k])
    /\ pending[k].cell = column[k]
    /\ pending' = [pending EXCEPT ![k] = NoPending]
    /\ text' = [text EXCEPT ![k] = column[k]]
    /\ UNCHANGED notified
    /\ written' = written \cup {k}
    /\ recipients' = [p \in Parents |-> IF p \in linked[k[1]]
                                        THEN recipients[p] \cup {k} ELSE recipients[p]]
    /\ owed' = [owed EXCEPT ![k] = linked[k[1]]]

\* Second sighting: the row is written with notified_at = NULL.
CellConfirmed(k) ==
    /\ Comparing(k)
    /\ Changed(k)
    /\ AddsGrade(text[k], column[k])
    /\ pending[k].cell = column[k]
    /\ pending' = [pending EXCEPT ![k] = NoPending]
    /\ text' = [text EXCEPT ![k] = column[k]]
    /\ notified' = [notified EXCEPT ![k] = FALSE]
    /\ written' = written \cup {k}
    /\ recipients' = [p \in Parents |-> IF p \in linked[k[1]]
                                        THEN recipients[p] \cup {k} ELSE recipients[p]]
    /\ owed' = [owed EXCEPT ![k] = linked[k[1]]]

\* Mutant: grades erased by the teacher stay in the history.
FinishStudentKeepsErased ==
    /\ pc = "process"
    /\ todo = {}
    /\ waiting' = {p \in Parents : recipients[p] # {}}
    /\ pc' = IF written = {} THEN "pick" ELSE "send"
    /\ cur' = NoStudent
    /\ UNCHANGED <<world, table, pending, swept, polled, column, todo, written, recipients,
                   delivered, owed, faults>>

\* _drop_removed_grades: stored rows of cur the filled column no longer shows.
Gone == {k \in KeysOf(cur) : column[k] = Blank /\ text[k] # Blank}

\* The rows gone from the sheet are deleted, then the batch of the student
\* goes out.
FinishStudent ==
    /\ pc = "process"
    /\ todo = {}
    /\ \/ /\ text' = [k \in Keys |-> IF k \in Gone THEN Blank ELSE text[k]]
          /\ notified' = [k \in Keys |-> IF k \in Gone THEN FALSE ELSE notified[k]]
          /\ owed' = [k \in Keys |-> IF k \in Gone THEN {} ELSE owed[k]]
          /\ UNCHANGED faults
       \/ \* the rows could not be read: nothing is deleted this time
          /\ Gone # {} /\ MayFail /\ faults' = faults + 1
          /\ UNCHANGED <<table, owed>>
    /\ waiting' = {p \in Parents : recipients[p] # {}}
    /\ pc' = IF written = {} THEN "pick" ELSE "send"
    /\ cur' = NoStudent
    /\ UNCHANGED <<world, pending, swept, polled, column, todo, written, recipients,
                   delivered>>
-----------------------------------------------------------------------------
(* Exceptions that leave the cycle, and the death of the process. *)

ForgetCycle ==
    /\ pc' = "idle" /\ swept' = {} /\ polled' = {} /\ column' = BlankColumn
    /\ cur' = NoStudent /\ todo' = {} /\ written' = {} /\ recipients' = NoBatch
    /\ waiting' = {} /\ delivered' = TRUE

\* start_polling catches it: the rest of the cycle is lost, memory stays.
CycleAborts ==
    /\ pc \in {"fetch", "pick", "process", "send"}
    /\ MayFail
    /\ faults' = faults + 1
    /\ ForgetCycle
    /\ UNCHANGED <<world, table, pending, owed>>

\* The write of a confirmed grade raises after _check_pending_confirmation has
\* dropped its entry: the grade has to be sighted twice again.
WriteFails(k) ==
    /\ pc = "process"
    /\ k \in todo
    /\ Changed(k) /\ AddsGrade(text[k], column[k]) /\ pending[k].cell = column[k]
    /\ MayFail
    /\ faults' = faults + 1
    /\ pending' = [pending EXCEPT ![k] = NoPending]
    /\ ForgetCycle
    /\ UNCHANGED <<world, table, owed>>

\* The sweeper catches it: the next student's rows are tried.
SweepDispatchAborts ==
    /\ pc = "sweepSend"
    /\ MayFail
    /\ faults' = faults + 1
    /\ pc' = "sweep" /\ written' = {} /\ recipients' = NoBatch
    /\ waiting' = {} /\ delivered' = TRUE
    /\ UNCHANGED <<world, table, pending, swept, polled, column, cur, todo, owed>>

Crash ==
    /\ MayFail
    /\ faults' = faults + 1
    /\ ForgetCycle
    /\ pending' = [k \in Keys |-> NoPending]
    /\ UNCHANGED <<world, table, owed>>

Monitor ==
    \/ StartCycle \/ SweepEnds \/ DispatchEnds
    \/ Fetch \/ EndCycle \/ FinishStudent
    \/ \E p \in Parents : SendSucceeds(p) \/ SendFails(p)
    \/ \E s \in Students : SweepStudent(s) \/ PickStudent(s)
    \/ \E k \in Keys : CellUnchanged(k) \/ CellTrimmed(k) \/ CellPending(k)
                       \/ CellConfirmed(k) \/ MarkNotified(k)

Next ==
    \/ World \/ Monitor \/ CycleAborts \/ SweepDispatchAborts \/ Crash
    \/ \E k \in Keys : WriteFails(k)

Spec == Init /\ [][Next]_vars

\* start_polling loops for ever in a thread of its own and the supervisor
\* restarts the process; nothing else is scheduled.
FairSpec == Spec /\ WF_vars(Monitor)
-----------------------------------------------------------------------------
(* Properties *)

\* Outbox safety (migration 0003, monitor_engine 899-915): a row carries
\* notified_at only when every parent who was in the family when the grade
\* was written has been sent it or has left since, whatever failed, died or
\* was swept in between.
SettledMeansTold ==
    \A k \in Keys : text[k] # Blank /\ notified[k] => owed[k] = {}

Phase(k) ==
    CASE text[k] = Blank -> "none"
      [] text[k] # Blank /\ notified[k] -> "settled"
      [] OTHER -> "open"

Promise == INSTANCE GradePromise WITH phase <- [k \in Keys |-> Phase(k)]

\* The polling thread implements the promise: a debt is only ever created by
\* writing a grade, discharged towards one parent at a time, and a row only
\* leaves the outbox settled or withdrawn; a silent rewrite changes neither.
KeepsPromise == Promise!Spec

\* Nothing stays in the outbox (monitor_engine 631-689): as long as somebody
\* is polled again and again, every written grade is settled or withdrawn.
OutboxDrains ==
    []<>(active # {}) =>
        \A k \in Keys : Phase(k) = "open" ~> Phase(k) # "open"

\* The stored day agrees with the diary of student s: every readable cell is
\* stored and announced, and nothing is stored for a blank cell unless the
\* whole column is blank.
Mirrors(s) ==
    \A k \in KeysOf(s) :
        /\ sheet[k] \in Cells => text[k] = sheet[k] /\ notified[k]
        /\ sheet[k] = Blank /\ (\E j \in KeysOf(s) : sheet[j] # Blank) => text[k] = Blank

\* End to end: once the diaries stop changing, the day of every student with
\* a subscription is stored and announced, and stays so.
EventuallyMirrorsTheDiary == <>[](\A s \in active : Mirrors(s))
=============================================================================
