# Verification of the GradeSentinel bot

GradeSentinel watches the Google Sheets diaries of school children, tells their
parents about every new, changed or erased grade, and sells subscriptions for it
over Telegram. One Python process (`src/src/main.py`) runs a polling thread, a
scheduler thread and telebot's worker threads over one PostgreSQL database; a
web application reads the same tables and answers questions about them. This
directory holds TLA+ models of the parts of that system where interleaving,
failure and time make the code hard to get right, the TLC runs that check them
and TLAPS proofs about most of them.

Source paths below are those of the repository, `src/` being its Python package
(`src/monitor_engine.py`, `src/db/...`) and `webapp/` the web application.

## 1. Inventory

| Component | Source | State it keeps | Operations |
| --- | --- | --- | --- |
| Grade monitor and outbox | `monitor_engine.py`, `db/grades.py`, `data_cleaner.py` | `grade_history` with `notified_at`; `_pending_grades` in memory | the 5-minute cycle: sweep, fetch, compare, confirm, write, dispatch, mark |
| Quiet hours | `notifications/`, `db/notifications.py`, `schedulers.py` | two queues, job and recipient markers | defer, queue, morning flush |
| Scheduled jobs | `schedulers.py`, `handlers/analytics.py`, `db/alerts.py`, `db/settings.py` | job markers and their cache, marks per recipient, counters of AI failures | ticks, windows, summaries, warnings, alerts, digests |
| Academic year rollover | `monitor_engine.py` 260-447, `history_importer.py`, `handlers/family.py` relink | `students.academic_year`, `spreadsheet_id`, `settings` markers | daily recheck, correction, hourly and relink imports |
| Quarter grades | `monitor_engine.py` 943-1073, `history_importer.py` 480-549 | `quarter_grades` | compare, store, tell; import |
| Archive of old grades | `db/maintenance.py`, `history_importer.py` | `grade_history`, `grade_history_archive` | weekly move, look in both, store |
| Families | `handlers/family.py`, `invite.py`, `admin.py`, `db/families.py`, `invites.py`, `maintenance.py` | `families`, `family_links`, `students`, `family_invites` | create, invite, join, add, remove, delete |
| Payments | `handlers/subscription/`, `db/payments.py`, `promo.py` | `families.subscription_end`, `payments`, `promo_codes` | pre-checkout, payment, refund, promo, grant, card, cancel |
| AI chat of a parent | `handlers/ai_chat.py`, `webapp/app.py` 1434-1514, `analytics_engine.py`, `db/ai_chat.py` | `ai_chat_messages`, `user_states` | ask, retry, clear, repair, rounds of tools |
| Rate limiter | `rate_limiter.py` | moments per user | let through or refuse, sweep |
| Dashboard | `webapp/app.py`, `db/grades.py` | the page's copy and its ETag | conditional request, figures |
| Group chats | `handlers/group.py`, `db/groups.py` | `family_groups` | link, unlink, migrate |
| Menus, texts, start-up, drivers, deployment | `handlers/`, `ui.py`, `i18n.py`, `main.py`, `db/pg.py`, `google_sheets.py` | caches, pools | formatting and I/O |

**How they interact.** The monitor writes `grade_history` and sends through the
`Sender`, which sends at once or, in the quiet hours, puts the text into a queue
the scheduler empties at 07:00; the morning summary is composed from
`grade_history`, not from the queue. The importer writes the same
`grade_history` rows from threads of its own, shares `students.academic_year`
and `quarter_grades` with the monitor, and looks into the archive that the
weekly cleanup fills. Families decide who is told; subscriptions decide which
children are polled; both are changed by worker threads while a cycle is under
way. The dashboard reads what all of them wrote, and its questions to the
assistant share the stored conversation with the bot's.

**What is hard here.** (1) Every send is an external call between two database
writes: a crash or failure between any two steps must neither lose nor repeat a
notification. (2) Several kinds of threads share rows without locks; the code
reads, goes to Google, Telegram or a language model, and writes later. (3) Dates
in the sheets have no year, and links go stale every September. (4) Jobs have
six-minute windows, markers in the database and caches in memory. (5) Telegram
redelivers and refunds. `PROJECT.json` lists 40 hazards at their lines.

**What makes each part correct.** Monitor: a grade leaves the outbox only when
every parent owed it was told or is gone; the stored day converges to the
diary; nothing is announced on a single sighting, nor on two with another new
grade between them; repeats need a failure. Quiet
hours: what leaves a queue was delivered; one summary a morning; queues drain.
Jobs: done means everybody was dealt with, nobody twice, every window serves its
jobs. Years: no old grade is announced as new; the history is dated right; a
wrong year heals. Quarter grades and archive: no parent is left with an old
value without a cause; no grade is lost or counted twice. Families: the head is
a member, members and children are fully linked, removed means gone, one guest
per invitation. Payments: months and ledger agree, every recorded month is
enjoyed, to come or cancelled, money is credited or reported. Assistant: no conversation the model refuses, every
question is answered but for three named silences. Dashboard: "not modified" is
true but for what is named of each part, one screen does not contradict itself.

## 2. Modules

| Module | Models | Instance |
| --- | --- | --- |
| `GradeCells` | a cell as a sequence of marks, `sanitize_cell`, `_compute_added_grades` | - |
| `GradePromise` | the abstract outbox: Record, Settle, Withdraw, Discharge | - |
| `DailyPromise` | the abstract daily round: everybody is dealt with, nobody told twice without trouble | - |
| `GradeMonitor` | the polling thread, step by step, with the outbox and the world around it | - |
| `GradeMonitorHistory` | the same with history variables (copies sent, age of sightings) | `MCGradeMonitorHistory` |
| `GradeGhosts` | the same with the values a later cycle no longer found | `Mon_ghosts.cfg` |
| `NightQueue` | deferring, both queues, the morning job, ticks and markers | `MCNightQueue` |
| `Jobs` | the scheduler loop with every other job | `Jobs_jobs.cfg` |
| `Households` | families, links, children, invitations and worker threads | `MCHouseholds` |
| `Payments` | subscriptions, Stars payments, promo codes, grants, cancellation | `MCServices`, `MCPayments` |
| `Assistant` | the AI chat from the bot and from the dashboard | `MCServices` |
| `RateLimiter` | `is_rate_limited` with its late lock and its sweep | `MCServices` |
| `SchoolCalendar` | the arithmetic of school years (pure operators) | - |
| `AcademicYear` | one child's link and year, monitor, importer and relink | `MCRecords`, `MCAcademicYear` |
| `QuarterGrades` | the check of the quarter sheet against the importer | `MCRecords` |
| `GradeArchive` | the weekly archive against importers | `MCRecords` |
| `Dashboard` | the conditional request and its ETag against the writers | `MCRecords` |
| `Summary` | the figures of the dashboard (pure functions) | `MCRecords` |

`GradeMonitorProofs` (with its history), `NightQueueProofs`, `JobsProofs`,
`HouseholdsProofs`, `PaymentsProofs` and `AcademicYearProofs` (with the calendar)
hold the proofs about the modules they are named after, `RecordsProofs` those
about `QuarterGrades`, `GradeArchive`, `Dashboard` and `Summary`, and `ServicesProofs` those
about `Assistant` and `RateLimiter`. The last two extend `MCRecords` and
`MCServices`, and the proofs of the calendar and of payments, so that the runs'
compositions can be proved about too.
`MCServices` and `MCRecords` put modules that share no state side by side: a
variable `part`, chosen at the start and never changed, says which of them moves
while the others rest in their initial states, so one run explores each of them
in full and none of their products.

### GradeMonitor

A key is one (student, subject) of today's column, and `grade_history` holds at
most one row for it (`text`, `notified`). `pc` is the place of the polling
thread: `idle`, sweeping (`sweep`, `sweepSend`, `sweepMark`), `fetch`, `pick`,
`process`, `send`, `mark`. One action is one step that another thread or a
failure can follow: a committed statement, a send to one parent, a read. The
pending entry has an age in cycles, `Ttl` being how many fit into
`_PENDING_TTL_SECONDS`. A cell is a sequence of marks, so that additions,
reductions and replacements differ as in `_compute_added_grades`. `Garbage` is a
cell `sanitize_cell` rejects. The world changes the diary (`TeacherEdits`), the
family and the subscription. `CycleAborts`, `WriteFails`, `SendFails`,
`SweepDispatchAborts` and `Crash` are the failures; a crash forgets `pending`
and the cycle. `owed` is a history variable: the parents in the family when the
row was written, less those told or gone.

Of the two-phase confirmation two things are said. `WrittenOnSecondSighting` is what
`_check_pending_confirmation` does: in `GradeMonitorHistory` a reading of the cell
counts as a sighting for `Ttl` cycles, another new grade in the cell makes it void
(`Overtaken`) and a confirmation uses it up (`UsedUp`), so a value seen, replaced and
seen once more is not confirmed. `GhostsAreForgotten` is what the comment at 53-55
promises beyond that, that a value which *vanished* is discarded too: the function is
not called for a blank cell, the entry stays until its TTL, and the run `ghosts`
shows a grade entered, erased and entered again being announced at once.

`GradePromise` is what the rest of the system may rely on; `Promise` in
`GradeMonitor` instantiates it with `phase` computed from the row, and
`KeepsPromise` says every step maps to one of its steps or a stutter.

### NightQueue and Jobs

`NightQueue`: a parent and a chat, notes about grades, two queues, the summary
composed from the grades and not from the queue, the per-recipient marker, the
job marker with its cache and the window of two ticks. The monitor writes and
erases around it. A night has two dates: from midnight the polling thread looks at a
new column (`todays`), so a subject may have one row of each date, while
`get_overnight_grades_for_student` returns one row per subject, the latest since
22:00 whatever its date (`Overnight`). `NightReachesParents` therefore names a case:
a message may leave the queue when the summary showed a later grade of the same
subject (`Overshadowed`). That this loses grades is shown by `night_dropped`, whose
property has no such exception.

`Jobs` follows one hour of the loop from day to day (week to week for the weekly
jobs), since the keys two hours use are disjoint. A job goes through its units: a
parent, a child, or a window before the end of the subscription. What protects
a recipient from a second copy differs from job to job and is kept as it is: a
mark when the send succeeded (evening summary, text digest), a mark whatever
the sends returned (subscription, alerts, holiday activities), or the job's
own marker alone (silence notice, AI report). `AnswerLost` is a message that
arrived although the call failed, which `send_with_retry` sends again.

`DailyPromise` is the daily round both keep: a round is called, settles or carries
out each duty that waits, and is done when none is left; a duty carried out twice
on a day is excused, and only a trouble excuses. In `Jobs` a round is a job of the
hour and a duty the message of a unit to one recipient; in `NightQueue` the one
round is the morning job and its duties are the parents with messages queued. `Daily`
in each module is the mapping: a round is done when the marker of today is set,
called while the job works, and what is left of it is whom the job has still to
reach, the one it is at included.

### Households

The rows of `families`, `family_links`, `students`, `family_invites`; a worker
thread has a `job` between its reads and its writes, so every handler that
reads, asks Google or Telegram and writes later is two or more actions. So are the
functions of `db/families.py` that read before they write: linking a parent or a
child, and `delete_parent_from_family`, which reads `head_id` (`RemoveReads`) and
deletes in a second statement that does not look at it again (`RemoveDeletes`). A
`SetHead` between the two leaves a head who is no member; `unseated` marks the
families in which that really happened and is the one exception of `HeadIsMember`
(the next start repairs them, `database_manager.py` 60-85). `raced` and `crowded` mark
families in which two handlers overlapped. An administrator may use every handler,
so a family without a head can be invited to as well.

### Payments

A family's `end` is counted in months, `now` moves, every payment is worth one
month. A charge travels from Telegram (`update`) through a worker thread; the
transaction of row and extension either commits, fails, or commits without the
program learning it. Refunds, alerts and redelivery follow the code. What a family
got is counted apart from `end`: `served` by the clock, one for every month that
passes under a subscription, `forfeited` by a cancellation. `PaidMonthsAreKept` weighs
the rows of `payments` against the two and the months still to come, so an extension
that fell into a month already paid for, or that was lost, would show.

### Assistant and RateLimiter

A message is its role and the number of its question. A worker reads the last
`HistoryLimit` messages, stores the question, repairs what it read
(`sanitize`), asks the model with at most `ToolLimit` rounds of tools, stores
the answer and shows it. The question stays when the call fails; a retry
repeats the last message of the parent; the history may be cleared and the
dialogue state overwritten meanwhile. A question is `open` until its asker is told
something, and `dropped` when the handler ends without a word, which has three
causes: the dialogue was left between the filter and the handler (`ai_chat.py`
263-265 returns silently), a call of the database or the last message failed outside
every `try` (at best "thinking..." stays on the screen), or the process died.
`QuestionsEnd` says that there is no fourth. `RateLimiter` keeps the list of one user as
a set of numbered entries, each with its stamp and the moment its message was
let through: the list only grows at its end, so the order is that of the numbers.
The stamp is read before the lock is taken, up to `MaxDelay` earlier.

### AcademicYear and SchoolCalendar

A date is a month, which is all the calendar rules tell apart, and one day a
month passes. A grade carries the date it was really given on, so that an old
grade announced or filed under a new date shows. `cycle` and `job` hold what
the monitor and the imports read before they use it; job 0 is the hourly sync in
the monitor's thread, the others follow a change of link.

### QuarterGrades and GradeArchive

`QuarterGrades` has two readers of one sheet, the check that tells the parents
and the importer that does not, each working on the sheet as it read it;
`excused` names the cells a silent import, a lost message or an aborted check
left untold. `GradeArchive` has the live table and the archive, a move of two
steps, and importers that look at both tables in one query and store later.

### Dashboard and Summary

`Dashboard` keeps the page's copy with the tag it came with. The tag is computed
before the data are read: the newest stamp and the count of `grade_history`, the
same of `quarter_grades`, fields of the student and the parent as plain values
(`profile`), and a bucket of six hours. The body holds more than the tag: the grades
of both tables, so that the weekly move (`ArchiveMoves`) lowers the count and leaves
the body; the role, the first name behind an empty one and the years to choose
(`face`); and the bounds of the period, which `compute_summary` cuts by the server's
own clock (`ServerDay`), five hours behind Tashkent's if it shows UTC. The monitor,
the importer, the weekly move and two open transactions write meanwhile. A body is
compared with the tables, not with the tag. `NotModifiedIsTrue` speaks of each part
of the body and names its exceptions: grades when a removal or the move made up for
an import, or a removal for a write in the middle of the answer (`Undone`); quarter
grades of overlapping transactions; a profile changed during the answer that changes
back; what is in no tag; the period between five and six on a UTC server. Every
exception occurs in the run. A row the importer adds although the archive has it
is `GradeArchive`'s matter.
`Summary` translates the functions behind the page over the sequence of grades and
the quarter table, so that figures computed by different functions are compared. A
list of grades the code filters out of the history is the set of their positions,
a sorted list of subjects the set of those it shows with the order they are in, and
a sum counts how often each number was given: nothing is folded or sorted, which is
what makes the module one to prove about.

## 3. Runs

| Run | Checks | Result |
| --- | --- | --- |
| `monitor` | `TypeOK`, `SettledMeansTold`, `RepeatsNeedAFailure`, `WrittenOnSecondSighting`, `KeepsPromise` (refinement), `OutboxDrains`, `EventuallyMirrorsTheDiary` (liveness) | pass |
| `night` | `TypeOK`, `NightReachesParents`, `PostedBeforeDeleted`, `KeepsDailyPromise` (refinement), `QueuesDrain` (liveness) | pass |
| `jobs` | `JobsTypeOK`, `DoneMeansEverybody`, `WarnedBeforeTheEnd`, `OutagesAreReported`, `KeepsDailyPromise` (refinement), `WindowsAreServed` (liveness) | pass |
| `households` | `TypeOK`, `HeadIsMember`, `MembersSeeChildren`, `RemovedMeansGone`, `OneGuestPerInvite`, `ChildrenWithinLimit` | pass |
| `services` | `ServicesTypeOK`, `LedgerExplainsEnd`, `PaidMonthsAreKept`, `RefundedNotCredited`, `ConversationIsSound`, `WindowIsKept`, `MoneyIsAccountedFor`, `QuestionsEnd` (liveness) | pass |
| `records` | `RecordsTypeOK`, `LastYearStaysQuiet`, `HistoryDatesAreTrue`, `EachGradeOnce`, `QuartersAreKnown`, `NotModifiedIsTrue`, `ScreensAgree`, `WrongYearHeals` (liveness) | pass |
| `blocked_parent` | `SweptOnce` | violated: a blocked parent makes the others receive the grade on every cycle |
| `ghosts` | `GhostsAreForgotten` | violated: a grade erased before it was confirmed confirms its next entry |
| `night_dropped` | `QueuedReachesParents` | violated: a queued message about a grade that stands is deleted by a summary that does not show it |
| `undeletable` | `DeletionsSucceed` | violated: `student_years` keeps a child or family from being deleted |
| `untraced` | `FailuresLeaveATrace` | violated: reads before the money path are outside its `try` |
| `new_year` | `LastYearNeverAnnounced` | violated: from 1 January last year's sheet reads as the current one |

The six violations are disagreements between the code and what its comments,
tests or README say; `PROJECT.json` quotes each line.

**Bounds and why they suffice.**

Four modules have a bound `MaxEvents` on the sum of what else is bounded one by one,
so that the product of all bounds need not be explored.

* `monitor`: one student with two subjects, two parents, up to three edits and two
  failures, four of both together, a sweeper limit of one row. Two subjects are needed for a partly
  blank column, a batch of two rows and a limit that bites; two parents for a
  partial failure; two failures for a failure during recovery; three edits for a
  value that comes, is replaced and comes back.
* `ghosts`: one cell, one parent, three edits and no failure, which is all the case
  needs; the same cycle as in `monitor`.
* `night`: two grades of two subjects or of the two dates of one subject and two ticks of a morning (a window of six minutes, ticks of three), any number of
  nights, one erasure or one failure.
* `jobs`: two parents and a child, three days, windows of one and two days before
  the end, a threshold of two failed runs, one failure or restart. A day before,
  a day itself and a day after are what a marker, a cooldown and a warning
  tell apart. The bound of one failure is lifted by the proofs.
* `households`: two parents, two children, one invitation and two workers are the
  smallest family in which every pair of handlers can race; one member added by hand
  or one failure.
* `services`: one charge, one promo code of one use, two workers and two of one grant,
  two failures and one restart; one family, one worker of the bot and one of the web
  application, two questions, one retry, one mishap; two threads and 16 moments
  of the limiter with a window of 3, which lets the sweep come by and the
  window pass several times.
* `records`: two sheets, September to November (the new sheet empty at first),
  one change of link, one failure; two quarter cells, two values, two edits and one
  import; on the dashboard, explored once for the grades, once for the quarter grades
  and once for the rest of the answer, two entries of the day and an earlier one that
  the archive will take, two quarter cells, two profiles, two values of what is in no tag, two writes and six
  parts of a day (from the evening over the night of the move to the next), on a
  server that shows UTC; four grades of two subjects in the figures; two grades, two
  importers and three dates of the archive. The theorem about the dashboard has all
  of them together, any bounds and either clock.
* `new_year`: November to January, neither failure nor change of link. October to
  December behave alike, and so do January to June, by the proofs of
  `AcademicYearProofs`, which hold for every year.

**Fairness.** Weak fairness on the steps of threads that loop for ever
(`start_polling`, `_scheduler_loop`, a worker inside a handler) and, where a
property needs it, on time passing: `FairSpec` of the monitor, the night queue and
payments, `WF(SchedulerStep)` in `Jobs`, one `WF` per thread in `MCServices` and
`MCRecords`, each guarded by its `part`. Nothing is assumed of teachers,
families, Telegram, the language model or failures; failures are bounded
(`MaxFaults`, `MaxCrashes`, `MaxEvents`, `MaxTroubles`, `MaxMishaps`,
`MaxLosses`), which is what "eventually" needs. In `NightQueue` a window without a tick costs a fault,
and in `Jobs` a day passes only when the running loop has made its ticks, since
ticks of 180 s fit into a window of 6 minutes unless the loop hangs. Runs say `CHECK_DEADLOCK FALSE` where a bounded
world may simply stop.

**Excused cases.** Where the code really is exposed, a property names the
exception instead of the model hiding it: `overtaken` (a link changed under a
reader), `raced` and `crowded` (two handlers of one family overlapped),
`disturbed` (a failure while the row was in the outbox), `doubted` and `repeated`
(a commit that looked failed, a redelivery), `excused` in `Jobs` (a failure while
nothing stored stood against a repetition) and in `QuarterGrades`, `twice` in
`GradeArchive` (an importer that had looked before another thread stored the
grade: `db/grades.py` 349-350 says the two tables never intersect, and only
this breaks it), `unseated` in `Households`, `Overshadowed` in `NightQueue`, `dropped`
in `Assistant`, `happened` in `Dashboard` (what befell the data since the tag), and
dates after New Year in `AcademicYear`, which `new_year` shows to be a defect.

## 4. Proofs

All proofs hold for every value of the constants that satisfies the named
`ASSUME`s: ids of students are numbers, cells are non-blank sequences, bounds
are natural numbers; in `Payments` workers and charges are finite, since months
are summed over them; in `Jobs` recipients are no numbers, as the days of a
warning are; in `Dashboard` the entries of a student are finitely many, since
they are counted; in `Summary` a grade is one of the numbers 1 to 5 and the growth needs
three grades or more (the code asks for six). TLC evaluates the `ASSUME`s in the
runs. Every safety property of a passing run is a theorem, the three refinements
included.

`GradeMonitorProofs`:

* `TypeCorrect`: `Spec => []TypeOK`.
* `SettledSafely`: `Spec => []SettledMeansTold`. `SettledMeansTold` is not
  inductive: marking settles a row, so one must know that nobody is owed it any
  more. `DeliveryInv` says so at every point of the cycle: while a diary is
  compared, whoever is owed a row of the batch is among its recipients for it
  (`CollectedOwed`); while the batch is sent and nothing failed, whoever is still
  owed one of its rows has not been sent to yet (`BatchOwed`); when rows are
  marked they are owed to nobody (`MarkOwed`).
* `Implements`: `Spec => KeepsPromise`. The initial states map to initial states,
  and under the same invariant every action maps to a step of `GradePromise` or
  a stutter.
* `HistoryObserves`: `HSpec => Spec`. The history variables never guard a step, so
  all of the above holds of the monitor with its history, and its invariants
  can be used in the next two.
* `RepeatsExcused`: `HSpec => []RepeatsNeedAFailure`. A row of the outbox that
  somebody was sent and nothing disturbed is in the batch at hand, and that
  parent is no longer waiting (`SentOnce`); a row is compared once in a cycle
  (`BatchInv`), so no second batch of it follows.
* `WrittenLate`: `HSpec => WrittenOnSecondSighting`, an action property. An entry of
  `_pending_grades` was either made in this cycle, of a cell that is not compared
  again in it, or its age bounds how long ago its cell was read
  (`PendingSighted`), no other new grade having been met since; and a cell still to be
  compared is remembered as it was fetched (`ColumnKept`).

`NightQueueProofs`: `TypeCorrect`; `SecondSummaryExcused`: a parent who was
summarised has the mark of the day, is in doubt after a failure, or is the one
the job is at (`SummaryInv`); `NightReaches` and `ChatIsPosted`: what the job is
about to delete is in the text it sent, or a later grade of its subject is
(`ComposedInv`, `NightCovered`: of the rows of one subject there is a latest), so what
leaves either queue was delivered or gave way to that. `EverybodyOnceAMorning` (`KeepsDailyPromise`): starting the job
calls the round on all who have messages; a message put into or taken out of a queue
changes who waits; sending, refusing and marking say and settle; a failure
or a crash ends the round or leaves it. That needs `WorkInv`: while the job works
its marker is not set and whom it has still to reach has messages, and whom it
deletes from or marks was sent a summary. `PromiseMeansOneSummary`: the promise
alone implies `SecondSummaryNeedsCrash`, which is why the run does not check it again.

`JobsProofs`: `TypeCorrect`; `NobodyLeftOut`: at every point of a run, whoever the
job has passed was dealt with, but for the unit and the recipients it is at
(`DealtInv`); `NoSpam`: a pair with a copy is excused, protected by a marker or
mark of today, or passed by the run at work (`Safe`), and a job at work is
neither marked nor at a guarded unit (`RunInv`); `OutagesReported`: while
nothing else fails, the stored count of failed runs is the number of silent ones,
and between outages the cooldown of the last alert has run out before a run
begins (`OutageInv`); `WarnedTheDayBefore`: while nothing fails, whoever is dealt with
was warned, and a day without ticks left has its marker or a run under way
(`WarnInv`), so with `DealtInv` the day before the end cannot pass unwarned.
`EverybodyOnceADay` (`KeepsDailyPromise`) rests on the same invariant: only one job
of the hour is called on at a time (`OnlyOneAtWork`), it is finished when no unit
and no recipient is left, and a repeated or unanswered send stays within what the
promise allows (`SendMaps`). `PromiseMeansNoSpam`: the promise alone implies
`RepeatsAreExcused`, so the run checks the promise.

`HouseholdsProofs` proves every property the run checks:

* `TypeCorrect`: links reference rows that exist, so one needs to know that no
  deletion takes away a child in the middle of being added: it has no link yet
  and is in the hands of one worker (`ChildInHand`, `SeenLinked`).
* `HeadStaysMember`: a head that has been set has its placeholder row, which only
  deleting the parent or the family removes (`HeadLinked`); and nobody who is being
  taken out is the head, unless the family is `unseated` (`HeadSpared`).
* `InviteLetsOneIn`: an invitation somebody joins or has joined with is spent, and
  one worker at most carries it, until it has written (`InviteSpent`).
* `MembersSee` and `RemovedStaysOut`: in a family without a race, links are
  complete, nobody removed has one, and what the worker in the family read is
  still what is stored (`RowsInv`).
* `LimitKept`: in a family without a race at most one worker holds a count below
  the limit (`LimitInv`).

`PaymentsProofs`: `TypeCorrect`; `PaidMonths`: what a family is owed (`Owed`: its
rows and the grants whose row is still to come) is never more than what it had or
will have (`Had`): an extension adds one month to the second wherever the
subscription ends, the passing of a month and a cancellation move one from what is
left to what was served or forfeited, and a row is written after its month; `LedgerHolds`: the months a family has are explained by
rows, by grants under way and by rows that were lost, counted as one sum
(`Explained`) whose terms change by one at a time; `RefundsAreDue`: a charge is in
the hands of one worker (`InOneHand`), so what is refunded was not credited,
unless the commit was in doubt or Telegram repeated the payment.

`AcademicYearProofs` proves the calendar rules for every year, month and set
of grades: a column of a sheet lies in the sheet's school year
(`ColumnInItsYear`), so no column of a stale sheet reads as today's
(`StaleSheetHasNoToday`); `infer_sheet_academic_year` recognises the current
sheet on every date but in August (`CurrentSheetRecognised`: in August a sheet
with autumn grades only is taken for the coming year's); from September to
December any sheet with a spring grade is over (`LastYearRecognisedInAutumn`),
and from January to August any such sheet, of whatever year, is taken for the
current one (`SpringIsTakenForCurrent`): the defect of the `new_year` run is no
accident of its instance. On these rest two theorems about the monitor and the
imports, under hypotheses that say what a run of the model is about:

* `OldGradesStayQuiet` (`LastYearStaysQuiet`), if the days lie in one school year
  and begin in its autumn (`OneSchoolYear`): in summer the code dates a new,
  empty sheet by the coming year, and the property does not hold. The invariant
  says which grades a sheet of each year can hold at all (`GradesInv`: last year's
  has its spring, this year's none of it in autumn), that all readers use one link
  until it changes under one of them (`InUseInv`), and that the year on record,
  or in the hands of a reader, fits the link (`YearInv`).
* `HistoryIsDatedRight` (`HistoryDatesAreTrue`), if in addition no sheet is older than
  last year's (`RecentSheets`): one of two years ago is taken for last year's, and
  its grades are filed a year late.
* `DatesArePast` (`TypeOK`) needs neither and holds over any number of years: no row
  of the history and no announcement is of a day to come, or of a grade given after
  it was read, since a sheet, and what a cycle or an import has read of one, holds
  grades given so far only and a cycle's day is not ahead (`NoneAhead`).

`RecordsProofs`:

* `QuarterTypes` and `QuartersKnown`: a parent who does not know a stored value is
  still to be told it by the check, or the cell is excused (`Covered`).
* `GradesKept`: what the move selected is in the live table until it commits
  (`Chosen`), what an importer takes for missing is in neither table or was
  stored by another thread since it looked (`Unknown`).
* `NotModifiedTold` (`NotModifiedIsTrue`). The invariant `PageTold` says how the rows
  of now came from those the tag, and then the answer, were made of: without a
  removal none went away and whatever changed has a newer stamp than the tag's;
  without an import none came but with a newer stamp, and without an import or a
  write in the middle of the answer none was added to it but with one (`Descends`).
  The archive takes rows and gives none back, and without its move what is live is
  what was (`Grows`). Of quarter grades, the rows are the same or the newest stamp grew,
  unless two transactions overlapped (`Later`), for which one needs that no stamp is
  used twice (`TableInv`); the clock does not run back, and a profile that did not
  change during the answer is the tag's (`OthersSince`). The same MAX and COUNT of the
  live rows then mean the same rows of both tables (`SameMarkSameRows`): the row with
  the newest stamp was there, and subsets of the same size are equal. The bucket of six
  hours divides the day, so the same bucket means the same date and, but for the hour
  named, the same period (`SameMarkSameOthers`).
* `BlocksAgree` (`ScreensAgree`), for any history. The figures depend on nothing but
  the types of the history and the quarter table, so `SummaryTypeOK` is all the
  invariant needs, and the rest is arithmetic. Totals add up over parts
  (`TotalAdds`), rounding keeps the order of the exact quotients (`RoundKeepsOrder`),
  and if every part's average were above the whole's, so would be the sum of all of
  them (`PartsAddUp`, by induction over the parts): hence an average lies between
  those of its months, subjects and weeks (`PartsAround`), and a forecast between
  its quarters (`ForecastWithin`). The first of a list is the subject of the card
  because no two subjects are met at the same place, so both orders have one first
  element (`OneIsFirst`, `FirstIsListed`). An arrow up needs a later grade that is
  better: otherwise one number bounds both halves from its side (`RiseIsEarned`).
  The run of fives is defined by recursion over the history; that the recursion
  has a solution is proved too (`StreakRecursion`), and a run as long as the year
  leaves only fives (`StreakCounts`), which do not grow (`FivesDoNotGrow`).
* `ArchiveTypes`, `DashboardTypes` and, for the composition of the run,
  `RecordsTypes` (`RecordsTypeOK`): each step of the composition is a step of one
  component and a stutter of the others, so the invariants of the five are kept
  side by side. `EachRecordIsItself` says the same of the specifications, and
  `RecordsAreSafe` collects the safety properties of the run for the composition
  itself, under the two hypotheses about the calendar. A tag is one the server can compute because what a request
  carries from its first query is a watermark (`TagInv`).

`ServicesProofs`:

* `WindowKept` (`WindowIsKept`): whoever was let through lately is still in the list
  (`ListInv`), since a thread's stamp is at most `MaxDelay` behind (`ClockInv`) and the
  last entry, which the sweep looks at, is not older than any other by more than
  that (`EntryInv`).
* `ConversationsAreSound` (`ConversationIsSound`): what `_sanitize_conversation`
  returns begins with the parent and alternates, for every history
  (`SanitizedIsValid`). A question that is not stored yet belongs to one worker
  alone (`FreshInv`), and a worker past its storing finds it in the history, unless
  that was cleared (`WorkInv`).
* `RateTypes`, `AssistantTypes` and, with those of `Payments`, `ServicesTypes`
  (`ServicesTypeOK`): a turn that began on the dashboard never comes to the step of
  the placeholder (`WebInv`), and a question that is open, dropped or wiped has been asked,
  because the one a retry repeats stands in the history (`NumberTypes`).
* `ServicesAreSafe`: the composition the run explores implements each component
  (`EachServiceIsItself`), so it keeps the five safety properties of the run.

Induction over data: the library's induction theorems take an operator and cannot
be used here, but for a set instead of an operator the principle follows from
the well-foundedness of the naturals (`SetInduction`, `Greatest`), and this is how
what the sanitizer's loop computes, the sums over parts and the recursion of the
streak are proved.

**Only model-checked.** All liveness (`OutboxDrains`, `EventuallyMirrorsTheDiary`,
`QueuesDrain`, `WindowsAreServed`, `MoneyIsAccountedFor`, `QuestionsEnd`,
`WrongYearHeals`), which TLAPS cannot prove under fairness. Everything else a
passing run checks is a theorem. What the runs that expect a violation check is
false, and there is nothing to prove.

## 5. Not modelled

* Group chats: linking a chat or a topic and removing it are single statements
  inside menus. Deliveries to a linked chat are in `NightQueue`.
* Menu dialogues, panels, settings, texts, languages, PDF, landing page and
  deployment: forms and formatting. What the forms store is in `Households` and
  `Payments`; that any dialogue overwrites the single slot of `user_states` is
  in `Assistant`.
* Statistics, prompts, tools and cached insights of the AI: averages put into
  texts. The protocol around them is in `Assistant` and `Jobs`.
* The driver, the pool and the migrations (a transaction is one action that may
  fail) and Google Sheets access (a read gives a column or nothing).
* Authentication, routing and choosing of years in the web application: no state
  and no order of steps.

Inside the modelled parts: midnight in `GradeMonitor` (the module covers one day,
so a grade first seen before and last seen after midnight is out of its reach;
`NightQueue` has both dates of a night); the day after in `Dashboard`, whose importer
adds grades of earlier days only;
the second press of one card confirmation (the button carries no identity);
parents in `summary_only` mode in `NightQueue`; headers and the week sheet;
prices and discounts; the relinking of a child inside `Households` (it is in
`AcademicYear`); two academic years in one quarter table.

Read in the code but not made runs: a morning summary that fails is only logged, so
the job sets its marker and no later tick of that morning repeats it, although the
comment at `schedulers.py` 391-393 says that the next tick does (`KeepsDailyPromise`
settles such a parent, `QueuesDrain` delivers on another morning); a parent made head
between the read and the delete of his own removal stays head without being a member,
although `db/families.py` 436 says that a head cannot be removed (`unseated`); an
import in the night of the weekly move can leave MAX and COUNT of `grade_history` as
they were, although `webapp/app.py` 716-717 says that every INSERT changes the tag
(`Undone`); the notice of an ended subscription runs at
10:00 and asks for an end of the same day that has passed, so it reaches only
families whose subscription ended between midnight and 10:00
(`db/payments.py` 156-167); the weekly AI report has no filter on the subscription
(`handlers/analytics.py` 95-142); a question in the chat mode checks membership
again but not the subscription (`handlers/ai_chat.py`); a retry repeats the last
message of the parent, whichever failed; the repair of a conversation pairs an
answer with the question next to it, which need not be its own when two workers
answered at once; `compute_by_subject` shows the earlier of two grades of a
subject on one date as its last; the weakest subject is sought 200 days back in
the live table, which holds 180.

## 6. Plan

1. (done) Monitor and outbox with its abstract promise, quiet hours, jobs,
   families, payments, academic years, quarter grades, archive, assistant,
   limiter and dashboard.
2. (done) Proofs of every safety property of a passing run, type invariants
   included, of the refinement of the monitor's outbox and of the daily round that
   `Jobs` and `NightQueue` both implement.
3. Left: the day change in the monitor; a composition of families, subscriptions
   and monitor in which who is told follows from the links; a promise about a
   charge that `Payments` implements; one table of grades that `GradeArchive`
   implements.
