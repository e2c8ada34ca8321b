-------------------------------- MODULE Jobs --------------------------------
(***************************************************************************)
(* The scheduler thread of src/src/schedulers.py.  A loop wakes every 180  *)
(* seconds; in the first six minutes of a job's hour it runs the job       *)
(* unless the marker of today is set, in memory or in the settings table.  *)
(* A job goes through parents, through families whose subscription ends    *)
(* or through children, and sends each recipient a message.  What protects *)
(* a recipient from a second copy differs from job to job: a mark set when *)
(* the send succeeded, a mark set whatever the sends returned, or nothing  *)
(* but the job's own marker.  The morning job is NightQueue.               *)
(*                                                                         *)
(* The keys two hours use are disjoint, so a behaviour follows one hour    *)
(* from day to day (from week to week for the weekly jobs).  There is one  *)
(* family with several children; the database, Telegram and the AI service *)
(* fail and the process dies between any two calls.                        *)
(***************************************************************************)
EXTENDS Naturals, Sequences, FiniteSets

CONSTANTS
    Recipients,
    Children,
    NoUnit,
    WarnDays,       \* 7 and 1: days before the end on which a family is warned
    AlertCooldown,  \* 2: days during which one child's alert is not repeated
    AiThreshold,    \* 3: failed runs in a row before the administrator is told
    JobTicks,       \* ticks that fit into a window of six minutes
    MaxDay,         \* bound: days followed
    MaxTroubles     \* bound: failed calls and crashes

ASSUME JobsAssumption ==
    /\ Recipients \cap Children = {} /\ Recipients \cap (WarnDays \cup {0}) = {}
    /\ NoUnit \notin Recipients \cup Children \cup WarnDays \cup {0}
    /\ WarnDays \subseteq Nat \ {0} /\ 1 \in WarnDays
    /\ AlertCooldown \in Nat \ {0} /\ AiThreshold \in Nat \ {0}
    /\ JobTicks \in Nat \ {0} /\ MaxDay \in Nat /\ MaxTroubles \in Nat

Cold == 0    \* a marker never set, and a cached marker not read since the start

VARIABLES
    hour,        \* the hour this behaviour follows
    ends,        \* when the subscription ends: a local day and a part of it
    day,         \* the current day, 1..MaxDay
    jobTicks,       \* of the loop still to come in today's window
    up,          \* the process runs
    agenda,      \* jobs left in the current tick
    phase,       \* "idle", "loop" (inside the job) or "mark" (about to set its marker)
    todo,        \* units the job has not reached
    unit, rest,  \* the unit being sent and the recipients left
    sendOk,      \* the last send of this unit returned True
    marker,      \* scheduler_last_<job> in settings
    cache,       \* _marker_cache
    unitMark,    \* the day stored for a unit, Cold for none
    aiCalled, aiOk,           \* of the current run
    aiFails, aiNotified,      \* ai_consec_fails_<job>, ai_fail_last_notify_<job>
    troubles,    \* failed calls and crashes so far
    trouble,     \* one of them today
    copies,      \* [unit, recipient] |-> messages since the unit could be sent anew
    excused,     \* pairs a failure left without protection
    settled,     \* pairs dealt with today: sent, refused, nothing to say
    warned,      \* pairs of window and parent whose warning was attempted
    silent,      \* runs in a row in which the AI service never answered
    alarmed      \* the administrator was told since it last answered

world == <<hour, ends, day, jobTicks>>
loopVars == <<agenda, phase, todo, unit, rest, sendOk>>
stored == <<marker, unitMark>>
ai == <<aiCalled, aiOk, aiFails, aiNotified>>
ghosts == <<copies, excused, settled, warned, silent, alarmed>>
jobVars == <<world, up, loopVars, stored, cache, ai, troubles, trouble, ghosts>>

Hours == {3, 10, 11, 15, 17, 18, 19}
ScheduledJobs == {"cleanup", "subscription", "summer_mode", "alive", "proactive_alerts", "quarter",
         "weekly_text_digest", "evening", "weekly_ai_report"}
AiJobs == {"summer_mode", "proactive_alerts", "weekly_ai_report"}
Windows == WarnDays \cup {0}
Units == Recipients \cup Children \cup Windows
Pairs == Units \X Recipients

\* The jobs of one tick, in the order of the loop, on the day all of them are due.
Agenda(h) == CASE h = 3 -> <<"cleanup">>
               [] h = 10 -> <<"subscription">>
               [] h = 11 -> <<"summer_mode">>
               [] h = 15 -> <<"alive">>
               [] h = 17 -> <<"proactive_alerts">>
               [] h = 18 -> <<"quarter", "weekly_text_digest">>
               [] h = 19 -> <<"evening", "weekly_ai_report">>
JobsOf(h) == {Agenda(h)[i] : i \in 1..Len(Agenda(h))}
Job == Head(agenda)

\* The warnings compare dates in UTC, the notice of the end compares the date
\* of Tashkent and asks that the end has passed when the job runs at 10:00.
Ends == [day : 3..MaxDay, part : {"night", "morning", "later"}]  \* 0-5, 5-10, 10-24
UtcDay(e) == IF e.part = "night" THEN e.day - 1 ELSE e.day
ExpiringInOneDayLate(w) == UtcDay(ends) = day + w - 1
ExpiringIn(w) == UtcDay(ends) = day + w
ExpiredToday == ends.day = day /\ ends.part # "later"
DueWindows == {w \in WarnDays : ExpiringIn(w)} \cup {w \in {0} : ExpiredToday}

UnitsOf(j) == CASE j \in {"evening", "alive", "weekly_text_digest"} -> Recipients
                [] j = "subscription" -> DueWindows
                [] j \in AiJobs -> Children
                [] j \in {"quarter", "cleanup"} -> {}
Audience(u) == IF u \in Recipients THEN {u} ELSE Recipients
PairsOf(u) == {u} \X Audience(u)
JobOf(u) == CHOOSE j \in JobsOf(hour) : u \in UnitsOf(j) \/ j = "subscription"

\* was_alerted_recently: 48 hours, counted from when the alert was stored.
SurelyRecent(c) == unitMark[c] # Cold /\ day < unitMark[c] + AlertCooldown
MaybeRecent(c) == unitMark[c] # Cold /\ day <= unitMark[c] + AlertCooldown
-----------------------------------------------------------------------------
JobsInit ==
    /\ hour \in Hours
    /\ ends \in Ends /\ (hour # 10 => ends = [day |-> MaxDay, part |-> "later"])
    /\ day = 1 /\ jobTicks \in 1..JobTicks
    /\ up = TRUE
    /\ agenda = <<>> /\ phase = "idle"
    /\ todo = {} /\ unit = NoUnit /\ rest = {} /\ sendOk = FALSE
    /\ marker = [j \in ScheduledJobs |-> Cold] /\ cache = [j \in ScheduledJobs |-> Cold]
    /\ unitMark = [u \in Units |-> Cold]
    /\ aiCalled = FALSE /\ aiOk = FALSE /\ aiFails = 0 /\ aiNotified = Cold
    /\ troubles = 0 /\ trouble = FALSE
    /\ copies = [x \in Pairs |-> 0] /\ excused = {} /\ settled = {}
    /\ warned = {} /\ silent = 0 /\ alarmed = FALSE

\* What still keeps a unit from being sent a second time.
Protected(u) ==
    \/ marker[JobOf(u)] = day
    \/ JobOf(u) \in {"evening", "weekly_text_digest", "subscription", "summer_mode"}
       /\ unitMark[u] = day
    \/ JobOf(u) = "proactive_alerts" /\ SurelyRecent(u)

TroubleFor(lost) ==
    /\ troubles < MaxTroubles
    /\ troubles' = troubles + 1 /\ trouble' = TRUE
    /\ excused' = excused \cup lost \cup {x \in Pairs : copies[x] > 0 /\ ~ Protected(x[1])}
Trouble == TroubleFor({})
Fine == UNCHANGED <<troubles, trouble, excused>>
-----------------------------------------------------------------------------
(* One tick of the loop and the marker of a job.                           *)

StartTick ==
    /\ up /\ agenda = <<>> /\ jobTicks > 0
    /\ agenda' = Agenda(hour) /\ jobTicks' = jobTicks - 1
    /\ UNCHANGED <<hour, ends, day, up, phase, todo, unit, rest, sendOk, stored, cache, ai,
                   ghosts>>
    /\ Fine

\* Deviation: the marker is looked for in memory only.
CheckMarkerInMemory ==
    /\ up /\ agenda # <<>> /\ phase = "idle"
    /\ \/ /\ cache[Job] = day /\ agenda' = Tail(agenda)
          /\ UNCHANGED <<phase, todo, aiCalled, aiOk>>
       \/ cache[Job] # day /\ phase' = "loop" /\ todo' = UnitsOf(Job)
          /\ aiCalled' = FALSE /\ aiOk' = FALSE /\ UNCHANGED agenda
    /\ UNCHANGED <<world, up, unit, rest, sendOk, stored, cache, aiFails, aiNotified, ghosts>>
    /\ Fine

CheckMarker ==
    LET known == IF cache[Job] # Cold THEN cache[Job] ELSE marker[Job] IN
    /\ up /\ agenda # <<>> /\ phase = "idle"
    /\ cache' = [cache EXCEPT ![Job] = known]
    /\ \/ known = day /\ agenda' = Tail(agenda) /\ UNCHANGED <<phase, todo, aiCalled, aiOk>>
       \/ known # day /\ phase' = "loop" /\ todo' = UnitsOf(Job)
          /\ aiCalled' = FALSE /\ aiOk' = FALSE /\ UNCHANGED agenda
    /\ UNCHANGED <<world, up, unit, rest, sendOk, stored, aiFails, aiNotified, ghosts>>
    /\ Fine

\* The read is outside the job's try: the rest of the tick is lost with it.
MarkerUnreadable ==
    /\ up /\ agenda # <<>> /\ phase = "idle" /\ cache[Job] = Cold
    /\ agenda' = <<>>
    /\ Trouble
    /\ UNCHANGED <<world, up, phase, todo, unit, rest, sendOk, stored, cache, ai, copies,
                   settled, warned, silent, alarmed>>

AfterJob == agenda' = Tail(agenda) /\ phase' = "idle" /\ todo' = {} /\ unit' = NoUnit
            /\ rest' = {} /\ sendOk' = FALSE

\* Deviations: the marker is set in the table only, or in memory only.
SetJobMarkerSkipsCache ==
    /\ up /\ phase = "mark"
    /\ marker' = [marker EXCEPT ![Job] = day] /\ AfterJob
    /\ UNCHANGED <<world, up, unitMark, cache, ai, ghosts>> /\ Fine
SetJobMarkerInMemory ==
    /\ up /\ phase = "mark"
    /\ cache' = [cache EXCEPT ![Job] = day] /\ AfterJob
    /\ UNCHANGED <<world, up, stored, ai, ghosts>> /\ Fine

SetJobMarker ==
    /\ up /\ phase = "mark"
    /\ marker' = [marker EXCEPT ![Job] = day]
    /\ cache' = [cache EXCEPT ![Job] = day]
    /\ AfterJob
    /\ UNCHANGED <<world, up, unitMark, ai, ghosts>>
    /\ Fine

\* Deviation: a failed run counts as done.
RunFailsButMarks ==
    /\ up /\ phase # "idle" /\ AfterJob /\ Trouble
    /\ marker' = [marker EXCEPT ![Job] = day] /\ cache' = [cache EXCEPT ![Job] = day]
    /\ UNCHANGED <<world, up, unitMark, ai, copies, settled, warned, silent, alarmed>>

\* An exception is reported and leaves no marker.  The bodies of the quarter
\* check and of the cleanup swallow theirs.
RunFails ==
    /\ up /\ phase # "idle"
    /\ Job \in {"quarter", "cleanup"} => phase = "mark"
    /\ AfterJob
    /\ Trouble
    /\ UNCHANGED <<world, up, stored, cache, ai, copies, settled, warned, silent, alarmed>>

SchedulerDies ==
    /\ up
    /\ up' = FALSE /\ agenda' = <<>> /\ phase' = "idle" /\ todo' = {} /\ unit' = NoUnit
    /\ rest' = {} /\ sendOk' = FALSE /\ cache' = [j \in ScheduledJobs |-> Cold]
    /\ Trouble
    /\ UNCHANGED <<world, stored, ai, copies, settled, warned, silent, alarmed>>

\* The loop of a new process starts with a tick, perhaps in the same window.
Restart ==
    /\ ~ up
    /\ up' = TRUE /\ jobTicks' \in 0..JobTicks
    /\ UNCHANGED <<hour, ends, day, loopVars, stored, cache, ai, ghosts>>
    /\ Fine

NextDay ==
    /\ day < MaxDay /\ agenda = <<>> /\ (up => jobTicks = 0)
    /\ day' = day + 1 /\ jobTicks' \in 1..JobTicks
    /\ trouble' = ~ up
    /\ settled' = {}
    /\ copies' = [x \in Pairs |->
                    IF hour = 17 /\ unitMark[x[1]] # Cold
                       /\ day + 1 < unitMark[x[1]] + AlertCooldown
                    THEN copies[x] ELSE 0]
    /\ excused' = IF hour = 17 THEN excused ELSE {}
    /\ UNCHANGED <<hour, ends, up, loopVars, stored, cache, ai, troubles, warned, silent,
                   alarmed>>
-----------------------------------------------------------------------------
(* One unit of a job: skipped, nothing to say, or a message to be sent.    *)

InLoop(j) == up /\ phase = "loop" /\ Job = j /\ unit = NoUnit

Skip(u) == todo' = todo \ {u} /\ UNCHANGED <<unit, rest, sendOk, settled>>
Quiet(u) == /\ todo' = todo \ {u} /\ settled' = settled \cup PairsOf(u)
            /\ UNCHANGED <<unit, rest, sendOk>>
ComposeMessage(u) ==
    /\ todo' = todo \ {u} /\ unit' = u /\ rest' = Audience(u) /\ sendOk' = FALSE
    /\ UNCHANGED settled

NoAi == UNCHANGED <<aiCalled, aiOk>>
AiSilent == aiCalled' = TRUE /\ UNCHANGED aiOk
AiAnswers == aiCalled' = TRUE /\ aiOk' = TRUE

\* A parent who was marked today is skipped; one without news hears nothing.
EveningSummary(p) ==
    /\ InLoop("evening") /\ p \in todo
    /\ \/ unitMark[p] = day /\ Skip(p)
       \/ unitMark[p] # day /\ (Quiet(p) \/ ComposeMessage(p))
    /\ NoAi /\ Fine

WeeklyTextDigest(p) ==
    /\ InLoop("weekly_text_digest") /\ p \in todo
    /\ \/ unitMark[p] = day /\ Skip(p)
       \/ unitMark[p] # day /\ (Quiet(p) \/ ComposeMessage(p))
    /\ NoAi /\ Fine

\* Only parents without a new grade for 48 hours; nothing is remembered.
BotAlive(p) ==
    /\ InLoop("alive") /\ p \in todo
    /\ Quiet(p) \/ ComposeMessage(p)
    /\ NoAi /\ Fine

SubscriptionExpiry(w) ==
    /\ InLoop("subscription") /\ w \in todo
    /\ \/ unitMark[w] = day /\ Skip(w)
       \/ unitMark[w] # day /\ ComposeMessage(w)
    /\ NoAi /\ Fine

\* No series of low grades, an alert within the cooldown, no text from the AI
\* service, or an alert; a failed look at the grades skips the child.
ProactiveAlert(c) ==
    /\ InLoop("proactive_alerts") /\ c \in todo
    /\ \/ Quiet(c) /\ NoAi /\ Fine
       \/ Quiet(c) /\ NoAi /\ Trouble
       \/ MaybeRecent(c) /\ (IF unitMark[c] = day THEN Skip(c) ELSE Quiet(c)) /\ NoAi /\ Fine
       \/ ~ SurelyRecent(c) /\ Quiet(c) /\ AiSilent /\ Fine
       \/ ~ SurelyRecent(c) /\ ComposeMessage(c) /\ AiAnswers /\ Fine

\* Outside the holidays the job returns at once, which Quiet for all stands for.
SummerMode(c) ==
    /\ InLoop("summer_mode") /\ c \in todo
    /\ \/ unitMark[c] = day /\ Skip(c) /\ NoAi /\ Fine
       \/ unitMark[c] # day /\ Quiet(c) /\ NoAi /\ (Fine \/ Trouble)
       \/ unitMark[c] # day /\ Quiet(c) /\ AiSilent /\ Fine
       \/ unitMark[c] # day /\ ComposeMessage(c) /\ AiAnswers /\ Fine

\* Fewer than two grades in the week, or a report to be asked for each parent.
WeeklyAiReport(c) ==
    /\ InLoop("weekly_ai_report") /\ c \in todo
    /\ Quiet(c) \/ ComposeMessage(c)
    /\ NoAi /\ Fine

ReachUnit ==
    /\ \/ \E p \in Recipients : EveningSummary(p) \/ WeeklyTextDigest(p) \/ BotAlive(p)
       \/ \E w \in Windows : SubscriptionExpiry(w)
       \/ \E c \in Children : ProactiveAlert(c) \/ SummerMode(c) \/ WeeklyAiReport(c)
    /\ UNCHANGED <<world, up, agenda, phase, stored, cache, aiFails, aiNotified, copies,
                   warned, silent, alarmed>>
-----------------------------------------------------------------------------
(* Sending the message of a unit to one recipient.                         *)

Copied(p) == copies' = [copies EXCEPT ![<<unit, p>>] = IF @ < 2 THEN @ + 1 ELSE @]
Warned(p) == IF Job = "subscription" THEN warned \cup {<<unit, p>>} ELSE warned
DoneWith(p) == rest' = rest \ {p} /\ settled' = settled \cup {<<unit, p>>}
AskedFor == IF Job = "weekly_ai_report" THEN AiAnswers ELSE NoAi
InSend(p) == /\ up /\ phase = "loop" /\ unit # NoUnit /\ p \in rest
             /\ UNCHANGED <<world, up, agenda, phase, todo, unit, stored, cache, aiFails,
                            aiNotified, silent, alarmed>>

JobSends(p) == /\ InSend(p) /\ DoneWith(p) /\ Copied(p) /\ sendOk' = TRUE /\ AskedFor /\ Fine
               /\ warned' = Warned(p)

\* notify_mode is summary_only: Sender.send returns True and sends nothing.
SendMuted(p) == /\ InSend(p) /\ Job # "weekly_ai_report" /\ DoneWith(p) /\ sendOk' = TRUE
                /\ NoAi /\ Fine /\ UNCHANGED copies
                /\ warned' = Warned(p)

\* Blocked, or three attempts without an answer: False, which only the two
\* jobs with a mark per recipient look at.
SendRefused(p) == /\ InSend(p) /\ DoneWith(p) /\ AskedFor /\ Fine
                  /\ UNCHANGED <<copies, sendOk>>
                  /\ warned' = Warned(p)

\* Delivered, but the answer is lost: send_with_retry sends it again.
AnswerLost(p) == /\ InSend(p) /\ Copied(p) /\ TroubleFor({<<unit, p>>}) /\ AskedFor
                 /\ IF Job = "weekly_ai_report" THEN DoneWith(p)
                    ELSE UNCHANGED <<rest, settled>>
                 /\ UNCHANGED <<sendOk, warned>>

\* No analysis for this parent.
ReportMissing(p) == /\ InSend(p) /\ Job = "weekly_ai_report" /\ DoneWith(p) /\ AiSilent /\ Fine
                    /\ UNCHANGED <<copies, sendOk, warned>>

\* The mark: of the recipient if the send succeeded, of a family, an alert or
\* a child's week whatever the sends returned.
MarkUnit ==
    /\ up /\ phase = "loop" /\ unit # NoUnit /\ rest = {}
    /\ unit' = NoUnit /\ sendOk' = FALSE
    /\ unitMark' = IF \/ Job \in {"evening", "weekly_text_digest"} /\ sendOk
                      \/ Job \in {"subscription", "proactive_alerts", "summer_mode"}
                   THEN [unitMark EXCEPT ![unit] = day] ELSE unitMark
    /\ UNCHANGED <<world, up, agenda, phase, todo, rest, marker, cache, ai, ghosts>>
    /\ Fine

\* save_alert and the child's week are stored in a try of their own.
MarkIsLost ==
    /\ up /\ phase = "loop" /\ unit # NoUnit /\ rest = {}
    /\ Job \in {"proactive_alerts", "summer_mode"}
    /\ unit' = NoUnit /\ sendOk' = FALSE
    /\ Trouble
    /\ UNCHANGED <<world, up, agenda, phase, todo, rest, stored, cache, ai, copies, settled,
                   warned, silent, alarmed>>
-----------------------------------------------------------------------------
(* The end of a run and what the administrator hears of the AI service.    *)

LoopEnds == up /\ phase = "loop" /\ todo = {} /\ unit = NoUnit /\ phase' = "mark"

RunEnds ==
    /\ LoopEnds /\ ~ (Job \in AiJobs /\ aiCalled)
    /\ UNCHANGED <<world, up, agenda, todo, unit, rest, sendOk, stored, cache, ai, ghosts>>
    /\ Fine

\* A day apart is 24 hours more or less; two alerts of one day are not.
MayNotify == aiNotified = Cold \/ aiNotified < day
MustNotify == aiNotified = Cold \/ aiNotified + (IF hour = 17 THEN 1 ELSE 0) < day

TrackSuccessKeepsCount ==
    silent' = 0 /\ alarmed' = FALSE /\ UNCHANGED <<aiFails, aiNotified>> /\ Fine
TrackSuccess == aiFails' = 0 /\ silent' = 0 /\ alarmed' = FALSE /\ UNCHANGED aiNotified /\ Fine

\* Told and the cooldown stamped; told and the stamp lost; not told.
TrackFailure ==
    /\ aiFails' = aiFails + 1 /\ silent' = silent + 1
    /\ \/ aiFails' >= AiThreshold /\ MayNotify /\ alarmed' = TRUE
          /\ \/ aiNotified' = day /\ Fine
             \/ UNCHANGED aiNotified /\ Trouble
       \/ aiFails' >= AiThreshold /\ MayNotify /\ UNCHANGED <<alarmed, aiNotified>> /\ Trouble
       \/ (aiFails' >= AiThreshold => ~ MustNotify) /\ UNCHANGED <<alarmed, aiNotified>> /\ Fine

TrackAiOutcome ==
    /\ LoopEnds /\ Job \in AiJobs /\ aiCalled
    /\ IF aiOk THEN TrackSuccess ELSE TrackFailure
    /\ UNCHANGED <<world, up, agenda, todo, unit, rest, sendOk, stored, cache, aiCalled, aiOk,
                   copies, settled, warned>>
-----------------------------------------------------------------------------
SchedulerStep ==
    \/ StartTick \/ CheckMarker \/ MarkerUnreadable \/ SetJobMarker \/ RunFails
    \/ ReachUnit \/ MarkUnit \/ MarkIsLost \/ RunEnds \/ TrackAiOutcome
    \/ \E p \in Recipients : JobSends(p) \/ SendMuted(p) \/ SendRefused(p) \/ AnswerLost(p)
                          \/ ReportMissing(p)

JobsNext == SchedulerStep \/ SchedulerDies \/ Restart \/ NextDay
JobsSpec == JobsInit /\ [][JobsNext]_jobVars /\ WF_jobVars(SchedulerStep)
-----------------------------------------------------------------------------
ClockTypes ==
    /\ hour \in Hours /\ ends \in Ends /\ day \in 1..MaxDay /\ jobTicks \in 0..JobTicks
    /\ troubles \in 0..MaxTroubles
FlagTypes == up \in BOOLEAN /\ trouble \in BOOLEAN
LoopTypes ==
    /\ \E n \in 0..2 : agenda = SubSeq(Agenda(hour), n + 1, Len(Agenda(hour)))
    /\ phase \in {"idle", "loop", "mark"} /\ (phase # "idle" => up /\ agenda # <<>>)
    /\ todo \subseteq Units /\ unit \in Units \cup {NoUnit} /\ rest \subseteq Recipients
MarkTypes ==
    /\ marker \in [ScheduledJobs -> 0..day] /\ cache \in [ScheduledJobs -> 0..day]
    /\ unitMark \in [Units -> 0..day] /\ aiNotified \in 0..day
    /\ \A j \in ScheduledJobs : cache[j] \in {Cold, marker[j]}
GhostTypes == copies \in [Pairs -> 0..2] /\ excused \subseteq Pairs /\ settled \subseteq Pairs
JobsTypeOK == ClockTypes /\ FlagTypes /\ LoopTypes /\ MarkTypes /\ GhostTypes

\* No spam (schedulers 106-129, 207-226, 625-650): within a day (for one
\* child's alerts, within the cooldown) a parent is sent the message of one
\* unit twice only if something failed while nothing stored stood against it:
\* an answer was lost, or a call failed or the process died before the mark.
\* Restarts after the mark, second ticks and other people's failures are no excuse.
RepeatsAreExcused == \A x \in Pairs : copies[x] > 1 => x \in excused

\* Nobody is left out (schedulers 207-226): once a job's marker is today's,
\* every recipient was dealt with today: sent the message, refused by
\* Telegram, without news, or protected by an alert of an earlier day.
DoneMeansEverybody ==
    \A j \in JobsOf(hour) :
        marker[j] = day => \A u \in UnitsOf(j) : PairsOf(u) \subseteq settled

\* The day before (db/payments 131-153, schedulers 661-678): when nothing
\* fails, the day a subscription ends dawns only after the one-day warning has
\* been sent to every member, although the end is compared as a date of UTC.
\* Sent is attempted: a refusal by Telegram is an answer, and no failure.
WarnedBeforeTheEnd ==
    (hour = 10 /\ troubles = 0 /\ day >= ends.day) => {1} \X Recipients \subseteq warned

\* An outage is reported (schedulers 133-201): when nothing else fails, the
\* administrator has been told of the AI service since it last answered exactly
\* if it has been silent for AiThreshold runs in a row.
OutagesAreReported ==
    (troubles = 0 /\ phase = "idle") => (alarmed <=> silent >= AiThreshold)

\* What the jobs of the hour are to the daily promise: a duty is the message of a
\* unit to one of its recipients.
AtWork(j) == phase # "idle" /\ Job = j
StageOf(j) == IF j \in JobsOf(hour) /\ marker[j] = day THEN "done"
              ELSE IF AtWork(j) THEN "called" ELSE "open"
DutiesOf(us) == {x \in Pairs : x[1] \in us /\ x[2] \in Audience(x[1])}
WaitingFor(j) == IF j \in JobsOf(hour) THEN DutiesOf(UnitsOf(j)) ELSE {}
LeftOf(j) == {x \in Pairs : AtWork(j) /\ (x \in DutiesOf(todo) \/ (x[1] = unit /\ x[2] \in rest))}

Daily == INSTANCE DailyPromise WITH
    Rounds <- ScheduledJobs, Duties <- Pairs,
    stage <- [j \in ScheduledJobs |-> StageOf(j)],
    waiting <- [j \in ScheduledJobs |-> WaitingFor(j)],
    todo <- [j \in ScheduledJobs |-> LeftOf(j)],
    dealt <- settled

\* Once a day, everybody (schedulers 71-129, 207-226): each job keeps the promise
\* of a daily round, whatever restarts, ticks and failures come in between.
KeepsDailyPromise == Daily!Spec

\* Every window serves its jobs (schedulers 229-287): on a day on which nothing
\* fails every job of the hour ends and sets its marker.
WindowsAreServed ==
    \A d \in 1..MaxDay :
        (day = d) ~> (day = d /\ (trouble \/ \A j \in JobsOf(hour) : marker[j] = d))
=============================================================================
