----------------------------- MODULE NightQueue -----------------------------
(***************************************************************************)
(* Quiet hours: between 22:00 and 07:00 Sender.send puts a grade message   *)
(* into notification_queue (a family chat's into group_notification_queue) *)
(* and the scheduler's morning job of src/src/schedulers.py sends each     *)
(* parent one summary of the night, deletes what it had read of the queue  *)
(* and remembers the parent; then it posts the chat's messages one by one  *)
(* and sets the job's marker.  The polling thread writes grades and queues *)
(* or sends messages while the job runs; calls fail and the process dies.  *)
(*                                                                         *)
(* One family with one chat: every parent hears of every grade.  A message *)
(* is the position in log of the write it announces, and so is the row     *)
(* that write left in grade_history.  A night has two dates: a row belongs *)
(* to the date the polling thread looked at when it wrote it, and a        *)
(* subject may have one of each.                                           *)
(***************************************************************************)
EXTENDS Naturals, Sequences

CONSTANTS
    Subjects,     \* (student, subject)
    Parents,
    NoParent,
    MaxTicks,     \* scheduler ticks that fit into 07:00-07:06 (one in 180 s)
    MaxWrites,    \* bound: grades written
    MaxErasures,  \* bound: grades erased again
    MaxFaults,    \* bound: failed calls, missed windows and crashes
    MaxEvents     \* bound: both together

ASSUME NightAssumption ==
    /\ NoParent \notin Parents
    /\ MaxTicks \in Nat \ {0}
    /\ MaxWrites \in Nat /\ MaxErasures \in Nat /\ MaxFaults \in Nat /\ MaxEvents \in Nat

Notes == 1..MaxWrites

VARIABLES
    period,    \* "day", "late" (from 22:00), "night" (to 07:00) or "window" (07:00-07:06)
    ticks,     \* of the scheduler in this window
    log,       \* the subject of every write so far
    live,      \* writes whose row still holds what they wrote
    todays,    \* those of the date the polling thread looks at
    fresh,     \* those with date_added since the last 22:00
    erasures,
    outbox,    \* <<note, parent>>: still to be sent by the polling thread
    deferring, \* the pair Sender.send is about to queue
    posts,     \* notes still to be posted to the chat
    queue,     \* notification_queue: [Parents -> SUBSET Notes]
    gqueue,    \* group_notification_queue
    told,      \* [Parents -> SUBSET Notes]: what Telegram delivered
    gtold,
    jobDone,   \* scheduler_last_morning is today
    sentToday, \* parents whose morning_sent_<id> is today
    pc, targets, cur, batch, content,  \* the morning job
    gtodo,     \* chat messages it still has to post
    faults,
    summaries, \* [Parents -> 0..2]: complete summaries since dawn
    unsure,    \* parents with a failure between summary and marker since dawn
    refused    \* parents whose summary failed since dawn and was not repeated

clock == <<period, ticks>>
diary == <<log, live, todays, fresh, erasures>>
sending == <<outbox, deferring, posts>>
queues == <<queue, gqueue>>
heard == <<told, gtold>>
markers == <<jobDone, sentToday>>
job == <<pc, targets, cur, batch, content, gtodo>>
tally == <<summaries, unsure, refused>>
vars == <<clock, diary, sending, queues, heard, markers, job, tally, faults>>

DiaryTypes ==
    /\ period \in {"day", "late", "night", "window"} /\ ticks \in 0..MaxTicks
    /\ log \in Seq(Subjects) /\ Len(log) <= MaxWrites
    /\ live \in SUBSET (1..Len(log))
    /\ todays \in SUBSET live /\ fresh \in SUBSET live
    /\ erasures \in 0..MaxErasures

MessageTypes ==
    /\ outbox \in SUBSET (Notes \X Parents) /\ deferring \in SUBSET outbox
    /\ posts \in SUBSET Notes
    /\ queue \in [Parents -> SUBSET Notes] /\ gqueue \in SUBSET Notes
    /\ told \in [Parents -> SUBSET Notes] /\ gtold \in SUBSET Notes

JobTypes ==
    /\ jobDone \in BOOLEAN /\ sentToday \in SUBSET Parents
    /\ pc \in {"idle", "flush", "compose", "send", "delete", "mark", "groups", "marker"}
    /\ targets \in SUBSET Parents /\ cur \in Parents \cup {NoParent}
    /\ batch \in SUBSET Notes /\ content \in SUBSET Notes /\ gtodo \in SUBSET Notes
    /\ faults \in 0..MaxFaults
    /\ summaries \in [Parents -> 0..2]
    /\ unsure \in SUBSET Parents /\ refused \in SUBSET Parents

TypeOK == DiaryTypes /\ MessageTypes /\ JobTypes

Init ==
    /\ period = "day" /\ ticks = 0
    /\ log = <<>> /\ live = {} /\ todays = {} /\ fresh = {} /\ erasures = 0
    /\ outbox = {} /\ deferring = {} /\ posts = {}
    /\ queue = [p \in Parents |-> {}] /\ gqueue = {}
    /\ told = [p \in Parents |-> {}] /\ gtold = {}
    /\ jobDone = FALSE /\ sentToday = {}
    /\ pc = "idle" /\ targets = {} /\ cur = NoParent /\ batch = {} /\ content = {}
    /\ gtodo = {}
    /\ faults = 0
    /\ summaries = [p \in Parents |-> 0] /\ unsure = {} /\ refused = {}

MayHappen == erasures + faults < MaxEvents
Fault == faults < MaxFaults /\ MayHappen /\ faults' = faults + 1
-----------------------------------------------------------------------------
(* The clock. *)

NightFalls ==
    /\ period = "day" /\ pc = "idle"
    /\ period' = "late"
    /\ fresh' = {}
    /\ UNCHANGED <<ticks, log, live, todays, erasures, sending, queues, heard, markers,
                   job, tally, faults>>

\* From now on the polling thread looks at the column of a new date.
Midnight ==
    /\ period = "late"
    /\ period' = "night"
    /\ todays' = {}
    /\ UNCHANGED <<ticks, log, live, fresh, erasures, sending, queues, heard, markers,
                   job, tally, faults>>

\* The date has changed: the markers of yesterday no longer match.
Dawn ==
    /\ period = "night"
    /\ period' = "window" /\ ticks' = 0
    /\ jobDone' = FALSE /\ sentToday' = {}
    /\ summaries' = [p \in Parents |-> 0] /\ unsure' = {} /\ refused' = {}
    /\ UNCHANGED <<diary, sending, queues, heard, job, faults>>

\* The loop ticks every 180 seconds: only a process that was down misses it.
WindowCloses ==
    /\ period = "window"
    /\ period' = "day"
    /\ \/ ticks > 0 /\ UNCHANGED faults
       \/ ticks = 0 /\ Fault
    /\ UNCHANGED <<ticks, diary, sending, queues, heard, markers, job, tally>>
-----------------------------------------------------------------------------
(* The polling thread. *)

RowsOf(s) == {n \in todays : log[n] = s}

\* A grade of today is written; of what its row held nothing is sent any more.
Write(s) ==
    /\ Len(log) < MaxWrites /\ deferring = {}
    /\ LET n == Len(log) + 1
       IN /\ log' = Append(log, s)
          /\ live' = (live \ RowsOf(s)) \cup {n}
          /\ todays' = (todays \ RowsOf(s)) \cup {n}
          /\ fresh' = (fresh \ RowsOf(s)) \cup {n}
          /\ outbox' = {u \in outbox : u[1] \notin RowsOf(s)} \cup ({n} \X Parents)
          /\ posts' = (posts \ RowsOf(s)) \cup {n}
    /\ UNCHANGED <<erasures, deferring, clock, queues, heard, markers, job, tally, faults>>

Erase(s) ==
    /\ erasures < MaxErasures /\ MayHappen /\ deferring = {} /\ RowsOf(s) # {}
    /\ erasures' = erasures + 1
    /\ live' = live \ RowsOf(s)
    /\ todays' = todays \ RowsOf(s)
    /\ fresh' = fresh \ RowsOf(s)
    /\ outbox' = {u \in outbox : u[1] \notin RowsOf(s)}
    /\ posts' = posts \ RowsOf(s)
    /\ UNCHANGED <<log, deferring, clock, queues, heard, markers, job, tally, faults>>

\* is_quiet_hours.
Quiet == period \in {"late", "night"}

SendNow(n, p) ==
    /\ <<n, p>> \in outbox /\ deferring = {} /\ ~Quiet
    /\ outbox' = outbox \ {<<n, p>>}
    /\ told' = [told EXCEPT ![p] = @ \cup {n}]
    /\ UNCHANGED <<deferring, posts, gtold, clock, diary, queues, markers, job, tally, faults>>

\* is_quiet_hours answered True ...
Defer(n, p) ==
    /\ <<n, p>> \in outbox /\ deferring = {} /\ Quiet
    /\ deferring' = {<<n, p>>}
    /\ UNCHANGED <<outbox, posts, clock, diary, queues, heard, markers, job, tally, faults>>

\* Mutant: the queued message is sent again.
EnqueueKeeps(n, p) ==
    /\ <<n, p>> \in deferring
    /\ queue' = [queue EXCEPT ![p] = @ \cup {n}]
    /\ outbox' = outbox \ {<<n, p>>}
    /\ UNCHANGED <<deferring, posts, gqueue, clock, diary, heard, markers, job, tally, faults>>

\* ... and the row is inserted, perhaps after seven o'clock.
Enqueue(n, p) ==
    /\ <<n, p>> \in deferring
    /\ deferring' = {}
    /\ \/ /\ queue' = [queue EXCEPT ![p] = @ \cup {n}]
          /\ outbox' = outbox \ {<<n, p>>}
          /\ UNCHANGED faults
       \/ Fault /\ UNCHANGED <<queue, outbox>>
    /\ UNCHANGED <<posts, gqueue, clock, diary, heard, markers, job, tally>>

\* The chat is told once, best effort.
Post(n) ==
    /\ n \in posts /\ deferring = {}
    /\ posts' = posts \ {n}
    /\ \/ Quiet /\ gqueue' = gqueue \cup {n} /\ UNCHANGED <<gtold, faults>>
       \/ ~Quiet /\ gtold' = gtold \cup {n} /\ UNCHANGED <<gqueue, faults>>
       \/ Fault /\ UNCHANGED <<gqueue, gtold>>
    /\ UNCHANGED <<outbox, deferring, queue, told, clock, diary, markers, job, tally>>
-----------------------------------------------------------------------------
(* The morning job. *)

\* Nothing is left of the parent the job was at.
ForgetParent == cur' = NoParent /\ batch' = {} /\ content' = {}

\* Mutant: without personal messages the job returns before the chats.
TickEarlyReturn ==
    /\ pc = "idle" /\ period = "window" /\ ticks < MaxTicks
    /\ ticks' = ticks + 1
    /\ IF jobDone
       THEN UNCHANGED <<pc, targets>>
       ELSE /\ targets' = {p \in Parents : queue[p] # {}}
            /\ pc' = IF targets' = {} THEN "marker" ELSE "flush"
    /\ UNCHANGED <<period, diary, sending, queues, heard, markers, cur, batch, content,
                   gtodo, tally, faults>>

\* _run_job_safe under its lock: the marker first, then who has messages queued.
Tick ==
    /\ pc = "idle" /\ period = "window" /\ ticks < MaxTicks
    /\ ticks' = ticks + 1
    /\ IF jobDone
       THEN UNCHANGED <<pc, targets>>
       ELSE targets' = {p \in Parents : queue[p] # {}} /\ pc' = "flush"
    /\ UNCHANGED <<period, diary, sending, queues, heard, markers, cur, batch, content,
                   gtodo, tally, faults>>

\* Mutant: the marker of the recipient is not looked at.
PickParentAgain(p) ==
    /\ pc = "flush" /\ p \in targets
    /\ targets' = targets \ {p}
    /\ IF queue[p] = {}
       THEN UNCHANGED <<pc, cur, batch>>
       ELSE pc' = "compose" /\ cur' = p /\ batch' = queue[p]
    /\ UNCHANGED <<clock, diary, sending, queues, heard, markers, content, gtodo, tally, faults>>

PickParent(p) ==
    /\ pc = "flush" /\ p \in targets
    /\ targets' = targets \ {p}
    /\ IF p \in sentToday \/ queue[p] = {}
       THEN UNCHANGED <<pc, cur, batch>>
       ELSE pc' = "compose" /\ cur' = p /\ batch' = queue[p]
    /\ UNCHANGED <<clock, diary, sending, queues, heard, markers, content, gtodo, tally, faults>>

\* get_overnight_grades_for_student: of the rows of the night, whatever their
\* date, the latest of each subject.
Overnight == {n \in fresh : \A m \in fresh : log[m] = log[n] => m <= n}

\* The summary shows the rows of the night as they are now; only if there are
\* none are the queued messages themselves sent.
Compose ==
    /\ pc = "compose"
    /\ content' = IF fresh = {} THEN batch ELSE Overnight
    /\ pc' = "send"
    /\ UNCHANGED <<clock, diary, sending, queues, heard, markers, targets, cur, batch,
                   gtodo, tally, faults>>

SummarySent ==
    /\ pc = "send"
    /\ told' = [told EXCEPT ![cur] = @ \cup content]
    /\ summaries' = [summaries EXCEPT ![cur] = IF @ < 2 THEN @ + 1 ELSE 2]
    /\ refused' = refused \ {cur}
    /\ pc' = "delete"
    /\ UNCHANGED <<clock, diary, sending, queues, gtold, markers, targets, cur, batch,
                   content, gtodo, unsure, faults>>

\* Mutant: a summary of which some parts arrived counts as delivered.
SummaryFailsHalfway ==
    /\ pc = "send"
    /\ Fault
    /\ \E part \in SUBSET content :
          part # content /\ told' = [told EXCEPT ![cur] = @ \cup part]
    /\ refused' = refused \cup {cur}
    /\ pc' = "delete"
    /\ UNCHANGED <<clock, diary, sending, queues, gtold, markers, targets, cur, batch,
                   content, gtodo, summaries, unsure>>

\* A long summary goes out in parts, of which some may have arrived.
SummaryFails ==
    /\ pc = "send"
    /\ Fault
    /\ \E part \in SUBSET content :
          part # content /\ told' = [told EXCEPT ![cur] = @ \cup part]
    /\ refused' = refused \cup {cur}
    /\ pc' = "flush" /\ ForgetParent
    /\ UNCHANGED <<clock, diary, sending, queues, gtold, markers, targets, gtodo,
                   summaries, unsure>>

DeleteQueued ==
    /\ pc = "delete"
    /\ queue' = [queue EXCEPT ![cur] = @ \ batch]
    /\ pc' = "mark"
    /\ UNCHANGED <<clock, diary, sending, gqueue, heard, markers, targets, cur, batch,
                   content, gtodo, tally, faults>>

MarkSent ==
    /\ pc = "mark"
    /\ sentToday' = sentToday \cup {cur}
    /\ pc' = "flush" /\ ForgetParent
    /\ UNCHANGED <<clock, diary, sending, queues, heard, jobDone, targets, gtodo, tally, faults>>

ParentsDone ==
    /\ pc = "flush" /\ targets = {}
    /\ pc' = "groups" /\ gtodo' = gqueue
    /\ UNCHANGED <<clock, diary, sending, queues, heard, markers, targets, cur, batch,
                   content, tally, faults>>

\* Mutant: the message is deleted before it is posted.
PostQueuedDeletedFirst(n) ==
    /\ pc = "groups" /\ n \in gtodo
    /\ gtodo' = gtodo \ {n} /\ gqueue' = gqueue \ {n}
    /\ \/ gtold' = gtold \cup {n} /\ UNCHANGED faults
       \/ Fault /\ UNCHANGED gtold
    /\ UNCHANGED <<clock, diary, sending, queue, told, markers, pc, targets, cur, batch,
                   content, tally>>

\* Post, then delete; a failure of either leaves the message in the queue.
PostQueued(n) ==
    /\ pc = "groups" /\ n \in gtodo
    /\ gtodo' = gtodo \ {n}
    /\ \/ gtold' = gtold \cup {n} /\ gqueue' = gqueue \ {n} /\ UNCHANGED faults
       \/ Fault /\ UNCHANGED gqueue /\ gtold' \in {gtold, gtold \cup {n}}
    /\ UNCHANGED <<clock, diary, sending, queue, told, markers, pc, targets, cur, batch,
                   content, tally>>

GroupsDone ==
    /\ pc = "groups" /\ gtodo = {}
    /\ pc' = "marker"
    /\ UNCHANGED <<clock, diary, sending, queues, heard, markers, targets, cur, batch,
                   content, gtodo, tally, faults>>

SetMarker ==
    /\ pc = "marker"
    /\ jobDone' = TRUE
    /\ pc' = "idle"
    /\ UNCHANGED <<clock, diary, sending, queues, heard, sentToday, targets, cur, batch,
                   content, gtodo, tally, faults>>

\* An exception of the database ends the job without its marker.
JobFails ==
    /\ pc # "idle"
    /\ Fault
    /\ pc' = "idle" /\ targets' = {} /\ gtodo' = {} /\ ForgetParent
    /\ unsure' = IF pc \in {"delete", "mark"} THEN unsure \cup {cur} ELSE unsure
    /\ UNCHANGED <<clock, diary, sending, queues, heard, markers, summaries, refused>>

\* A restart forgets the same, and the message about to be queued.
Crash ==
    /\ Fault
    /\ pc' = "idle" /\ targets' = {} /\ gtodo' = {} /\ ForgetParent
    /\ deferring' = {}
    /\ unsure' = IF pc \in {"delete", "mark"} THEN unsure \cup {cur} ELSE unsure
    /\ UNCHANGED <<clock, diary, outbox, posts, queues, heard, markers, summaries, refused>>

Clock == NightFalls \/ Midnight \/ Dawn \/ WindowCloses

Polling ==
    \/ \E s \in Subjects : Write(s) \/ Erase(s)
    \/ \E n \in Notes, p \in Parents : SendNow(n, p) \/ Defer(n, p) \/ Enqueue(n, p)
    \/ \E n \in Notes : Post(n)

Scheduler ==
    \/ Tick \/ Compose \/ SummarySent \/ SummaryFails \/ DeleteQueued \/ MarkSent
    \/ ParentsDone \/ GroupsDone \/ SetMarker
    \/ \E p \in Parents : PickParent(p)
    \/ \E n \in Notes : PostQueued(n)

Next == Clock \/ Polling \/ Scheduler \/ JobFails \/ Crash

Spec == Init /\ [][Next]_vars

\* Time passes and the scheduler thread runs; a window is left without a tick
\* only at the price of a fault.
FairSpec == Spec /\ WF_vars(Clock) /\ WF_vars(Scheduler)
-----------------------------------------------------------------------------
(* Properties *)

\* What the summary just sent says in place of n: a later grade of its subject.
Overshadowed(n, p) == \E m \in content \cap told[p] : m > n /\ log[m] = log[n]

\* B9 (db/notifications 44-51, schedulers 437-439): a message about a grade of
\* this night leaves a parent's queue only after the parent was told what it
\* says, unless the grade was changed or erased meanwhile, or the summary that
\* was sent shows a later grade of the same subject, which is of the other date
\* of the night (see QueuedReachesParents); writes, erasures and late insertions
\* run between reading the queue, reading the grades and deleting.
NightReachesParents ==
    [][\A p \in Parents : \A n \in (queue[p] \ queue'[p]) \cap fresh :
          n \in told[p] \/ Overshadowed(n, p)]_vars

\* README "quiet hours": the notifications of the night are delivered in the
\* morning, so a message about a grade that still stands leaves the queue only
\* after the parent was told what it says: one whose grade was written before
\* 22:00 and queued after it, and one of a subject graded on both dates of the
\* night, as well.
QueuedReachesParents ==
    [][\A p \in Parents : (queue[p] \ queue'[p]) \cap live \subseteq told[p]]_vars

\* B9 for the chats (schedulers 468-470): their queue cannot be reconstructed,
\* so a message leaves it only after it was posted.
PostedBeforeDeleted == [][gqueue \ gqueue' \subseteq gtold']_vars

\* B10 (schedulers 113-129, 344-345): a parent gets a second summary on one
\* morning only if the process or the database failed between sending the
\* first and marking that parent, however often the job is started again.
SecondSummaryNeedsCrash ==
    \A p \in Parents : summaries[p] > 1 => p \in unsure

\* What the morning job is to the daily promise: its duties are the parents.
Daily == INSTANCE DailyPromise WITH
    Rounds <- {"morning"}, Duties <- Parents,
    stage <- [r \in {"morning"} |->
                 IF jobDone THEN "done" ELSE IF pc # "idle" THEN "called" ELSE "open"],
    waiting <- [r \in {"morning"} |-> {p \in Parents : queue[p] # {}}],
    todo <- [r \in {"morning"} |->
                targets \cup (IF pc \in {"compose", "send"} THEN {cur} ELSE {})],
    dealt <- {p \in Parents : summaries[p] > 0} \cup refused,
    copies <- summaries, excused <- unsure, troubles <- faults

\* One summary a morning, everybody (schedulers 207-226, 308-443): the morning job
\* keeps the promise of a daily round, while messages are queued and deleted.
KeepsDailyPromise == Daily!Spec

\* No message stays in a queue for ever: mornings come, and a family whose
\* personal queue is empty is not forgotten either (schedulers 329-337).
QueuesDrain ==
    \A n \in Notes :
        /\ \A p \in Parents : n \in queue[p] ~> n \notin queue[p]
        /\ n \in gqueue ~> n \notin gqueue
=============================================================================
