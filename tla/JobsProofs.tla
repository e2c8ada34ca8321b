----------------------------- MODULE JobsProofs -----------------------------
(***************************************************************************)
(* Proofs about Jobs, for any number of recipients, children, days, ticks  *)
(* and failures: a job that counts as done has dealt with everybody,       *)
(* nobody hears a message twice without a failure that left it unguarded,  *)
(* an outage of the AI service is reported, and the last warning of a      *)
(* subscription comes before its end.                                      *)
(***************************************************************************)
EXTENDS Jobs, SequenceTheorems, TLAPS

\* The agenda of an hour and what is left of it.
Left(h) == {Agenda(h), Tail(Agenda(h)), <<>>}

\* LoopTypes without arithmetic, and the flags.
LoopInv ==
    /\ agenda \in Left(hour)
    /\ phase \in {"idle", "loop", "mark"} /\ (phase # "idle" => up /\ agenda # <<>>)
    /\ todo \subseteq Units /\ unit \in Units \cup {NoUnit} /\ rest \subseteq Recipients
TypeInv == ClockTypes /\ FlagTypes /\ LoopInv /\ MarkTypes /\ GhostTypes

\* A mark that keeps a job from sending the message of a unit again.
Guarded(j, u) ==
    \/ j \in {"evening", "weekly_text_digest", "subscription", "summer_mode"}
       /\ unitMark[u] = day
    \/ j = "proactive_alerts" /\ SurelyRecent(u)

\* A job at work has not been done today, and works through units of its own.
RunInv ==
    /\ phase = "idle" => unit = NoUnit
    /\ phase # "idle" => marker[Job] # day /\ todo \subseteq UnitsOf(Job)
    /\ phase = "mark" => todo = {} /\ unit = NoUnit
    /\ unit # NoUnit => /\ unit \in UnitsOf(Job) \ todo
                        /\ rest \subseteq Audience(unit)
                        /\ ~ Guarded(Job, unit)

\* Whoever the job has passed was dealt with, and so was the unit marked today.
DealtInv ==
    /\ \A u \in Units : unitMark[u] = day => PairsOf(u) \subseteq settled
    /\ phase # "idle" =>
          \A u \in UnitsOf(Job) \ todo : \A p \in Audience(u) :
              <<u, p>> \in settled \/ (u = unit /\ p \in rest)
    /\ DoneMeansEverybody

\* The run at work has passed recipient p of unit u.
Passed(j, u, p) ==
    phase # "idle" /\ j = Job /\ u \in UnitsOf(j) \ todo /\ (unit = u => p \notin rest)

\* Why the message of a pair will not be sent once more.
Safe(x) ==
    \E j \in JobsOf(hour) :
        /\ x[1] \in UnitsOf(j)
        /\ x \in excused \/ marker[j] = day \/ Guarded(j, x[1]) \/ Passed(j, x[1], x[2])
CopyInv ==
    /\ \A x \in Pairs : copies[x] > 0 => Safe(x)
    /\ RepeatsAreExcused

-----------------------------------------------------------------------------
\* An agenda of one job.
LEMMA OneJob ==
    ASSUME NEW h, NEW j \in ScheduledJobs, Agenda(h) = <<j>>
    PROVE  /\ Agenda(h) \in Seq(ScheduledJobs) /\ Len(Agenda(h)) \in 1..2
           /\ JobsOf(h) = {j} /\ Head(Agenda(h)) = j /\ Tail(Agenda(h)) = <<>>
  BY DEF JobsOf

\* An agenda of two jobs.
LEMMA TwoJobs ==
    ASSUME NEW h, NEW i \in ScheduledJobs, NEW j \in ScheduledJobs, Agenda(h) = <<i, j>>
    PROVE  /\ Agenda(h) \in Seq(ScheduledJobs) /\ Len(Agenda(h)) \in 1..2
           /\ JobsOf(h) = {i, j} /\ Head(Agenda(h)) = i /\ Tail(Agenda(h)) = <<j>>
           /\ Head(Tail(Agenda(h))) = j /\ Tail(Tail(Agenda(h))) = <<>>
<1> DEFINE t == <<j>>
<1>1. t \in Seq(ScheduledJobs) /\ Len(t) = 1 /\ Head(t) = j /\ Tail(t) = <<>>
  OBVIOUS
<1>2. Tail(Agenda(h)) = t
  OBVIOUS
<1>3. JobsOf(h) = {i, j}
  <2>1. 1..Len(Agenda(h)) = {1, 2}
    OBVIOUS
  <2> QED
    BY <2>1 DEF JobsOf
<1> QED
  BY <1>1, <1>2, <1>3

\* An agenda is short and holds jobs of the hour only.
LEMMA AgendaFacts ==
    ASSUME NEW h \in Hours
    PROVE  /\ Agenda(h) \in Seq(ScheduledJobs) /\ Len(Agenda(h)) \in 1..2
           /\ JobsOf(h) \subseteq ScheduledJobs
           /\ \A s \in Left(h) : s # <<>> => Head(s) \in JobsOf(h) /\ Tail(s) \in Left(h)
<1>1. \/ \E j \in ScheduledJobs : Agenda(h) = <<j>>
      \/ \E i, j \in ScheduledJobs : Agenda(h) = <<i, j>>
  <2>1. CASE h \in {3, 10, 11, 15, 17}
    <3>1. \/ Agenda(h) = <<"cleanup">> \/ Agenda(h) = <<"subscription">>
          \/ Agenda(h) = <<"summer_mode">> \/ Agenda(h) = <<"alive">>
          \/ Agenda(h) = <<"proactive_alerts">>
      BY <2>1 DEF Agenda
    <3> QED
      BY <3>1, Zenon DEF ScheduledJobs
  <2>2. CASE h = 18
    <3>1. Agenda(h) = <<"quarter", "weekly_text_digest">>
      BY <2>2 DEF Agenda
    <3> QED
      BY <3>1, Zenon DEF ScheduledJobs
  <2>3. CASE h = 19
    <3>1. Agenda(h) = <<"evening", "weekly_ai_report">>
      BY <2>3 DEF Agenda
    <3> QED
      BY <3>1, Zenon DEF ScheduledJobs
  <2> QED
    BY <2>1, <2>2, <2>3 DEF Hours
<1>2. CASE \E j \in ScheduledJobs : Agenda(h) = <<j>>
  BY <1>2, OneJob DEF Left
<1>3. CASE \E i, j \in ScheduledJobs : Agenda(h) = <<i, j>>
  BY <1>3, TwoJobs DEF Left
<1> QED
  BY <1>1, <1>2, <1>3

\* The suffixes of a sequence of one or two.
LEMMA Suffixes ==
    ASSUME NEW S, NEW a \in Seq(S), Len(a) \in 1..2
    PROVE  \A s \in {a, Tail(a), <<>>} : \E n \in 0..2 : s = SubSeq(a, n + 1, Len(a))
<1>1. a # <<>> /\ Len(a) \in Int /\ Len(a) < 3
  <2>1. \A n \in 1..2 : n \in Int /\ n < 3 /\ n # 0
    OBVIOUS
  <2> QED
    BY <2>1, EmptySeq
<1>2. a = SubSeq(a, 1, Len(a))
  BY SubSeqFull
<1>3. Tail(a) = SubSeq(a, 2, Len(a))
  BY <1>1, TailIsSubSeq
<1>4. <<>> = SubSeq(a, 3, Len(a))
  BY <1>1, SubSeqEmpty
<1>5. 0 \in 0..2 /\ 1 \in 0..2 /\ 2 \in 0..2 /\ 0 + 1 = 1 /\ 1 + 1 = 2 /\ 2 + 1 = 3
  OBVIOUS
<1> QED
  BY <1>2, <1>3, <1>4, <1>5, Zenon

\* What is left of an agenda is a suffix of it.
LEMMA LeftIsSuffix ==
    ASSUME NEW h \in Hours, NEW s \in Left(h)
    PROVE  \E n \in 0..2 : s = SubSeq(Agenda(h), n + 1, Len(Agenda(h)))
  BY AgendaFacts, Suffixes, Zenon DEF Left

\* Within a day the units of a job and the jobs of the hour stay what they are.
LEMMA WorldStays ==
    ASSUME UNCHANGED <<hour, ends, day>>
    PROVE  /\ \A j : UnitsOf(j)' = UnitsOf(j)
           /\ JobsOf(hour)' = JobsOf(hour)
  BY DEF UnitsOf, DueWindows, ExpiringIn, ExpiredToday, UtcDay, JobsOf, Agenda

\* Different jobs of one hour have different units.
LEMMA UnitsApart ==
    ASSUME NEW h \in Hours, NEW i \in JobsOf(h), NEW j \in JobsOf(h),
           NEW u, u \in UnitsOf(i), u \in UnitsOf(j)
    PROVE  i = j
  BY JobsAssumption DEF Hours, JobsOf, Agenda, UnitsOf, AiJobs

\* The job Protected looks at is the one that sends the unit.
LEMMA JobOfUnit ==
    ASSUME hour \in Hours, NEW j \in JobsOf(hour), NEW u, u \in UnitsOf(j)
    PROVE  JobOf(u) = j
<1>1. \E i \in JobsOf(hour) : u \in UnitsOf(i) \/ i = "subscription"
  OBVIOUS
<1>2. JobOf(u) \in JobsOf(hour) /\ (u \in UnitsOf(JobOf(u)) \/ JobOf(u) = "subscription")
  BY <1>1 DEF JobOf
<1>3. "subscription" \in JobsOf(hour) => j = "subscription" /\ JobOf(u) = "subscription"
  BY <1>2 DEF Hours, JobsOf, Agenda
<1> QED
  BY <1>2, <1>3, UnitsApart

\* The units of a job are units.
LEMMA UnitsAreUnits ==
    ASSUME NEW j \in ScheduledJobs
    PROVE  UnitsOf(j) \subseteq Units /\ NoUnit \notin UnitsOf(j)
  BY JobsAssumption DEF ScheduledJobs, UnitsOf, Units, Windows, AiJobs, DueWindows
-----------------------------------------------------------------------------
\* What a step of the loop over the units does: one unit is passed or composed.
LEMMA ReachShape ==
    ASSUME ReachUnit
    PROVE  /\ up /\ phase = "loop" /\ unit = NoUnit
           /\ UNCHANGED <<world, up, agenda, phase, stored, cache, aiFails, aiNotified, copies,
                          warned, silent, alarmed>>
           /\ Fine \/ Trouble
           /\ \E u \in todo :
                 \/ unitMark[u] = day /\ Skip(u)
                 \/ Quiet(u)
                 \/ ~ Guarded(Job, u) /\ ComposeMessage(u)
<1>1. CASE \E p \in Recipients : EveningSummary(p) \/ WeeklyTextDigest(p) \/ BotAlive(p)
  BY <1>1 DEF ReachUnit, EveningSummary, WeeklyTextDigest, BotAlive, InLoop, Guarded
<1>2. CASE \E w \in Windows : SubscriptionExpiry(w)
  BY <1>2 DEF ReachUnit, SubscriptionExpiry, InLoop, Guarded
<1>3. CASE \E c \in Children : ProactiveAlert(c) \/ SummerMode(c) \/ WeeklyAiReport(c)
  <2>1. PICK c \in Children : ProactiveAlert(c) \/ SummerMode(c) \/ WeeklyAiReport(c)
    BY <1>3
  <2>2. CASE ProactiveAlert(c)
    BY <2>2 DEF ReachUnit, ProactiveAlert, InLoop, Guarded
  <2>3. CASE SummerMode(c)
    BY <2>3 DEF ReachUnit, SummerMode, InLoop, Guarded
  <2>4. CASE WeeklyAiReport(c)
    BY <2>4 DEF ReachUnit, WeeklyAiReport, InLoop, Guarded
  <2> QED
    BY <2>1, <2>2, <2>3, <2>4
<1> QED
  BY <1>1, <1>2, <1>3 DEF ReachUnit

\* One of the sends to a recipient.
Sends(p) == JobSends(p) \/ SendMuted(p) \/ SendRefused(p) \/ AnswerLost(p) \/ ReportMissing(p)

\* What a send does: a copy more or none, the recipient done with or tried again.
LEMMA SendShape ==
    ASSUME NEW p, Sends(p)
    PROVE  /\ InSend(p)
           /\ Fine \/ TroubleFor({<<unit, p>>})
           /\ \/ UNCHANGED copies /\ Fine /\ DoneWith(p)
              \/ Copied(p) /\ Fine /\ DoneWith(p)
              \/ Copied(p) /\ TroubleFor({<<unit, p>>})
           /\ DoneWith(p) \/ UNCHANGED <<rest, settled>>
  BY DEF Sends, JobSends, SendMuted, SendRefused, AnswerLost, ReportMissing
-----------------------------------------------------------------------------
\* The first state has the types and all the invariants.
LEMMA InitInv == JobsInit => TypeInv /\ RunInv /\ DealtInv /\ CopyInv
<1> SUFFICES ASSUME JobsInit PROVE TypeInv /\ RunInv /\ DealtInv /\ CopyInv
  OBVIOUS
<1> USE JobsAssumption
<1>1. day \in 1..MaxDay /\ day = 1
  <2>1. ends.day \in 3..MaxDay
    BY DEF JobsInit, Ends
  <2> QED
    BY <2>1 DEF JobsInit
<1>2. ClockTypes
  BY <1>1 DEF JobsInit, ClockTypes
<1>9. FlagTypes
  BY Zenon DEF JobsInit, FlagTypes
<1>3. LoopInv
  BY DEF JobsInit, LoopInv, Left
<1>4. MarkTypes /\ GhostTypes
  BY <1>1 DEF JobsInit, MarkTypes, GhostTypes, Cold
<1>5. RunInv
  BY DEF JobsInit, RunInv
<1>6. \A j \in JobsOf(hour) : marker[j] = Cold
  BY AgendaFacts DEF JobsInit
<1>7. DealtInv
  BY <1>1, <1>6 DEF JobsInit, DealtInv, DoneMeansEverybody, Cold
<1>8. CopyInv
  BY DEF JobsInit, CopyInv, RepeatsAreExcused
<1> QED
  BY <1>2, <1>3, <1>4, <1>5, <1>7, <1>8, <1>9 DEF TypeInv
-----------------------------------------------------------------------------
\* Every step keeps the times and the tallies in their types.
LEMMA ClockStep == TypeInv /\ [JobsNext]_jobVars => ClockTypes'
<1> SUFFICES ASSUME TypeInv, [JobsNext]_jobVars PROVE ClockTypes'
  OBVIOUS
<1> USE JobsAssumption DEF TypeInv, ClockTypes, world
<1>0. ASSUME NEW lost, Fine \/ Trouble \/ TroubleFor(lost)
      PROVE  troubles' \in 0..MaxTroubles
  BY <1>0 DEF Fine, Trouble, TroubleFor
<1>1. CASE StartTick
  BY <1>0, <1>1 DEF StartTick
<1>2. CASE CheckMarker \/ MarkerUnreadable
  BY <1>0, <1>2 DEF CheckMarker, MarkerUnreadable
<1>3. CASE SetJobMarker \/ RunFails \/ MarkUnit \/ MarkIsLost \/ RunEnds
  BY <1>0, <1>3 DEF SetJobMarker, RunFails, MarkUnit, MarkIsLost, RunEnds, LoopEnds
<1>4. CASE ReachUnit
  BY <1>0, <1>4, ReachShape
<1>5. CASE TrackAiOutcome
  BY <1>0, <1>5 DEF TrackAiOutcome, LoopEnds, TrackSuccess, TrackFailure
<1>6. CASE \E p \in Recipients : Sends(p)
  <2>1. PICK p \in Recipients : Sends(p)
    BY <1>6
  <2>2. InSend(p) /\ (Fine \/ TroubleFor({<<unit, p>>}))
    BY <2>1, SendShape
  <2> QED
    BY <1>0, <2>2 DEF InSend
<1>7. CASE SchedulerDies
  BY <1>0, <1>7 DEF SchedulerDies
<1>8. CASE Restart
  BY <1>0, <1>8 DEF Restart
<1>9. CASE NextDay
  BY <1>9 DEF NextDay
<1>10. CASE UNCHANGED jobVars
  BY <1>10 DEF jobVars
<1> QED
  BY <1>1, <1>2, <1>3, <1>4, <1>5, <1>6, <1>7, <1>8, <1>9, <1>10
     DEF JobsNext, SchedulerStep, Sends

\* Every step keeps the flags in their type.
LEMMA FlagStep == TypeInv /\ [JobsNext]_jobVars => FlagTypes'
<1> SUFFICES ASSUME TypeInv, [JobsNext]_jobVars PROVE FlagTypes'
  OBVIOUS
<1> USE DEF TypeInv, FlagTypes, world, Fine, Trouble, TroubleFor
<1>1. CASE StartTick
  BY <1>1, Zenon DEF StartTick
<1>2. CASE CheckMarker \/ MarkerUnreadable
  BY <1>2, Zenon DEF CheckMarker, MarkerUnreadable
<1>3. CASE SetJobMarker \/ RunFails \/ MarkUnit \/ MarkIsLost \/ RunEnds
  BY <1>3, Zenon DEF SetJobMarker, RunFails, MarkUnit, MarkIsLost, RunEnds, LoopEnds
<1>4. CASE ReachUnit
  BY <1>4, ReachShape, Zenon
<1>5. CASE TrackAiOutcome
  BY <1>5, Zenon DEF TrackAiOutcome, LoopEnds, TrackSuccess, TrackFailure
<1>6. CASE \E p \in Recipients : Sends(p)
  BY <1>6, SendShape, Zenon DEF InSend
<1>7. CASE SchedulerDies
  BY <1>7, Zenon DEF SchedulerDies
<1>8. CASE Restart
  BY <1>8, Zenon DEF Restart
<1>9. CASE NextDay
  BY <1>9, Zenon DEF NextDay
<1>10. CASE UNCHANGED jobVars
  BY <1>10, Zenon DEF jobVars
<1> QED
  BY <1>1, Zenon, <1>2, <1>3, <1>4, <1>5, <1>6, <1>7, <1>8, <1>9, <1>10
     DEF JobsNext, SchedulerStep, Sends

\* Whom a unit is about.
LEMMA AudienceIsKnown == \A u : Audience(u) \subseteq Recipients
  BY DEF Audience

\* Every step keeps the agenda a part of the hour's and the place in it.
LEMMA LoopStep == TypeInv /\ [JobsNext]_jobVars => LoopInv'
<1> SUFFICES ASSUME TypeInv, [JobsNext]_jobVars PROVE LoopInv'
  OBVIOUS
<1>0. \A s \in Left(hour) : s # <<>> => Tail(s) \in Left(hour) /\ Head(s) \in ScheduledJobs
  BY AgendaFacts DEF TypeInv, ClockTypes
<1> USE DEF TypeInv, LoopInv, world, loopVars
<1>1. CASE StartTick
  BY <1>1 DEF StartTick, Left
<1>2. CASE CheckMarker
  <2>1. UnitsOf(Job) \subseteq Units
    BY <1>0, <1>2, UnitsAreUnits DEF CheckMarker, Job
  <2> QED
    BY <1>0, <1>2, <2>1 DEF CheckMarker
<1>3. CASE MarkerUnreadable
  BY <1>3 DEF MarkerUnreadable, Left
<1>4. CASE SetJobMarker \/ RunFails
  BY <1>0, <1>4 DEF SetJobMarker, RunFails, AfterJob
<1>5. CASE MarkUnit \/ MarkIsLost \/ RunEnds
  BY <1>5 DEF MarkUnit, MarkIsLost, RunEnds, LoopEnds
<1>6. CASE ReachUnit
  BY <1>6, ReachShape, AudienceIsKnown DEF Skip, Quiet, ComposeMessage
<1>7. CASE TrackAiOutcome
  BY <1>7 DEF TrackAiOutcome, LoopEnds
<1>8. CASE \E p \in Recipients : Sends(p)
  <2>1. PICK p \in Recipients : Sends(p)
    BY <1>8
  <2>2. InSend(p) /\ (DoneWith(p) \/ UNCHANGED rest)
    BY <2>1, SendShape
  <2> QED
    BY <2>2 DEF InSend, DoneWith
<1>9. CASE SchedulerDies
  BY <1>9 DEF SchedulerDies, Left
<1>10. CASE Restart
  BY <1>10 DEF Restart
<1>11. CASE NextDay
  BY <1>11 DEF NextDay
<1>12. CASE UNCHANGED jobVars
  BY <1>12 DEF jobVars
<1> QED
  BY <1>1, <1>2, <1>3, <1>4, <1>5, <1>6, <1>7, <1>8, <1>9, <1>10, <1>11, <1>12
     DEF JobsNext, SchedulerStep, Sends
-----------------------------------------------------------------------------
\* The job at work is one of the hour's.
LEMMA JobIsOfTheHour ==
    ASSUME TypeInv, agenda # <<>>
    PROVE  Job \in JobsOf(hour) /\ Job \in ScheduledJobs
  BY AgendaFacts DEF TypeInv, ClockTypes, LoopInv, Job

\* Every step keeps the markers in their types, and the cache of a marker is
\* the marker or empty.
LEMMA MarkStep == TypeInv /\ [JobsNext]_jobVars => MarkTypes'
<1> SUFFICES ASSUME TypeInv, [JobsNext]_jobVars PROVE MarkTypes'
  OBVIOUS
<1>0. day \in Nat \ {0} /\ day \in 0..day /\ \A n \in 0..day : n \in 0..(day + 1)
  BY JobsAssumption DEF TypeInv, ClockTypes
<1>k. MarkTypes
  BY DEF TypeInv
<1>1. CASE UNCHANGED <<day, stored, cache, aiNotified>>
  BY <1>1, <1>k DEF MarkTypes, stored
<1>2. CASE CheckMarker
  <2>1. Job \in ScheduledJobs
    BY <1>2, JobIsOfTheHour DEF CheckMarker
  <2> QED
    BY <1>0, <1>2, <1>k, <2>1 DEF CheckMarker, MarkTypes, world, stored
<1>3. CASE SetJobMarker
  <2>1. Job \in ScheduledJobs
    BY <1>3, JobIsOfTheHour DEF SetJobMarker, TypeInv, LoopInv
  <2>2. UNCHANGED <<day, unitMark, aiNotified>>
    BY <1>3 DEF SetJobMarker, world, ai
  <2>3. /\ marker' = [marker EXCEPT ![Job] = day]
        /\ cache' = [cache EXCEPT ![Job] = day]
    BY <1>3 DEF SetJobMarker
  <2> QED
    BY <1>0, <1>k, <2>1, <2>2, <2>3 DEF MarkTypes
<1>4. CASE MarkUnit
  <2>1. UNCHANGED <<day, marker, cache, aiNotified>> /\ unit \in Units
    BY <1>4 DEF MarkUnit, world, ai, TypeInv, LoopInv
  <2>2. unitMark' = unitMark \/ unitMark' = [unitMark EXCEPT ![unit] = day]
    BY <1>4 DEF MarkUnit
  <2> QED
    BY <1>0, <1>k, <2>1, <2>2 DEF MarkTypes
<1>5. CASE TrackAiOutcome
  <2>1. UNCHANGED <<day, stored, cache>> /\ aiNotified' \in {aiNotified, day}
    BY <1>5 DEF TrackAiOutcome, TrackSuccess, TrackFailure, world
  <2> QED
    BY <1>0, <1>k, <2>1 DEF MarkTypes, stored
<1>6. CASE SchedulerDies
  <2>1. UNCHANGED <<day, stored, aiNotified>> /\ cache' = [j \in ScheduledJobs |-> Cold]
    BY <1>6 DEF SchedulerDies, world, ai
  <2> QED
    BY <1>0, <1>k, <2>1 DEF MarkTypes, stored, Cold
<1>7. CASE NextDay
  <2>1. UNCHANGED <<stored, cache, aiNotified>> /\ day' = day + 1
    BY <1>7 DEF NextDay, ai
  <2> QED
    BY <1>0, <1>k, <2>1 DEF MarkTypes, stored
<1>8. CASE StartTick \/ MarkerUnreadable \/ RunFails \/ MarkIsLost \/ RunEnds \/ Restart
  BY <1>1, <1>8 DEF StartTick, MarkerUnreadable, RunFails, MarkIsLost, RunEnds, Restart,
                    world, ai
<1>9. CASE ReachUnit
  BY <1>1, <1>9, ReachShape DEF world
<1>10. CASE \E p \in Recipients : Sends(p)
  <2>1. PICK p \in Recipients : Sends(p)
    BY <1>10
  <2>2. InSend(p)
    BY <2>1, SendShape
  <2> QED
    BY <1>1, <2>2 DEF InSend, world
<1>11. CASE UNCHANGED jobVars
  BY <1>1, <1>11 DEF jobVars, world, ai
<1> QED
  BY <1>2, <1>3, <1>4, <1>5, <1>6, <1>7, <1>8, <1>9, <1>10, <1>11
     DEF JobsNext, SchedulerStep, Sends

\* Every step keeps the histories in their types.
LEMMA GhostStep == TypeInv /\ [JobsNext]_jobVars => GhostTypes'
<1> SUFFICES ASSUME TypeInv, [JobsNext]_jobVars PROVE GhostTypes'
  OBVIOUS
<1>k. GhostTypes
  BY DEF TypeInv
<1>f. ASSUME Fine \/ Trouble PROVE excused' \subseteq Pairs
  BY <1>f, <1>k DEF Fine, Trouble, TroubleFor, GhostTypes
<1>1. ASSUME UNCHANGED <<copies, settled>>, Fine \/ Trouble PROVE GhostTypes'
  BY <1>1, <1>f, <1>k DEF GhostTypes
<1>2. CASE StartTick \/ CheckMarker \/ MarkerUnreadable \/ SetJobMarker \/ RunFails
           \/ MarkUnit \/ MarkIsLost \/ RunEnds \/ Restart \/ SchedulerDies
  BY <1>1, <1>2 DEF StartTick, CheckMarker, MarkerUnreadable, SetJobMarker, RunFails,
     MarkUnit, MarkIsLost, RunEnds, Restart, SchedulerDies, ghosts
<1>3. CASE TrackAiOutcome
  BY <1>1, <1>3 DEF TrackAiOutcome, TrackSuccess, TrackFailure
<1>4. CASE ReachUnit
  <2>1. UNCHANGED copies /\ (Fine \/ Trouble)
    BY <1>4, ReachShape
  <2>2. PICK u \in todo : Skip(u) \/ Quiet(u) \/ ComposeMessage(u)
    BY <1>4, ReachShape
  <2>3. PairsOf(u) \subseteq Pairs
    BY AudienceIsKnown DEF PairsOf, Pairs, TypeInv, LoopInv
  <2>4. settled' \subseteq Pairs
    BY <1>k, <2>2, <2>3 DEF GhostTypes, Skip, Quiet, ComposeMessage
  <2> QED
    BY <1>f, <1>k, <2>1, <2>4 DEF GhostTypes
<1>5. CASE \E p \in Recipients : Sends(p)
  <2>1. PICK p \in Recipients : Sends(p)
    BY <1>5
  <2>2. /\ InSend(p) /\ (DoneWith(p) \/ UNCHANGED settled)
        /\ Fine \/ TroubleFor({<<unit, p>>})
        /\ UNCHANGED copies \/ Copied(p)
    BY <2>1, SendShape
  <2>3. <<unit, p>> \in Pairs
    BY <2>2 DEF InSend, Pairs, TypeInv, LoopInv
  <2>4. excused' \subseteq Pairs
    BY <1>k, <2>2, <2>3 DEF Fine, TroubleFor, GhostTypes
  <2>5. settled' \subseteq Pairs
    BY <1>k, <2>2, <2>3 DEF DoneWith, GhostTypes
  <2>6. copies' \in [Pairs -> 0..2]
    BY <1>k, <2>2, <2>3 DEF Copied, GhostTypes
  <2> QED
    BY <2>4, <2>5, <2>6 DEF GhostTypes
<1>6. CASE NextDay
  BY <1>6, <1>k DEF NextDay, GhostTypes
<1>7. CASE UNCHANGED jobVars
  BY <1>1, <1>7 DEF jobVars, ghosts, Fine
<1> QED
  BY <1>2, <1>3, <1>4, <1>5, <1>6, <1>7 DEF JobsNext, SchedulerStep, Sends
-----------------------------------------------------------------------------
\* While nothing the guards read changes they stay.
LEMMA GuardStays ==
    ASSUME UNCHANGED <<day, unitMark>>
    PROVE  \A j, u : Guarded(j, u)' <=> Guarded(j, u)
  BY DEF Guarded, SurelyRecent

\* A job without a marker of today is the only one that runs, on its own units.
LEMMA RunStep == TypeInv /\ RunInv /\ [JobsNext]_jobVars => RunInv'
<1> SUFFICES ASSUME TypeInv, RunInv, [JobsNext]_jobVars PROVE RunInv'
  OBVIOUS
<1>s. ASSUME UNCHANGED <<hour, ends, day, unitMark>>
      PROVE  /\ \A j : UnitsOf(j)' = UnitsOf(j)
             /\ \A j, u : Guarded(j, u)' <=> Guarded(j, u)
  BY <1>s, WorldStays, GuardStays
<1>e. ASSUME phase' = "idle", unit' = NoUnit PROVE RunInv'
  BY <1>e DEF RunInv
<1>1. CASE StartTick
  BY <1>1, <1>e DEF StartTick, RunInv, TypeInv, LoopInv
<1>2. CASE CheckMarker
  <2>1. Job \in ScheduledJobs /\ marker[Job] \in 0..day /\ cache[Job] \in {Cold, marker[Job]}
    BY <1>2, JobIsOfTheHour DEF CheckMarker, TypeInv, MarkTypes
  <2>2. CASE phase' = "idle"
    BY <1>2, <1>e, <2>2 DEF CheckMarker, RunInv
  <2>3. CASE phase' # "idle"
    <3>1. /\ UNCHANGED <<hour, ends, day, agenda, marker, unit, unitMark>>
          /\ phase' = "loop" /\ todo' = UnitsOf(Job) /\ marker[Job] # day /\ unit = NoUnit
      BY <1>2, <2>1, <2>3 DEF CheckMarker, world, stored, RunInv, Cold
    <3>2. UnitsOf(Job)' = UnitsOf(Job) /\ Job' = Job
      BY <1>s, <3>1 DEF Job
    <3> QED
      BY <3>1, <3>2 DEF RunInv
  <2> QED
    BY <2>2, <2>3
<1>3. CASE MarkerUnreadable
  BY <1>3, <1>e DEF MarkerUnreadable, RunInv
<1>4. CASE SetJobMarker \/ RunFails \/ SchedulerDies
  BY <1>4, <1>e DEF SetJobMarker, RunFails, SchedulerDies, AfterJob
<1>5. CASE MarkUnit \/ MarkIsLost
  <2>1. /\ UNCHANGED <<hour, ends, day, agenda, phase, todo, marker>>
        /\ unit' = NoUnit /\ phase = "loop"
    BY <1>5 DEF MarkUnit, MarkIsLost, world, stored
  <2>2. UnitsOf(Job)' = UnitsOf(Job) /\ Job' = Job
    BY <2>1, WorldStays DEF Job
  <2> QED
    BY <2>1, <2>2 DEF RunInv
<1>6. CASE RunEnds \/ TrackAiOutcome
  <2>1. /\ UNCHANGED <<hour, ends, day, agenda, todo, unit, marker>>
        /\ unit = NoUnit /\ phase = "loop" /\ todo = {} /\ phase' = "mark"
    BY <1>6 DEF RunEnds, TrackAiOutcome, LoopEnds, world, stored
  <2>2. UnitsOf(Job)' = UnitsOf(Job) /\ Job' = Job
    BY <2>1, WorldStays DEF Job
  <2> QED
    BY <2>1, <2>2 DEF RunInv
<1>7. CASE ReachUnit
  <2>1. /\ UNCHANGED <<hour, ends, day, agenda, phase, marker, unitMark>>
        /\ unit = NoUnit /\ phase = "loop"
    BY <1>7, ReachShape DEF world, stored
  <2>2. PICK u \in todo : \/ Skip(u) \/ Quiet(u)
                          \/ ~ Guarded(Job, u) /\ ComposeMessage(u)
    BY <1>7, ReachShape
  <2>3. UnitsOf(Job)' = UnitsOf(Job) /\ Job' = Job /\ (Guarded(Job, u)' <=> Guarded(Job, u))
    BY <1>s, <2>1 DEF Job
  <2>4. marker[Job] # day /\ todo \subseteq UnitsOf(Job)
    BY <2>1 DEF RunInv
  <2>5. CASE Skip(u) \/ Quiet(u)
    BY <2>1, <2>3, <2>4, <2>5 DEF RunInv, Skip, Quiet
  <2>6. CASE ~ Guarded(Job, u) /\ ComposeMessage(u)
    <3>1. todo' = todo \ {u} /\ unit' = u /\ rest' = Audience(u)
      BY <2>6 DEF ComposeMessage
    <3>2. u \in UnitsOf(Job)' \ todo'
      BY <2>3, <2>4, <3>1
    <3>3. Audience(unit)' = Audience(u)
      BY <3>1 DEF Audience
    <3>4. ~ Guarded(Job, unit)'
      BY <2>1, <2>3, <2>6, <3>1 DEF Guarded, SurelyRecent
    <3> QED
      BY <2>1, <2>3, <2>4, <3>1, <3>2, <3>3, <3>4 DEF RunInv
  <2> QED
    BY <2>2, <2>5, <2>6
<1>8. CASE \E p \in Recipients : Sends(p)
  <2>1. PICK p \in Recipients : Sends(p)
    BY <1>8
  <2>2. /\ InSend(p) /\ rest' \subseteq rest
    BY <2>1, SendShape DEF DoneWith
  <2>3. /\ UNCHANGED <<hour, ends, day, agenda, phase, todo, unit, marker, unitMark>>
        /\ unit # NoUnit /\ phase = "loop"
    BY <2>2 DEF InSend, world, stored
  <2>4. UnitsOf(Job)' = UnitsOf(Job) /\ Job' = Job /\ (Guarded(Job, unit)' <=> Guarded(Job, unit))
        /\ Audience(unit)' = Audience(unit)
    BY <1>s, <2>3 DEF Job, Audience, Guarded, SurelyRecent
  <2> QED
    BY <2>2, <2>3, <2>4 DEF RunInv
<1>9. CASE Restart
  <2>1. phase = "idle" /\ UNCHANGED <<phase, unit>>
    BY <1>9 DEF Restart, loopVars, TypeInv, LoopInv
  <2> QED
    BY <1>e, <2>1 DEF RunInv
<1>10. CASE NextDay
  <2>1. phase = "idle" /\ UNCHANGED <<phase, unit>>
    BY <1>10 DEF NextDay, loopVars, TypeInv, LoopInv
  <2> QED
    BY <1>e, <2>1 DEF RunInv
<1>11. CASE UNCHANGED jobVars
  <2>1. UNCHANGED <<hour, ends, day, agenda, phase, todo, unit, rest, marker, unitMark>>
    BY <1>11 DEF jobVars, world, stored, loopVars
  <2>2. UnitsOf(Job)' = UnitsOf(Job) /\ Job' = Job /\ (Guarded(Job, unit)' <=> Guarded(Job, unit))
        /\ Audience(unit)' = Audience(unit)
    BY <1>s, <2>1 DEF Job, Audience, Guarded, SurelyRecent
  <2> QED
    BY <2>1, <2>2 DEF RunInv
<1> QED
  BY <1>1, <1>2, <1>3, <1>4, <1>5, <1>6, <1>7, <1>8, <1>9, <1>10, <1>11
     DEF JobsNext, SchedulerStep, Sends
-----------------------------------------------------------------------------
\* What the job has passed stays dealt with while the rest is worked on.
LEMMA DealtStep == TypeInv /\ RunInv /\ DealtInv /\ [JobsNext]_jobVars => DealtInv'
<1> SUFFICES ASSUME TypeInv, RunInv, DealtInv, [JobsNext]_jobVars PROVE DealtInv'
  OBVIOUS
<1> DEFINE Marked == \A u \in Units : unitMark[u] = day => PairsOf(u) \subseteq settled
           Run == phase # "idle" =>
              \A u \in UnitsOf(Job) \ todo : \A p \in Audience(u) :
                 <<u, p>> \in settled \/ (u = unit /\ p \in rest)
<1>0. Marked /\ Run /\ DoneMeansEverybody
  BY DEF DealtInv
<1>s. ASSUME UNCHANGED <<hour, ends, day>>
      PROVE  /\ \A j : UnitsOf(j)' = UnitsOf(j)
             /\ JobsOf(hour)' = JobsOf(hour)
             /\ \A u : PairsOf(u)' = PairsOf(u) /\ Audience(u)' = Audience(u)
  BY <1>s, WorldStays DEF PairsOf, Audience
<1>m. ASSUME UNCHANGED <<hour, ends, day, unitMark>>, settled \subseteq settled' PROVE Marked'
  BY <1>0, <1>m DEF PairsOf, Audience
<1>d. ASSUME UNCHANGED <<hour, ends, day, marker>>, settled \subseteq settled'
      PROVE DoneMeansEverybody'
  <2>1. /\ JobsOf(hour)' = JobsOf(hour)
        /\ \A j : UnitsOf(j)' = UnitsOf(j)
        /\ \A u : PairsOf(u)' = PairsOf(u)
    BY <1>d, <1>s
  <2> QED
    BY <1>0, <1>d, <2>1 DEF DoneMeansEverybody
<1>e. ASSUME UNCHANGED <<hour, ends, day, stored>>, settled' = settled, phase' = "idle"
      PROVE  DealtInv'
  BY <1>d, <1>e, <1>m DEF DealtInv, stored
<1>1. CASE StartTick
  BY <1>1, <1>e DEF StartTick, TypeInv, LoopInv, ghosts
<1>2. CASE CheckMarker
  <2>1. UNCHANGED <<hour, ends, day, stored, settled>>
    BY <1>2 DEF CheckMarker, world, ghosts
  <2>2. CASE phase' = "idle"
    BY <1>e, <2>1, <2>2
  <2>3. CASE phase' # "idle"
    <3>1. UNCHANGED agenda /\ todo' = UnitsOf(Job)
      BY <1>2, <2>3 DEF CheckMarker
    <3>2. UnitsOf(Job)' = UnitsOf(Job) /\ Job' = Job
      BY <1>s, <2>1, <3>1 DEF Job
    <3>3. Marked' /\ DoneMeansEverybody'
      BY <1>d, <1>m, <2>1 DEF stored
    <3> QED
      BY <3>1, <3>2, <3>3 DEF DealtInv
  <2> QED
    BY <2>2, <2>3
<1>3. CASE MarkerUnreadable
  BY <1>3, <1>e DEF MarkerUnreadable, world
<1>4. CASE RunFails \/ SchedulerDies
  BY <1>4, <1>e DEF RunFails, SchedulerDies, AfterJob, world
<1>5. CASE SetJobMarker
  <2>1. /\ UNCHANGED <<hour, ends, day, unitMark, settled>> /\ phase' = "idle"
        /\ marker' = [marker EXCEPT ![Job] = day] /\ todo = {} /\ unit = NoUnit
        /\ phase = "mark"
    BY <1>5 DEF SetJobMarker, AfterJob, world, ghosts, RunInv
  <2>2. Marked'
    BY <1>m, <2>1
  <2>3. Job \in ScheduledJobs /\ NoUnit \notin UnitsOf(Job) /\ marker \in [ScheduledJobs -> 0..day]
    BY <2>1, JobIsOfTheHour, UnitsAreUnits DEF TypeInv, LoopInv, MarkTypes
  <2>4. \A u \in UnitsOf(Job) : PairsOf(u) \subseteq settled
    BY <1>0, <2>1, <2>3 DEF PairsOf
  <2>5. DoneMeansEverybody'
    <3>1. JobsOf(hour) \subseteq ScheduledJobs
      BY AgendaFacts DEF TypeInv, ClockTypes
    <3>2. \A j \in JobsOf(hour) :
             marker'[j] = day => \A u \in UnitsOf(j) : PairsOf(u) \subseteq settled
      BY <1>0, <2>1, <2>3, <2>4, <3>1 DEF DoneMeansEverybody
    <3> QED
      BY <1>s, <2>1, <3>2 DEF DoneMeansEverybody
  <2> QED
    BY <2>1, <2>2, <2>5 DEF DealtInv
<1>6. CASE MarkUnit \/ MarkIsLost
  <2>1. /\ UNCHANGED <<hour, ends, day, agenda, phase, todo, rest, marker, settled>>
        /\ unitMark' = unitMark \/ unitMark' = [unitMark EXCEPT ![unit] = day]
        /\ unit # NoUnit /\ rest = {} /\ unit' = NoUnit /\ phase = "loop"
    BY <1>6 DEF MarkUnit, MarkIsLost, world, stored, ghosts
  <2>2. PairsOf(unit) \subseteq settled
    BY <1>0, <2>1 DEF RunInv, PairsOf
  <2>3. unitMark \in [Units -> 0..day] /\ unit \in Units
    BY <2>1 DEF TypeInv, MarkTypes, LoopInv
  <2>4. Marked'
    BY <1>0, <1>s, <2>1, <2>2, <2>3
  <2>5. UnitsOf(Job)' = UnitsOf(Job) /\ Job' = Job
    BY <1>s, <2>1 DEF Job
  <2>6. Run'
    BY <1>0, <1>s, <2>1, <2>5
  <2> QED
    BY <1>d, <2>1, <2>4, <2>6 DEF DealtInv
<1>7. CASE RunEnds \/ TrackAiOutcome
  <2>1. /\ UNCHANGED <<hour, ends, day, agenda, todo, unit, rest, stored, settled>>
        /\ phase = "loop"
    BY <1>7 DEF RunEnds, TrackAiOutcome, LoopEnds, world, ghosts
  <2>2. UnitsOf(Job)' = UnitsOf(Job) /\ Job' = Job
    BY <1>s, <2>1 DEF Job
  <2>3. Run'
    BY <1>0, <1>s, <2>1, <2>2
  <2> QED
    BY <1>d, <1>m, <2>1, <2>3 DEF DealtInv, stored
<1>8. CASE ReachUnit
  <2>1. /\ UNCHANGED <<hour, ends, day, agenda, phase, stored>>
        /\ unit = NoUnit /\ phase = "loop"
    BY <1>8, ReachShape DEF world
  <2>2. PICK u \in todo : \/ unitMark[u] = day /\ Skip(u)
                          \/ Quiet(u)
                          \/ ComposeMessage(u)
    BY <1>8, ReachShape
  <2>3. settled \subseteq settled'
    BY <2>2 DEF Skip, Quiet, ComposeMessage
  <2>4. UnitsOf(Job)' = UnitsOf(Job) /\ Job' = Job /\ NoUnit \notin UnitsOf(Job) /\ u \in Units
    BY <1>s, <2>1, JobIsOfTheHour, UnitsAreUnits DEF Job, TypeInv, LoopInv
  <2>5. /\ todo' = todo \ {u}
        /\ \/ PairsOf(u) \subseteq settled'
           \/ unit' = u /\ rest' = Audience(u)
    BY <1>0, <2>2, <2>4 DEF Skip, Quiet, ComposeMessage
  <2>6. \A v \in UnitsOf(Job) \ todo : PairsOf(v) \subseteq settled'
    BY <1>0, <2>1, <2>3, <2>4 DEF PairsOf
  <2>7. Run'
    BY <1>s, <2>1, <2>4, <2>5, <2>6 DEF PairsOf
  <2> QED
    BY <1>d, <1>m, <2>1, <2>3, <2>7 DEF DealtInv, stored
<1>9. CASE \E p \in Recipients : Sends(p)
  <2>1. PICK p \in Recipients : Sends(p)
    BY <1>9
  <2>2. InSend(p) /\ (DoneWith(p) \/ UNCHANGED <<rest, settled>>)
    BY <2>1, SendShape
  <2>3. /\ UNCHANGED <<hour, ends, day, agenda, phase, todo, unit, stored>>
        /\ phase = "loop"
    BY <2>2 DEF InSend, world
  <2>4. UnitsOf(Job)' = UnitsOf(Job) /\ Job' = Job /\ settled \subseteq settled'
    BY <1>s, <2>2, <2>3 DEF Job, DoneWith
  <2>5. \A q : q \in rest => q \in rest' \/ <<unit, q>> \in settled'
    BY <2>2 DEF DoneWith
  <2>6. \A u \in UnitsOf(Job) \ todo : \A q \in Audience(u) :
           <<u, q>> \in settled' \/ (u = unit /\ q \in rest')
    BY <1>0, <2>3, <2>4, <2>5
  <2>7. \A u : Audience(u)' = Audience(u)
    BY <1>s, <2>3
  <2>8. Run'
    BY <2>3, <2>4, <2>6, <2>7
  <2> QED
    BY <1>d, <1>m, <2>3, <2>4, <2>8 DEF DealtInv, stored
<1>10. CASE Restart
  BY <1>10, <1>e DEF Restart, loopVars, TypeInv, LoopInv, ghosts
<1>11. CASE NextDay
  <2>1. /\ phase' = "idle" /\ day' = day + 1 /\ hour' = hour /\ UNCHANGED stored
        /\ JobsOf(hour)' = JobsOf(hour)
    BY <1>11 DEF NextDay, loopVars, TypeInv, LoopInv, JobsOf, Agenda
  <2>2. /\ \A u \in Units : unitMark[u] # day + 1
        /\ \A j \in ScheduledJobs : marker[j] # day + 1
    BY JobsAssumption DEF TypeInv, ClockTypes, MarkTypes
  <2>3. JobsOf(hour) \subseteq ScheduledJobs
    BY AgendaFacts DEF TypeInv, ClockTypes
  <2>4. DoneMeansEverybody'
    BY <2>1, <2>2, <2>3 DEF DoneMeansEverybody, stored
  <2>5. Marked'
    BY <2>1, <2>2 DEF stored
  <2> QED
    BY <2>1, <2>4, <2>5 DEF DealtInv
<1>12. CASE UNCHANGED jobVars
  <2>1. UNCHANGED <<hour, ends, day, agenda, phase, todo, unit, rest, stored, settled>>
    BY <1>12 DEF jobVars, world, loopVars, ghosts
  <2>2. UnitsOf(Job)' = UnitsOf(Job) /\ Job' = Job
    BY <1>s, <2>1 DEF Job
  <2>3. Run'
    BY <1>0, <1>s, <2>1, <2>2
  <2> QED
    BY <1>d, <1>m, <2>1, <2>3 DEF DealtInv, stored
<1> QED
  BY <1>1, <1>2, <1>3, <1>4, <1>5, <1>6, <1>7, <1>8, <1>9, <1>10, <1>11, <1>12
     DEF JobsNext, SchedulerStep, Sends
-----------------------------------------------------------------------------
\* A failure excuses every copy nothing stands against.
LEMMA TroubleExcuses ==
    ASSUME TypeInv, NEW lost, TroubleFor(lost), NEW j \in JobsOf(hour),
           NEW x \in Pairs, x[1] \in UnitsOf(j), copies[x] > 0
    PROVE  x \in excused' \/ marker[j] = day \/ Guarded(j, x[1])
<1>1. JobOf(x[1]) = j
  BY JobOfUnit DEF TypeInv, ClockTypes
<1>2. Protected(x[1]) => marker[j] = day \/ Guarded(j, x[1])
  BY <1>1 DEF Protected, Guarded
<1> QED
  BY <1>2 DEF TroubleFor

\* A failure that sends nothing leaves every pair safe.
LEMMA TroubleKeepsSafe ==
    ASSUME TypeInv, CopyInv, NEW lost, TroubleFor(lost),
           UNCHANGED <<hour, ends, day, stored, copies>>
    PROVE  CopyInv'
<1>1. excused \subseteq excused'
  BY DEF TroubleFor
<1>2. ASSUME NEW x \in Pairs, copies[x] > 0 PROVE Safe(x)'
  <2>1. PICK j \in JobsOf(hour) : x[1] \in UnitsOf(j)
    BY <1>2 DEF CopyInv, Safe
  <2>2. x \in excused' \/ marker[j] = day \/ Guarded(j, x[1])
    BY <1>2, <2>1, TroubleExcuses
  <2>3. /\ JobsOf(hour)' = JobsOf(hour) /\ UnitsOf(j)' = UnitsOf(j)
        /\ Guarded(j, x[1])' <=> Guarded(j, x[1])
    BY WorldStays, GuardStays DEF stored
  <2> QED
    BY <2>1, <2>2, <2>3 DEF Safe, stored
<1> QED
  BY <1>1, <1>2 DEF CopyInv, RepeatsAreExcused

\* A quiet step that keeps what was passed leaves every pair safe.
LEMMA QuietKeepsSafe ==
    ASSUME CopyInv, Fine, UNCHANGED <<hour, ends, day, stored, copies>>,
           \A j, u, p : Passed(j, u, p) => Passed(j, u, p)'
    PROVE  CopyInv'
<1>1. JobsOf(hour)' = JobsOf(hour) /\ (\A j : UnitsOf(j)' = UnitsOf(j))
      /\ (\A j, u : Guarded(j, u)' <=> Guarded(j, u))
  BY WorldStays, GuardStays DEF stored
<1>2. ASSUME NEW x, Safe(x) PROVE Safe(x)'
  BY <1>1, <1>2 DEF Safe, Fine, stored
<1> QED
  BY <1>2 DEF CopyInv, RepeatsAreExcused, Fine

\* Whoever is being sent a message has not had it, or is excused.
LEMMA SentOnce ==
    ASSUME TypeInv, RunInv, CopyInv, NEW p, InSend(p)
    PROVE  <<unit, p>> \in Pairs /\ (copies[<<unit, p>>] > 0 => <<unit, p>> \in excused)
<1>1. phase = "loop" /\ unit # NoUnit /\ p \in rest
  BY DEF InSend
<1>2. Job \in JobsOf(hour) /\ unit \in UnitsOf(Job) \ todo
  BY <1>1, JobIsOfTheHour DEF TypeInv, LoopInv, RunInv
<1>3. PICK x \in Pairs : x = <<unit, p>> /\ x[1] = unit /\ x[2] = p
  <2>1. <<unit, p>> \in Pairs
    BY <1>1 DEF Pairs, TypeInv, LoopInv
  <2> QED
    BY <2>1
<1>4. SUFFICES ASSUME Safe(x) PROVE x \in excused
  BY <1>3 DEF CopyInv
<1>5. PICK j \in JobsOf(hour) :
         /\ unit \in UnitsOf(j)
         /\ x \in excused \/ marker[j] = day \/ Guarded(j, unit) \/ Passed(j, unit, p)
  BY <1>3, <1>4 DEF Safe
<1>6. j = Job
  BY <1>2, <1>5, UnitsApart DEF TypeInv, ClockTypes
<1>7. marker[Job] # day /\ ~ Guarded(Job, unit) /\ ~ Passed(Job, unit, p)
  BY <1>1 DEF RunInv, Passed
<1> QED
  BY <1>5, <1>6, <1>7

\* No message goes out again without a failure that left it unguarded.
LEMMA CopyStep == TypeInv /\ RunInv /\ CopyInv /\ [JobsNext]_jobVars => CopyInv'
<1> SUFFICES ASSUME TypeInv, RunInv, CopyInv, [JobsNext]_jobVars PROVE CopyInv'
  OBVIOUS
<1>t. ASSUME Trouble, UNCHANGED <<hour, ends, day, stored, copies>> PROVE CopyInv'
  BY <1>t, TroubleKeepsSafe DEF Trouble
<1>q. ASSUME Fine, UNCHANGED <<hour, ends, day, stored, copies>>, phase = "idle" PROVE CopyInv'
  BY <1>q, QuietKeepsSafe DEF Passed
<1>1. CASE StartTick
  BY <1>1, <1>q DEF StartTick, TypeInv, LoopInv, ghosts
<1>2. CASE CheckMarker
  BY <1>2, <1>q DEF CheckMarker, world, ghosts
<1>3. CASE Restart
  BY <1>3, <1>q DEF Restart, TypeInv, LoopInv, ghosts
<1>4. CASE MarkerUnreadable \/ RunFails \/ SchedulerDies \/ MarkIsLost
  BY <1>4, <1>t DEF MarkerUnreadable, RunFails, SchedulerDies, MarkIsLost, world
<1>5. CASE RunEnds \/ TrackAiOutcome
  <2>1. /\ UNCHANGED <<hour, ends, day, agenda, todo, unit, rest, stored, copies>>
        /\ phase = "loop" /\ phase' = "mark" /\ (Fine \/ Trouble)
    BY <1>5 DEF RunEnds, TrackAiOutcome, TrackSuccess, TrackFailure, LoopEnds, world, ghosts
  <2>2. Job' = Job /\ \A j : UnitsOf(j)' = UnitsOf(j)
    BY <2>1, WorldStays DEF Job
  <2>3. \A j, u, p : Passed(j, u, p) => Passed(j, u, p)'
    BY <2>1, <2>2 DEF Passed
  <2> QED
    BY <1>t, <2>1, <2>3, QuietKeepsSafe
<1>6. CASE SetJobMarker
  <2>1. /\ UNCHANGED <<hour, ends, day, unitMark, copies, excused>> /\ phase = "mark"
        /\ marker' = [marker EXCEPT ![Job] = day]
    BY <1>6 DEF SetJobMarker, world, ghosts
  <2>2. Job \in ScheduledJobs /\ marker \in [ScheduledJobs -> 0..day]
    BY <2>1, JobIsOfTheHour DEF TypeInv, LoopInv, MarkTypes
  <2>3. JobsOf(hour) \subseteq ScheduledJobs
    BY AgendaFacts DEF TypeInv, ClockTypes
  <2>4. /\ JobsOf(hour)' = JobsOf(hour) /\ \A j : UnitsOf(j)' = UnitsOf(j)
        /\ \A j, u : Guarded(j, u)' <=> Guarded(j, u)
    BY <2>1, WorldStays, GuardStays
  <2>5. ASSUME NEW x, Safe(x) PROVE Safe(x)'
    <3>1. PICK j \in JobsOf(hour) :
             /\ x[1] \in UnitsOf(j)
             /\ x \in excused \/ marker[j] = day \/ Guarded(j, x[1]) \/ Passed(j, x[1], x[2])
      BY <2>5 DEF Safe
    <3>2. marker'[j] = marker[j] \/ marker'[j] = day
      BY <2>1, <2>2, <2>3
    <3>3. Passed(j, x[1], x[2]) => marker'[j] = day
      BY <2>1, <2>2 DEF Passed
    <3> QED
      BY <2>1, <2>4, <3>1, <3>2, <3>3 DEF Safe
  <2> QED
    BY <2>1, <2>5 DEF CopyInv, RepeatsAreExcused
<1>7. CASE MarkUnit
  <2>1. /\ UNCHANGED <<hour, ends, day, agenda, phase, todo, rest, marker, copies, excused>>
        /\ unit' = NoUnit /\ unit # NoUnit /\ rest = {} /\ phase = "loop"
        /\ unitMark' = unitMark \/ unitMark' = [unitMark EXCEPT ![unit] = day]
    BY <1>7 DEF MarkUnit, world, ghosts
  <2>2. /\ JobsOf(hour)' = JobsOf(hour) /\ (\A j : UnitsOf(j)' = UnitsOf(j)) /\ Job' = Job
    BY <2>1, WorldStays DEF Job
  <2>3. \A j, u, p : Passed(j, u, p) => Passed(j, u, p)'
    BY <2>1, <2>2 DEF Passed
  <2>4. ASSUME NEW j, NEW u \in Units, Guarded(j, u) PROVE Guarded(j, u)'
    <3>1. unitMark'[u] = unitMark[u] \/ unitMark'[u] = day
      BY <2>1 DEF TypeInv, MarkTypes
    <3>2. day \in Nat \ {0} /\ day < day + AlertCooldown
      BY JobsAssumption DEF TypeInv, ClockTypes
    <3> QED
      BY <2>1, <2>4, <3>1, <3>2 DEF Guarded, SurelyRecent, Cold
  <2>5. ASSUME NEW x \in Pairs, Safe(x) PROVE Safe(x)'
    <3>1. x[1] \in Units
      BY DEF Pairs
    <3> QED
      BY <2>1, <2>2, <2>3, <2>4, <2>5, <3>1 DEF Safe
  <2> QED
    BY <2>1, <2>5 DEF CopyInv, RepeatsAreExcused
<1>8. CASE ReachUnit
  <2>1. /\ UNCHANGED <<hour, ends, day, agenda, phase, stored, copies>>
        /\ unit = NoUnit /\ phase = "loop" /\ (Fine \/ Trouble)
    BY <1>8, ReachShape DEF world
  <2>2. PICK u \in todo : Skip(u) \/ Quiet(u) \/ ComposeMessage(u)
    BY <1>8, ReachShape
  <2>3. todo' = todo \ {u} /\ (unit' = unit \/ unit' = u)
    BY <2>2 DEF Skip, Quiet, ComposeMessage
  <2>4. Job' = Job /\ \A j : UnitsOf(j)' = UnitsOf(j)
    BY <2>1, WorldStays DEF Job
  <2>5. NoUnit \notin UnitsOf(Job)
    BY <2>1, JobIsOfTheHour, UnitsAreUnits DEF TypeInv, LoopInv
  <2>6. \A j, v, p : Passed(j, v, p) => Passed(j, v, p)'
    BY <2>1, <2>2, <2>3, <2>4, <2>5 DEF Passed
  <2> QED
    BY <1>t, <2>1, <2>6, QuietKeepsSafe
<1>9. CASE \E p \in Recipients : Sends(p)
  <2>1. PICK p \in Recipients : Sends(p)
    BY <1>9
  <2>2. /\ InSend(p) /\ rest' \subseteq rest
        /\ \/ UNCHANGED copies /\ Fine
           \/ Copied(p) /\ Fine /\ DoneWith(p)
           \/ Copied(p) /\ TroubleFor({<<unit, p>>})
    BY <2>1, SendShape DEF DoneWith
  <2>3. /\ UNCHANGED <<hour, ends, day, agenda, phase, todo, unit, stored>>
        /\ phase = "loop" /\ unit # NoUnit /\ p \in rest
    BY <2>2 DEF InSend, world
  <2>4. /\ JobsOf(hour)' = JobsOf(hour) /\ (\A j : UnitsOf(j)' = UnitsOf(j)) /\ Job' = Job
        /\ \A j, u : Guarded(j, u)' <=> Guarded(j, u)
    BY <2>3, WorldStays, GuardStays DEF Job, stored
  <2>5. \A j, u, q : Passed(j, u, q) => Passed(j, u, q)'
    BY <2>2, <2>3, <2>4 DEF Passed
  <2>6. Job \in JobsOf(hour) /\ unit \in UnitsOf(Job) \ todo
    BY <2>3, JobIsOfTheHour DEF TypeInv, LoopInv, RunInv
  <2>7. PICK x0 \in Pairs : x0 = <<unit, p>> /\ x0[1] = unit /\ x0[2] = p
    <3>1. <<unit, p>> \in Pairs
      BY <2>3 DEF Pairs, TypeInv, LoopInv
    <3> QED
      BY <3>1
  <2>8. copies[x0] > 0 => x0 \in excused
    BY <2>2, <2>7, SentOnce
  <2>9. CASE UNCHANGED copies /\ Fine
    BY <2>3, <2>5, <2>9, QuietKeepsSafe
  <2>10. Copied(p) => /\ \A x \in Pairs : x # x0 => copies'[x] = copies[x]
                      /\ copies[x0] = 0 => copies'[x0] = 1
                      /\ copies[x0] \in 0..2
    BY <2>7 DEF Copied, TypeInv, GhostTypes
  <2>11. CASE Copied(p) /\ Fine /\ DoneWith(p)
    <3>1. Passed(Job, unit, p)'
      BY <2>3, <2>4, <2>6, <2>11 DEF Passed, DoneWith
    <3>2. Safe(x0)'
      BY <2>3, <2>4, <2>6, <2>7, <3>1 DEF Safe
    <3>3. ASSUME NEW x, Safe(x) PROVE Safe(x)'
      BY <2>3, <2>4, <2>5, <2>11, <3>3 DEF Safe, Fine, stored
    <3>4. \A x \in Pairs : copies'[x] > 0 => Safe(x)'
      BY <2>10, <2>11, <3>2, <3>3 DEF CopyInv
    <3>5. \A x \in Pairs : copies'[x] > 1 => x \in excused'
      BY <2>8, <2>10, <2>11 DEF CopyInv, RepeatsAreExcused, Fine
    <3> QED
      BY <3>4, <3>5 DEF CopyInv, RepeatsAreExcused
  <2>12. CASE Copied(p) /\ TroubleFor({<<unit, p>>})
    <3>1. x0 \in excused' /\ excused \subseteq excused'
      BY <2>7, <2>12 DEF TroubleFor
    <3>2. Safe(x0)'
      BY <2>4, <2>6, <2>7, <3>1 DEF Safe
    <3>3. ASSUME NEW x \in Pairs, copies[x] > 0 PROVE Safe(x)'
      <4>1. PICK j \in JobsOf(hour) : x[1] \in UnitsOf(j)
        BY <3>3 DEF CopyInv, Safe
      <4>2. x \in excused' \/ marker[j] = day \/ Guarded(j, x[1])
        BY <2>12, <3>3, <4>1, TroubleExcuses
      <4> QED
        BY <2>3, <2>4, <4>1, <4>2 DEF Safe, stored
    <3>4. \A x \in Pairs : copies'[x] > 0 => Safe(x)'
      BY <2>10, <2>12, <3>2, <3>3
    <3>5. \A x \in Pairs : copies'[x] > 1 => x \in excused'
      BY <2>10, <2>12, <3>1 DEF CopyInv, RepeatsAreExcused
    <3> QED
      BY <3>4, <3>5 DEF CopyInv, RepeatsAreExcused
  <2> QED
    BY <2>2, <2>9, <2>11, <2>12
<1>10. CASE NextDay
  <2>1. /\ UNCHANGED <<hour, ends, unitMark, marker>> /\ day' = day + 1
        /\ hour = 17 => excused' = excused
        /\ copies' = [x \in Pairs |->
              IF hour = 17 /\ unitMark[x[1]] # Cold
                 /\ day + 1 < unitMark[x[1]] + AlertCooldown
              THEN copies[x] ELSE 0]
    BY <1>10 DEF NextDay, stored
  <2>2. ASSUME NEW x \in Pairs, copies'[x] > 0
        PROVE  /\ hour = 17 /\ copies'[x] = copies[x] /\ unitMark[x[1]] # Cold
               /\ day + 1 < unitMark[x[1]] + AlertCooldown
    BY <2>1, <2>2
  <2>3. ASSUME NEW x \in Pairs, copies'[x] > 0 PROVE Safe(x)'
    <3>1. PICK j \in JobsOf(hour) : x[1] \in UnitsOf(j)
      BY <2>2, <2>3 DEF CopyInv, Safe
    <3>2. j = "proactive_alerts" /\ j \in JobsOf(hour)' /\ UnitsOf(j)' = UnitsOf(j)
      BY <2>1, <2>2, <2>3, <3>1 DEF JobsOf, Agenda, UnitsOf, AiJobs
    <3>3. Guarded(j, x[1])'
      BY <2>1, <2>2, <2>3, <3>2 DEF Guarded, SurelyRecent
    <3> QED
      BY <3>1, <3>2, <3>3 DEF Safe
  <2>4. ASSUME NEW x \in Pairs, copies'[x] > 1 PROVE x \in excused'
    <3>1. copies'[x] > 0
      BY <2>1, <2>4 DEF TypeInv, GhostTypes
    <3> QED
      BY <2>1, <2>2, <2>4, <3>1 DEF CopyInv, RepeatsAreExcused
  <2> QED
    BY <2>3, <2>4 DEF CopyInv, RepeatsAreExcused
<1>11. CASE UNCHANGED jobVars
  <2>1. UNCHANGED <<hour, ends, day, agenda, phase, todo, unit, rest, stored, copies>> /\ Fine
    BY <1>11 DEF jobVars, world, loopVars, ghosts, Fine
  <2>2. Job' = Job /\ \A j : UnitsOf(j)' = UnitsOf(j)
    BY <2>1, WorldStays DEF Job
  <2>3. \A j, u, p : Passed(j, u, p) => Passed(j, u, p)'
    BY <2>1, <2>2 DEF Passed
  <2> QED
    BY <2>1, <2>3, QuietKeepsSafe
<1> QED
  BY <1>1, <1>2, <1>3, <1>4, <1>5, <1>6, <1>7, <1>8, <1>9, <1>10, <1>11
     DEF JobsNext, SchedulerStep, Sends

-----------------------------------------------------------------------------
\* All the parts hold together.
JobsInv == TypeInv /\ RunInv /\ DealtInv /\ CopyInv
LEMMA JobsInvariant == JobsSpec => []JobsInv
<1>1. JobsInit => JobsInv
  BY InitInv DEF JobsInv
<1>2. JobsInv /\ [JobsNext]_jobVars => JobsInv'
  BY ClockStep, FlagStep, LoopStep, MarkStep, GhostStep, RunStep, DealtStep, CopyStep
     DEF JobsInv, TypeInv
<1> QED
  BY <1>1, <1>2, PTL DEF JobsSpec

\* The scheduler's markers, cache and place in its loop stay what they are
\* meant to be (schedulers 71-105, 207-287): the cache of a marker is the stored
\* marker or empty, and a tick only ever holds jobs of its hour.
THEOREM TypeCorrect == JobsSpec => []JobsTypeOK
<1>1. JobsInv => JobsTypeOK
  <2>1. ASSUME TypeInv PROVE \E n \in 0..2 : agenda = SubSeq(Agenda(hour), n + 1, Len(Agenda(hour)))
    BY <2>1, LeftIsSuffix DEF TypeInv, ClockTypes, LoopInv
  <2> QED
    BY <2>1 DEF JobsInv, TypeInv, JobsTypeOK, LoopInv, LoopTypes
<1> QED
  BY <1>1, JobsInvariant, PTL

\* A job whose marker is today's has dealt with every recipient (schedulers
\* 207-226), whatever failed or died on the way.
THEOREM NobodyLeftOut == JobsSpec => []DoneMeansEverybody
<1>1. JobsInv => DoneMeansEverybody
  BY DEF JobsInv, DealtInv
<1> QED
  BY <1>1, JobsInvariant, PTL

\* Nobody is sent the message of a unit twice in a day (an alert twice within
\* its cooldown) unless a failure struck while nothing stored stood against it.
THEOREM NoSpam == JobsSpec => []RepeatsAreExcused
<1>1. JobsInv => RepeatsAreExcused
  BY DEF JobsInv, CopyInv
<1> QED
  BY <1>1, JobsInvariant, PTL

-----------------------------------------------------------------------------
(* The daily promise: every step maps to a step of DailyPromise or a stutter. *)

\* The functions of the refinement mapping.
Stages == [j \in ScheduledJobs |-> StageOf(j)]
Waiting == [j \in ScheduledJobs |-> WaitingFor(j)]
Remaining == [j \in ScheduledJobs |-> LeftOf(j)]

\* Within a day those who wait stay the same.
LEMMA WaitingStays ==
    ASSUME UNCHANGED <<hour, ends, day>>
    PROVE  Waiting' = Waiting
<1>1. \A j : UnitsOf(j)' = UnitsOf(j)
  BY WorldStays
<1>2. JobsOf(hour)' = JobsOf(hour)
  BY WorldStays
<1>3. ASSUME NEW j PROVE DutiesOf(UnitsOf(j))' = DutiesOf(UnitsOf(j))
  BY <1>1 DEF DutiesOf, Pairs, Audience
<1>4. ASSUME NEW j PROVE WaitingFor(j)' = WaitingFor(j)
  BY <1>2, <1>3 DEF WaitingFor
<1> QED
  BY <1>4 DEF Waiting

\* The stages depend on markers, on the place in the loop and on the job at work.
LEMMA StagesStay ==
    ASSUME UNCHANGED <<hour, ends, day, marker>>,
           \A j \in ScheduledJobs : AtWork(j)' <=> AtWork(j)
    PROVE  Stages' = Stages
  BY WorldStays DEF Stages, StageOf

\* At rest nobody is left to be dealt with and no job is at work.
LEMMA AtRest ==
    ASSUME phase = "idle"
    PROVE  /\ \A j \in ScheduledJobs : ~ AtWork(j) /\ Stages[j] # "called"
           /\ Remaining = [j \in ScheduledJobs |-> {}]
  BY DEF AtWork, Stages, StageOf, Remaining, LeftOf

\* A job at work has been called on, and is the only one.
LEMMA OnlyOneAtWork ==
    ASSUME TypeInv, RunInv, phase # "idle"
    PROVE  /\ Job \in ScheduledJobs /\ Job \in JobsOf(hour) /\ AtWork(Job)
           /\ Stages[Job] = "called"
           /\ \A j \in ScheduledJobs : j # Job => ~ AtWork(j) /\ Remaining[j] = {}
           /\ Remaining[Job] =
                 {x \in Pairs : x \in DutiesOf(todo) \/ (x[1] = unit /\ x[2] \in rest)}
  BY JobIsOfTheHour DEF TypeInv, LoopInv, RunInv, AtWork, Stages, StageOf, Remaining, LeftOf

\* Whatever fails is a trouble of the promise.
LEMMA TroubleMaps ==
    ASSUME TypeInv, NEW lost \in SUBSET Pairs, TroubleFor(lost)
    PROVE  Daily!Troubled
  BY DEF TroubleFor, Daily!Troubled, TypeInv, GhostTypes

\* The first state is one of the promise.
LEMMA DailyInit == JobsInit => Daily!Init
<1> SUFFICES ASSUME JobsInit PROVE Daily!Init
  OBVIOUS
<1>1. TypeInv
  BY InitInv
<1>2. \A j \in JobsOf(hour) : marker[j] # day
  BY <1>1, AgendaFacts DEF JobsInit, TypeInv, ClockTypes, Cold
<1>3. Stages = [j \in ScheduledJobs |-> "open"]
  BY <1>2 DEF JobsInit, Stages, StageOf, AtWork
<1>4. Remaining = [j \in ScheduledJobs |-> {}]
  BY AtRest DEF JobsInit
<1>5. Waiting \in [ScheduledJobs -> SUBSET Pairs]
  BY DEF Waiting, WaitingFor, DutiesOf
<1> QED
  BY <1>3, <1>4, <1>5 DEF JobsInit, Daily!Init, Stages, Waiting, Remaining

\* A step between two moments of rest of one day is a stutter, or a trouble.
LEMMA RestMaps ==
    ASSUME TypeInv, phase = "idle", phase' = "idle",
           UNCHANGED <<hour, ends, day, marker, copies, settled>>,
           Fine \/ Trouble
    PROVE  [Daily!Next]_(Daily!vars)
<1>1. Stages' = Stages
  <2>1. \A j \in ScheduledJobs : ~ AtWork(j) /\ ~ AtWork(j)'
    BY DEF AtWork
  <2> QED
    BY <2>1, StagesStay
<1>2. Remaining' = Remaining
  BY DEF Remaining, LeftOf, AtWork, Pairs
<1>3. Waiting' = Waiting
  BY WaitingStays
<1>4. CASE Fine
  BY <1>1, <1>2, <1>3, <1>4 DEF Fine, Daily!vars, Stages, Waiting, Remaining
<1>5. CASE Trouble
  <2>1. Daily!Troubled
    BY <1>5, TroubleMaps DEF Trouble
  <2>2. Daily!Fail
    BY <1>1, <1>2, <1>3, <2>1 DEF Daily!Fail, Stages, Waiting, Remaining
  <2> QED
    BY <2>2 DEF Daily!Next
<1> QED
  BY <1>4, <1>5

\* A run that breaks off is a trouble that ends a round before its end.
LEMMA BreakMaps ==
    ASSUME TypeInv, RunInv, phase # "idle", phase' = "idle", Trouble,
           UNCHANGED <<hour, ends, day, marker, copies, settled>>
    PROVE  Daily!Fail
<1>1. /\ Job \in ScheduledJobs /\ Stages[Job] = "called"
      /\ \A j \in ScheduledJobs : j # Job => ~ AtWork(j) /\ Remaining[j] = {}
  BY OnlyOneAtWork
<1>2. Stages' = [Stages EXCEPT ![Job] = "open"]
  <2>1. \A j \in ScheduledJobs : ~ AtWork(j)'
    BY DEF AtWork
  <2>2. JobsOf(hour)' = JobsOf(hour) /\ marker[Job] # day
    BY WorldStays DEF RunInv
  <2> QED
    BY <1>1, <2>1, <2>2 DEF Stages, StageOf
<1>3. Remaining' = [Remaining EXCEPT ![Job] = {}]
  BY <1>1 DEF Remaining, LeftOf, AtWork, Pairs
<1>4. Daily!Troubled
  BY TroubleMaps DEF Trouble
<1>5. Waiting' = Waiting
  BY WaitingStays
<1> QED
  BY <1>1, <1>2, <1>3, <1>4, <1>5 DEF Daily!Fail, Stages, Waiting, Remaining

\* A step within a run keeps its job at work.
LEMMA WithinRun ==
    ASSUME TypeInv, RunInv, phase # "idle", phase' # "idle",
           UNCHANGED <<hour, ends, day, agenda, marker>>
    PROVE  /\ Stages' = Stages /\ Waiting' = Waiting
           /\ Remaining' = [Remaining EXCEPT ![Job] =
                 {x \in Pairs : x \in DutiesOf(todo') \/ (x[1] = unit' /\ x[2] \in rest')}]
<1>1. /\ Job \in ScheduledJobs
      /\ \A j \in ScheduledJobs : j # Job => ~ AtWork(j) /\ Remaining[j] = {}
  BY OnlyOneAtWork
<1>2. Job' = Job /\ \A j \in ScheduledJobs : AtWork(j)' <=> AtWork(j)
  BY DEF Job, AtWork
<1>3. phase' # "idle" /\ Job' = Job
  BY <1>2
<1>4. \A j \in ScheduledJobs : j # Job => ~ AtWork(j)'
  BY <1>1, <1>2
<1>5. DutiesOf(todo)' = DutiesOf(todo')
  BY DEF DutiesOf, Pairs, Audience
<1>6. Remaining' = [j \in ScheduledJobs |-> {x \in Pairs : (phase' # "idle" /\ Job' = j) /\
                      (x \in DutiesOf(todo') \/ (x[1] = unit' /\ x[2] \in rest'))}]
  BY <1>5 DEF Remaining, LeftOf, AtWork, Pairs
<1>7. /\ Remaining = [j \in ScheduledJobs |-> Remaining[j]]
      /\ \A j \in ScheduledJobs : j # Job => Remaining'[j] = Remaining[j]
  BY <1>1, <1>2, <1>4, <1>6 DEF Remaining, AtWork
<1>8. Remaining'[Job] = {x \in Pairs : x \in DutiesOf(todo') \/ (x[1] = unit' /\ x[2] \in rest')}
  BY <1>1, <1>3, <1>6
<1> QED
  BY <1>2, <1>6, <1>7, <1>8, StagesStay, WaitingStays

\* A step of the loop over the units settles those of one unit, or none.
LEMMA ReachMaps ==
    ASSUME TypeInv, RunInv, DealtInv, ReachUnit
    PROVE  Daily!Next
<1>1. /\ UNCHANGED <<hour, ends, day, agenda, phase, marker, copies>>
      /\ unit = NoUnit /\ phase = "loop" /\ (Fine \/ Trouble)
  BY ReachShape DEF world, stored
<1>2. PICK u \in todo : \/ unitMark[u] = day /\ Skip(u)
                        \/ Quiet(u)
                        \/ ComposeMessage(u)
  BY ReachShape
<1>3. /\ Job \in ScheduledJobs /\ Stages[Job] = "called"
      /\ Remaining[Job] =
            {x \in Pairs : x \in DutiesOf(todo) \/ (x[1] = unit /\ x[2] \in rest)}
  BY <1>1, OnlyOneAtWork
<1>4. /\ Stages' = Stages /\ Waiting' = Waiting
      /\ Remaining' = [Remaining EXCEPT ![Job] =
            {x \in Pairs : x \in DutiesOf(todo') \/ (x[1] = unit' /\ x[2] \in rest')}]
  BY <1>1, WithinRun
<1>5. u \in Units /\ NoUnit \notin Units /\ todo \subseteq Units
  BY JobsAssumption DEF TypeInv, LoopInv, Units, Windows
<1>6. \A x \in Pairs : x[1] = u /\ x[2] \in Audience(u) <=> x \in PairsOf(u)
  BY DEF Pairs, PairsOf
<1>7. PairsOf(u) \subseteq DutiesOf(todo) /\ PairsOf(u) \subseteq Pairs
  BY <1>5, AudienceIsKnown DEF PairsOf, DutiesOf, Pairs
<1>8. Remaining[Job] = DutiesOf(todo)
  BY <1>1, <1>3, <1>5 DEF DutiesOf, Pairs
<1>9. PICK ds \in SUBSET Remaining[Job] :
         /\ Remaining' = [Remaining EXCEPT ![Job] = Remaining[Job] \ ds]
         /\ settled' = settled \cup ds
  <2>1. CASE (unitMark[u] = day /\ Skip(u)) \/ Quiet(u)
    <3>1. todo' = todo \ {u} /\ unit' = NoUnit
      BY <1>1, <2>1 DEF Skip, Quiet
    <3>2. unitMark[u] = day => PairsOf(u) \subseteq settled
      BY <1>5 DEF DealtInv
    <3>3. settled' = settled \cup PairsOf(u)
      BY <2>1, <3>2 DEF Skip, Quiet
    <3>4. \A x \in Pairs : x \in DutiesOf(todo') \/ (x[1] = unit' /\ x[2] \in rest')
                              <=> x \in DutiesOf(todo) /\ x \notin PairsOf(u)
      BY <1>5, <1>6, <3>1 DEF DutiesOf, Pairs
    <3>5. {x \in Pairs : x \in DutiesOf(todo') \/ (x[1] = unit' /\ x[2] \in rest')}
             = DutiesOf(todo) \ PairsOf(u)
      BY <3>4 DEF DutiesOf
    <3>6. Remaining' = [Remaining EXCEPT ![Job] = Remaining[Job] \ PairsOf(u)]
      BY <1>4, <1>8, <3>5, Zenon
    <3>7. PairsOf(u) \in SUBSET Remaining[Job]
      BY <1>7, <1>8
    <3> QED
      BY <3>3, <3>6, <3>7, Zenon
  <2>2. CASE ComposeMessage(u)
    <3>1. /\ todo' = todo \ {u} /\ unit' = u /\ rest' = Audience(u) /\ settled' = settled
      BY <2>2 DEF ComposeMessage
    <3>2. \A x \in Pairs : x \in DutiesOf(todo') \/ (x[1] = unit' /\ x[2] \in rest')
                              <=> x \in DutiesOf(todo)
      BY <1>5, <3>1 DEF DutiesOf, Pairs
    <3>3. {x \in Pairs : x \in DutiesOf(todo') \/ (x[1] = unit' /\ x[2] \in rest')}
             = DutiesOf(todo) \ {}
      BY <3>2 DEF DutiesOf
    <3>4. Remaining' = [Remaining EXCEPT ![Job] = Remaining[Job] \ {}]
      BY <1>4, <1>8, <3>3, Zenon
    <3> WITNESS {} \in SUBSET Remaining[Job]
    <3> QED
      BY <3>1, <3>4
  <2> QED
    BY <1>2, <2>1, <2>2
<1>10. Fine \/ Daily!Troubled
  BY <1>1, TroubleMaps DEF Trouble
<1>11. Daily!Settle(Job, ds)
  BY <1>1, <1>3, <1>4, <1>9, <1>10
     DEF Daily!Settle, Daily!Smoothly, Fine, Stages, Waiting, Remaining
<1> QED
  BY <1>3, <1>9, <1>11 DEF Daily!Next, Remaining

\* A send says the message once more, or settles it unsaid.
LEMMA SendMaps ==
    ASSUME TypeInv, RunInv, DealtInv, CopyInv, NEW p \in Recipients, Sends(p)
    PROVE  Daily!Next
<1> DEFINE x0 == <<unit, p>>
<1>1. /\ UNCHANGED <<hour, ends, day, agenda, phase, todo, unit, marker>>
      /\ InSend(p) /\ unit # NoUnit /\ phase = "loop" /\ p \in rest
      /\ \/ UNCHANGED copies /\ Fine /\ DoneWith(p)
         \/ Copied(p) /\ Fine /\ DoneWith(p)
         \/ Copied(p) /\ TroubleFor({x0})
      /\ DoneWith(p) \/ UNCHANGED <<rest, settled>>
  BY SendShape DEF InSend, world, stored
<1>2. /\ Job \in ScheduledJobs /\ Job \in JobsOf(hour) /\ Stages[Job] = "called"
      /\ Remaining[Job] =
            {x \in Pairs : x \in DutiesOf(todo) \/ (x[1] = unit /\ x[2] \in rest)}
  BY <1>1, OnlyOneAtWork
<1>3. /\ Stages' = Stages /\ Waiting' = Waiting
      /\ Remaining' = [Remaining EXCEPT ![Job] =
            {x \in Pairs : x \in DutiesOf(todo') \/ (x[1] = unit' /\ x[2] \in rest')}]
  BY <1>1, WithinRun
<1>4. x0 \in Pairs /\ unit \in Units /\ unit \notin todo /\ x0 \in Remaining[Job]
  BY <1>1, <1>2 DEF TypeInv, LoopInv, RunInv, Pairs
<1>5. CASE DoneWith(p)
  <2>1. /\ Remaining' = [Remaining EXCEPT ![Job] = Remaining[Job] \ {x0}]
        /\ settled' = settled \cup {x0}
    <3>1. rest' = rest \ {p} /\ settled' = settled \cup {x0} /\ todo' = todo /\ unit' = unit
      BY <1>1, <1>5 DEF DoneWith
    <3>2. \A x \in Pairs : x \in DutiesOf(todo') \/ (x[1] = unit' /\ x[2] \in rest')
                              <=> x \in Remaining[Job] /\ x # x0
      BY <1>2, <1>4, <3>1 DEF DutiesOf, Pairs
    <3>3. {x \in Pairs : x \in DutiesOf(todo') \/ (x[1] = unit' /\ x[2] \in rest')}
             = Remaining[Job] \ {x0}
      BY <1>2, <3>2
    <3> QED
      BY <1>3, <3>1, <3>3
  <2>2. CASE UNCHANGED copies /\ Fine
    <3>1. Daily!Settle(Job, {x0})
      BY <1>2, <1>3, <2>1, <2>2
         DEF Daily!Settle, Daily!Smoothly, Fine, Stages, Waiting, Remaining
    <3> QED
      BY <1>2, <1>4, <3>1 DEF Daily!Next, Remaining
  <2>3. CASE Copied(p) /\ (Fine \/ TroubleFor({x0}))
    <3>1. copies[x0] > 0 => x0 \in excused'
      BY <1>1, <1>4, <2>3, SentOnce DEF Fine, TroubleFor
    <3>2. Daily!Smoothly \/ Daily!Troubled
      BY <1>4, <2>3, TroubleMaps DEF Daily!Smoothly, Fine
    <3>3. Daily!Say(Job, x0)
      BY <1>2, <1>3, <2>1, <2>3, <3>1, <3>2
         DEF Daily!Say, Copied, Stages, Waiting, Remaining
    <3> QED
      BY <1>2, <1>4, <3>3 DEF Daily!Next, Remaining
  <2> QED
    BY <1>1, <2>2, <2>3
<1>6. CASE UNCHANGED <<rest, settled>> /\ Copied(p) /\ TroubleFor({x0})
  <2>1. Remaining' = Remaining
    BY <1>1, <1>2, <1>3, <1>6 DEF Remaining
  <2>2. x0 \in excused' /\ Daily!Troubled
    BY <1>4, <1>6, TroubleMaps DEF TroubleFor
  <2>3. Daily!Say(Job, x0)
    BY <1>2, <1>3, <1>6, <2>1, <2>2 DEF Daily!Say, Copied, Stages, Waiting, Remaining
  <2> QED
    BY <1>2, <1>4, <2>3 DEF Daily!Next, Remaining
<1> QED
  BY <1>1, <1>5, <1>6

\* A run begins by calling on all who wait.
LEMMA CallMaps ==
    ASSUME TypeInv, RunInv, CheckMarker, phase' # "idle"
    PROVE  Daily!Next
<1>1. /\ UNCHANGED <<hour, ends, day, agenda, marker, copies, settled, unit>> /\ Fine
      /\ agenda # <<>> /\ phase = "idle" /\ phase' = "loop" /\ todo' = UnitsOf(Job)
      /\ (IF cache[Job] # Cold THEN cache[Job] ELSE marker[Job]) # day
  BY DEF CheckMarker, world, stored, ghosts
<1>2. Job \in JobsOf(hour) /\ Job \in ScheduledJobs
  BY <1>1, JobIsOfTheHour
<1>3. marker[Job] # day
  BY <1>1, <1>2 DEF TypeInv, MarkTypes
<1>4. Job' = Job /\ JobsOf(hour)' = JobsOf(hour)
  BY <1>1, WorldStays DEF Job
<1>5. Waiting' = Waiting
  BY <1>1, WaitingStays
<1>6. Stages = [Stages EXCEPT ![Job] = "open"]
  BY <1>1, <1>2, <1>3 DEF Stages, StageOf, AtWork
<1>7. Stages' = [Stages EXCEPT ![Job] = "called"]
  <2>1. \A j \in ScheduledJobs : StageOf(j)' = IF j = Job THEN "called" ELSE StageOf(j)
    BY <1>1, <1>3, <1>4 DEF StageOf, AtWork
  <2> QED
    BY <1>2, <2>1 DEF Stages
<1>8. DutiesOf(todo)' = DutiesOf(UnitsOf(Job)) /\ Waiting[Job] = DutiesOf(UnitsOf(Job))
  BY <1>1, <1>2 DEF DutiesOf, Pairs, Audience, Waiting, WaitingFor
<1>9. unit' = NoUnit /\ \A x \in Pairs : x[1] # NoUnit
  BY <1>1, JobsAssumption DEF RunInv, Pairs, Units, Windows
<1>10. LeftOf(Job)' = Waiting[Job]
  <2>1. \A x \in Pairs : x \in LeftOf(Job)' <=> x \in Waiting[Job]
    BY <1>1, <1>4, <1>8, <1>9 DEF LeftOf, AtWork, Pairs
  <2>2. LeftOf(Job)' \subseteq Pairs /\ Waiting[Job] \subseteq Pairs
    BY <1>8 DEF LeftOf, Pairs, DutiesOf
  <2> QED
    BY <2>1, <2>2
<1>11. \A j \in ScheduledJobs : j # Job => LeftOf(j)' = {}
  BY <1>4 DEF LeftOf, AtWork
<1>12. Remaining' = [Remaining EXCEPT ![Job] = Waiting[Job]]
  <2>1. Remaining = [j \in ScheduledJobs |-> {}]
    BY <1>1, AtRest
  <2>2. \A j \in ScheduledJobs : LeftOf(j)' = IF j = Job THEN Waiting[Job] ELSE {}
    BY <1>10, <1>11, <1>4 DEF LeftOf, AtWork
  <2> QED
    BY <1>2, <2>1, <2>2 DEF Remaining
<1>13. Daily!Call(Job)
  BY <1>1, <1>2, <1>5, <1>6, <1>7, <1>12
     DEF Daily!Call, Daily!Smoothly, Fine, Stages, Waiting, Remaining
<1> QED
  BY <1>2, <1>13 DEF Daily!Next

\* Setting the marker finishes a round that has nobody left.
LEMMA FinishMaps ==
    ASSUME TypeInv, RunInv, SetJobMarker
    PROVE  Daily!Next
<1>1. /\ UNCHANGED <<hour, ends, day, copies, settled>> /\ Fine
      /\ phase = "mark" /\ phase' = "idle" /\ marker' = [marker EXCEPT ![Job] = day]
  BY DEF SetJobMarker, AfterJob, world, ghosts
<1>2. /\ Job \in ScheduledJobs /\ Job \in JobsOf(hour) /\ Stages[Job] = "called"
      /\ \A j \in ScheduledJobs : j # Job => ~ AtWork(j) /\ Remaining[j] = {}
      /\ Remaining[Job] =
            {x \in Pairs : x \in DutiesOf(todo) \/ (x[1] = unit /\ x[2] \in rest)}
  BY <1>1, OnlyOneAtWork
<1>3. Remaining[Job] = {}
  <2>1. todo = {} /\ unit = NoUnit /\ \A x \in Pairs : x[1] # NoUnit
    BY <1>1, JobsAssumption DEF RunInv, Pairs, Units, Windows
  <2> QED
    BY <1>2, <2>1 DEF DutiesOf
<1>4. Remaining' = Remaining
  <2>1. Remaining = [j \in ScheduledJobs |-> {}]
    BY <1>2, <1>3 DEF Remaining
  <2>2. \A j \in ScheduledJobs : LeftOf(j)' = {}
    BY <1>1 DEF LeftOf, AtWork
  <2> QED
    BY <2>1, <2>2 DEF Remaining
<1>5. Stages' = [Stages EXCEPT ![Job] = "done"]
  <2>1. JobsOf(hour)' = JobsOf(hour) /\ day' = day
    BY <1>1, WorldStays
  <2>2. marker'[Job] = day /\ \A j \in ScheduledJobs : j # Job => marker'[j] = marker[j]
    BY <1>1, <1>2 DEF TypeInv, MarkTypes
  <2>3. \A j \in ScheduledJobs : ~ AtWork(j)'
    BY <1>1 DEF AtWork
  <2>4. \A j \in ScheduledJobs : StageOf(j)' = IF j = Job THEN "done" ELSE StageOf(j)
    BY <1>2, <2>1, <2>2, <2>3 DEF StageOf
  <2> QED
    BY <1>2, <2>4 DEF Stages
<1>6. Waiting' = Waiting
  BY <1>1, WaitingStays
<1>7. Daily!Finish(Job)
  BY <1>1, <1>2, <1>3, <1>4, <1>5, <1>6
     DEF Daily!Finish, Daily!Smoothly, Fine, Stages, Waiting, Remaining
<1> QED
  BY <1>2, <1>7 DEF Daily!Next

\* The mark of a unit and the end of the loop change nothing the promise sees;
\* a mark that is lost is a trouble.
LEMMA QuietMaps ==
    ASSUME TypeInv, RunInv, MarkUnit \/ MarkIsLost \/ RunEnds \/ TrackAiOutcome
    PROVE  [Daily!Next]_(Daily!vars)
<1>1. /\ UNCHANGED <<hour, ends, day, agenda, todo, rest, marker, copies, settled>>
      /\ phase = "loop" /\ phase' # "idle" /\ (Fine \/ Trouble)
      /\ rest = {} \/ UNCHANGED unit
  BY DEF MarkUnit, MarkIsLost, RunEnds, TrackAiOutcome, LoopEnds, TrackSuccess, TrackFailure,
         world, stored, ghosts
<1>2. /\ Stages' = Stages /\ Waiting' = Waiting
      /\ Remaining' = [Remaining EXCEPT ![Job] =
            {x \in Pairs : x \in DutiesOf(todo') \/ (x[1] = unit' /\ x[2] \in rest')}]
  BY <1>1, WithinRun
<1>3. /\ Job \in ScheduledJobs
      /\ Remaining[Job] =
            {x \in Pairs : x \in DutiesOf(todo) \/ (x[1] = unit /\ x[2] \in rest)}
  BY <1>1, OnlyOneAtWork
<1>4. {x \in Pairs : x \in DutiesOf(todo') \/ (x[1] = unit' /\ x[2] \in rest')}
         = Remaining[Job]
  BY <1>1, <1>3
<1>5. Remaining' = Remaining
  BY <1>2, <1>3, <1>4 DEF Remaining
<1>6. CASE Fine
  BY <1>1, <1>2, <1>5, <1>6 DEF Fine, Daily!vars, Stages, Waiting, Remaining
<1>7. CASE Trouble
  <2>1. Daily!Troubled
    BY <1>7, TroubleMaps DEF Trouble
  <2>2. Daily!Fail
    BY <1>1, <1>2, <1>5, <2>1 DEF Daily!Fail, Stages, Waiting, Remaining
  <2> QED
    BY <2>2 DEF Daily!Next
<1> QED
  BY <1>1, <1>6, <1>7

\* A new day finds no job at work, and no job that is done.
LEMMA DayMaps ==
    ASSUME TypeInv, CopyInv, NextDay
    PROVE  Daily!Next
<1>1. /\ UNCHANGED <<hour, marker, troubles>> /\ settled' = {} /\ day' = day + 1
      /\ phase = "idle" /\ phase' = "idle"
      /\ copies' = [x \in Pairs |->
              IF hour = 17 /\ unitMark[x[1]] # Cold
                 /\ day + 1 < unitMark[x[1]] + AlertCooldown
              THEN copies[x] ELSE 0]
      /\ excused' = IF hour = 17 THEN excused ELSE {}
  BY DEF NextDay, TypeInv, LoopInv, loopVars, stored
<1>2. \A j \in ScheduledJobs : marker[j] # day'
  BY <1>1 DEF TypeInv, MarkTypes, ClockTypes
<1>3. Stages' = [j \in ScheduledJobs |-> "open"]
  BY <1>1, <1>2 DEF Stages, StageOf, AtWork
<1>4. Remaining' = Remaining /\ \A j \in ScheduledJobs : Stages[j] # "called"
  <2>1. Remaining = [j \in ScheduledJobs |-> {}] /\ \A j \in ScheduledJobs : Stages[j] # "called"
    BY <1>1, AtRest
  <2>2. \A j \in ScheduledJobs : LeftOf(j)' = {}
    BY <1>1 DEF LeftOf, AtWork
  <2> QED
    BY <2>1, <2>2 DEF Remaining
<1>5. Waiting' \in [ScheduledJobs -> SUBSET Pairs]
  <2>1. \A j : WaitingFor(j)' \subseteq Pairs
    BY DEF WaitingFor, DutiesOf, Pairs
  <2> QED
    BY <2>1 DEF Waiting
<1>6. \A x \in Pairs : copies'[x] \in {0, copies[x]}
  BY <1>1
<1>7. excused' \subseteq excused
  BY <1>1
<1>8. \A x \in excused : copies'[x] > 1 => x \in excused'
  <2>1. ASSUME NEW x \in excused, hour # 17 PROVE copies'[x] = 0
    BY <1>1, <2>1 DEF TypeInv, GhostTypes
  <2> QED
    BY <1>1, <2>1
<1>10. copies' \in [Pairs -> 0..2]
  BY <1>1 DEF TypeInv, GhostTypes
<1>9. Daily!NewDay
  BY <1>10, <1>1, <1>3, <1>4, <1>5, <1>6, <1>7, <1>8
     DEF Daily!NewDay, Stages, Waiting, Remaining
<1> QED
  BY <1>9 DEF Daily!Next

\* Every step of the jobs is a step of the promise or a stutter.
LEMMA DailyStep == JobsInv /\ [JobsNext]_jobVars => [Daily!Next]_(Daily!vars)
<1> SUFFICES ASSUME JobsInv, [JobsNext]_jobVars PROVE [Daily!Next]_(Daily!vars)
  OBVIOUS
<1>0. TypeInv /\ RunInv /\ DealtInv /\ CopyInv
  BY DEF JobsInv
<1>1. CASE StartTick
  <2>1. /\ UNCHANGED <<hour, ends, day, marker, copies, settled, phase>> /\ Fine
        /\ phase = "idle"
    BY <1>0, <1>1 DEF StartTick, TypeInv, LoopInv, stored, ghosts
  <2> QED
    BY <1>0, <2>1, RestMaps
<1>2. CASE CheckMarker
  <2>1. UNCHANGED <<hour, ends, day, marker, copies, settled>> /\ Fine /\ phase = "idle"
    BY <1>2 DEF CheckMarker, world, stored, ghosts
  <2>2. CASE phase' = "idle"
    BY <1>0, <2>1, <2>2, RestMaps
  <2>3. CASE phase' # "idle"
    BY <1>0, <1>2, <2>3, CallMaps
  <2> QED
    BY <2>2, <2>3
<1>3. CASE MarkerUnreadable
  <2>1. /\ UNCHANGED <<hour, ends, day, marker, copies, settled, phase>> /\ Trouble
        /\ phase = "idle"
    BY <1>3 DEF MarkerUnreadable, world, stored
  <2> QED
    BY <1>0, <2>1, RestMaps
<1>4. CASE SetJobMarker
  BY <1>0, <1>4, FinishMaps
<1>5. CASE RunFails
  <2>1. /\ UNCHANGED <<hour, ends, day, marker, copies, settled>> /\ Trouble
        /\ phase # "idle" /\ phase' = "idle"
    BY <1>5 DEF RunFails, AfterJob, world, stored
  <2>2. Daily!Fail
    BY <1>0, <2>1, BreakMaps
  <2> QED
    BY <2>2 DEF Daily!Next
<1>6. CASE ReachUnit
  BY <1>0, <1>6, ReachMaps
<1>7. CASE MarkUnit \/ MarkIsLost \/ RunEnds \/ TrackAiOutcome
  BY <1>0, <1>7, QuietMaps
<1>8. CASE \E p \in Recipients : Sends(p)
  BY <1>0, <1>8, SendMaps
<1>9. CASE SchedulerDies
  <2>1. /\ UNCHANGED <<hour, ends, day, marker, copies, settled>> /\ Trouble
        /\ phase' = "idle"
    BY <1>9 DEF SchedulerDies, world, stored
  <2>2. CASE phase = "idle"
    BY <1>0, <2>1, <2>2, RestMaps
  <2>3. CASE phase # "idle"
    <3>1. Daily!Fail
      BY <1>0, <2>1, <2>3, BreakMaps
    <3> QED
      BY <3>1 DEF Daily!Next
  <2> QED
    BY <2>2, <2>3
<1>10. CASE Restart
  <2>1. /\ UNCHANGED <<hour, ends, day, marker, copies, settled, phase>> /\ Fine
        /\ phase = "idle"
    BY <1>0, <1>10 DEF Restart, TypeInv, LoopInv, loopVars, stored, ghosts
  <2> QED
    BY <1>0, <2>1, RestMaps
<1>11. CASE NextDay
  BY <1>0, <1>11, DayMaps
<1>12. CASE UNCHANGED jobVars
  <2>1. UNCHANGED <<hour, ends, day, agenda, phase, todo, unit, rest, marker, copies, settled>>
        /\ Fine
    BY <1>12 DEF jobVars, world, loopVars, stored, ghosts, Fine
  <2>2. Waiting' = Waiting /\ \A j \in ScheduledJobs : AtWork(j)' <=> AtWork(j)
    BY <2>1, WaitingStays DEF AtWork, Job
  <2>3. Stages' = Stages
    BY <2>1, <2>2, StagesStay
  <2>4. Remaining' = Remaining
    <3>1. \A j \in ScheduledJobs : LeftOf(j)' = LeftOf(j)
      BY <2>1 DEF LeftOf, AtWork, Job, DutiesOf, Pairs, Audience
    <3> QED
      BY <3>1 DEF Remaining
  <2> QED
    BY <2>1, <2>2, <2>3, <2>4 DEF Fine, Daily!vars, Stages, Waiting, Remaining
<1> QED
  BY <1>1, <1>2, <1>3, <1>4, <1>5, <1>6, <1>7, <1>8, <1>9, <1>10, <1>11, <1>12
     DEF JobsNext, SchedulerStep, Sends

\* Once a day, everybody (schedulers 71-129, 207-226): ticks, restarts and
\* failures never make a job of the scheduler more or less than a daily round
\* of DailyPromise, for any number of jobs, recipients and troubles.
THEOREM EverybodyOnceADay == JobsSpec => KeepsDailyPromise
  BY DailyInit, DailyStep, JobsInvariant, PTL DEF JobsSpec, KeepsDailyPromise, Daily!Spec

\* The promise is worth having: whoever keeps it sends nobody a message of a unit
\* a second time without an excuse (schedulers 106-129, 207-226, 625-650).
THEOREM PromiseMeansNoSpam == KeepsDailyPromise => []RepeatsAreExcused
<1> DEFINE Inv == copies \in [Pairs -> 0..2] /\ RepeatsAreExcused
<1>1. Daily!Init => Inv
  BY DEF Daily!Init, RepeatsAreExcused
<1>2. Inv /\ [Daily!Next]_(Daily!vars) => Inv'
  <2> SUFFICES ASSUME Inv, [Daily!Next]_(Daily!vars) PROVE Inv'
    OBVIOUS
  <2>1. ASSUME UNCHANGED copies, excused \subseteq excused' PROVE Inv'
    BY <2>1 DEF RepeatsAreExcused
  <2>2. CASE UNCHANGED Daily!vars
    BY <2>1, <2>2 DEF Daily!vars
  <2>3. ASSUME NEW r \in ScheduledJobs, Daily!Call(r) \/ Daily!Finish(r) PROVE Inv'
    BY <2>1, <2>3 DEF Daily!Call, Daily!Finish, Daily!Smoothly
  <2>4. ASSUME NEW r, NEW ds, Daily!Settle(r, ds) PROVE Inv'
    BY <2>1, <2>4 DEF Daily!Settle, Daily!Smoothly, Daily!Troubled
  <2>5. ASSUME NEW r, NEW d, Daily!Say(r, d) PROVE Inv'
    <3>1. /\ copies[d] > 0 => d \in excused'
          /\ copies' = [copies EXCEPT ![d] = IF @ < 2 THEN @ + 1 ELSE @]
          /\ excused \subseteq excused'
      BY <2>5 DEF Daily!Say, Daily!Smoothly, Daily!Troubled
    <3>2. copies' \in [Pairs -> 0..2]
      <4>1. CASE d \in Pairs
        <5>1. (IF copies[d] < 2 THEN copies[d] + 1 ELSE copies[d]) \in 0..2
          BY <4>1
        <5> QED
          BY <3>1, <4>1, <5>1
      <4>2. CASE d \notin Pairs
        BY <3>1, <4>2
      <4> QED
        BY <4>1, <4>2
    <3>3. ASSUME NEW x \in Pairs, copies'[x] > 1 PROVE x \in excused'
      <4>1. CASE x = d
        BY <3>1, <3>3, <4>1
      <4>2. CASE x # d
        BY <3>1, <3>3, <4>2 DEF RepeatsAreExcused
      <4> QED
        BY <4>1, <4>2
    <3> QED
      BY <3>2, <3>3 DEF RepeatsAreExcused
  <2>6. CASE Daily!Queue \/ Daily!Fail
    BY <2>1, <2>6 DEF Daily!Queue, Daily!Fail, Daily!Smoothly, Daily!Troubled
  <2>7. CASE Daily!NewDay
    <3>1. /\ copies' \in [Pairs -> 0..2] /\ \A x \in Pairs : copies'[x] \in {0, copies[x]}
          /\ \A x \in excused : copies'[x] > 1 => x \in excused'
      BY <2>7 DEF Daily!NewDay
    <3> QED
      BY <3>1 DEF RepeatsAreExcused
  <2> QED
    BY <2>2, <2>3, <2>4, <2>5, <2>6, <2>7 DEF Daily!Next
<1>3. Inv => RepeatsAreExcused
  OBVIOUS
<1> QED
  BY <1>1, <1>2, <1>3, PTL DEF KeepsDailyPromise, Daily!Spec

-----------------------------------------------------------------------------
(* While nothing fails. *)

\* Whatever fails is counted.
LEMMA TroubleCounts ==
    ASSUME TypeInv, [JobsNext]_jobVars, troubles' = 0
    PROVE  /\ troubles = 0
           /\ \A lost : ~ TroubleFor(lost)
           /\ ~ Trouble /\ ~ MarkerUnreadable /\ ~ RunFails /\ ~ SchedulerDies /\ ~ MarkIsLost
<1>1. troubles \in Nat
  BY JobsAssumption DEF TypeInv, ClockTypes
<1>2. \A lost : ~ TroubleFor(lost)
  BY <1>1 DEF TroubleFor
<1>3. ~ Trouble
  BY <1>2 DEF Trouble
<1>4. ~ MarkerUnreadable /\ ~ RunFails /\ ~ SchedulerDies /\ ~ MarkIsLost
  BY <1>3 DEF MarkerUnreadable, RunFails, SchedulerDies, MarkIsLost
<1>5. troubles' = troubles
  <2>1. CASE ReachUnit
    BY <1>3, <2>1, ReachShape DEF Fine
  <2>2. ASSUME NEW p \in Recipients, Sends(p) PROVE troubles' = troubles
    BY <1>2, <2>2, SendShape DEF Fine
  <2>3. CASE TrackAiOutcome
    BY <1>3, <2>3 DEF TrackAiOutcome, TrackSuccess, TrackFailure, Fine
  <2>4. CASE StartTick \/ CheckMarker \/ SetJobMarker \/ MarkUnit \/ RunEnds \/ Restart
    BY <2>4 DEF StartTick, CheckMarker, SetJobMarker, MarkUnit, RunEnds, Restart, Fine
  <2>5. CASE NextDay
    BY <2>5 DEF NextDay
  <2>6. CASE UNCHANGED jobVars
    BY <2>6 DEF jobVars
  <2> QED
    BY <1>4, <2>1, <2>2, <2>3, <2>4, <2>5, <2>6 DEF JobsNext, SchedulerStep, Sends
<1> QED
  BY <1>2, <1>3, <1>4, <1>5

\* The job of the hour that asks the AI service has ended a run today.
AiRan ==
    \E j \in AiJobs \cap JobsOf(hour) : marker[j] = day \/ (phase = "mark" /\ Job = j)

\* While nothing fails, the count of failed runs is the number of silent ones,
\* and between outages the last alert is more than a day old when a run begins.
OutageInv ==
    troubles = 0 =>
        /\ silent \in Nat /\ aiFails = silent
        /\ alarmed <=> silent >= AiThreshold
        /\ aiNotified = day => AiRan
        /\ ~ alarmed /\ aiNotified # Cold =>
              aiNotified < day /\ (AiRan \/ aiNotified + 1 < day)

LEMMA OneAiJob ==
    ASSUME NEW h \in Hours, NEW i \in AiJobs \cap JobsOf(h), NEW j \in AiJobs \cap JobsOf(h)
    PROVE  i = j
  BY DEF Hours, JobsOf, Agenda, AiJobs

\* A run begins on a day on which none has ended.
LEMMA FirstRunToday ==
    ASSUME TypeInv, RunInv, TrackAiOutcome
    PROVE  ~ AiRan
<1>1. phase = "loop" /\ Job \in AiJobs /\ agenda # <<>>
  BY DEF TrackAiOutcome, LoopEnds, TypeInv, LoopInv
<1>2. Job \in JobsOf(hour) /\ hour \in Hours /\ marker[Job] # day
  BY <1>1, JobIsOfTheHour DEF RunInv, TypeInv, ClockTypes
<1> QED
  BY <1>1, <1>2, OneAiJob DEF AiRan

LEMMA OutageStep == ASSUME TypeInv, RunInv, OutageInv, [JobsNext]_jobVars PROVE OutageInv'
<1> SUFFICES ASSUME troubles' = 0
             PROVE  /\ silent' \in Nat /\ aiFails' = silent'
                    /\ alarmed' <=> silent' >= AiThreshold
                    /\ aiNotified' = day' => AiRan'
                    /\ ~ alarmed' /\ aiNotified' # Cold =>
                          aiNotified' < day' /\ (AiRan' \/ aiNotified' + 1 < day')
  BY DEF OutageInv
<1>1. /\ silent \in Nat /\ aiFails = silent
      /\ alarmed <=> silent >= AiThreshold
      /\ aiNotified = day => AiRan
      /\ ~ alarmed /\ aiNotified # Cold =>
            aiNotified < day /\ (AiRan \/ aiNotified + 1 < day)
  BY TroubleCounts DEF OutageInv
<1>2. /\ day \in Nat /\ aiNotified \in 0..day /\ AiThreshold \in Nat \ {0}
      /\ hour \in Hours
  BY JobsAssumption DEF TypeInv, ClockTypes, MarkTypes
<1>3. ASSUME UNCHANGED <<hour, day, silent, aiFails, alarmed, aiNotified>>, AiRan => AiRan'
      PROVE  /\ silent' \in Nat /\ aiFails' = silent'
             /\ alarmed' <=> silent' >= AiThreshold
             /\ aiNotified' = day' => AiRan'
             /\ ~ alarmed' /\ aiNotified' # Cold =>
                   aiNotified' < day' /\ (AiRan' \/ aiNotified' + 1 < day')
  BY <1>1, <1>3
<1>4. ASSUME UNCHANGED <<hour, day, marker>>, phase # "mark" PROVE AiRan => AiRan'
  BY <1>4 DEF AiRan, JobsOf, Agenda
<1>5. CASE StartTick \/ CheckMarker \/ MarkUnit \/ RunEnds \/ Restart
  <2>1. phase # "mark"
    BY <1>5 DEF StartTick, CheckMarker, MarkUnit, RunEnds, LoopEnds, Restart, TypeInv, LoopInv
  <2>2. UNCHANGED <<hour, day, marker, silent, aiFails, alarmed, aiNotified>>
    BY <1>5 DEF StartTick, CheckMarker, MarkUnit, RunEnds, Restart, world, stored, ai, ghosts
  <2> QED
    BY <1>3, <1>4, <2>1, <2>2
<1>6. CASE ReachUnit
  BY <1>3, <1>4, <1>6, ReachShape DEF world, stored
<1>7. ASSUME NEW p \in Recipients, Sends(p)
      PROVE  UNCHANGED <<hour, day, marker, silent, aiFails, alarmed, aiNotified>>
             /\ phase # "mark"
  BY <1>7, SendShape DEF InSend, world, stored
<1>8. CASE SetJobMarker
  <2>1. /\ UNCHANGED <<hour, day, silent, aiFails, alarmed, aiNotified>>
        /\ phase = "mark" /\ marker' = [marker EXCEPT ![Job] = day]
    BY <1>8 DEF SetJobMarker, world, ai, ghosts
  <2>2. Job \in ScheduledJobs /\ marker \in [ScheduledJobs -> 0..day]
    BY <2>1, JobIsOfTheHour DEF TypeInv, LoopInv, MarkTypes
  <2>3. marker'[Job] = day /\ \A j \in ScheduledJobs : marker[j] = day => marker'[j] = day
    BY <2>1, <2>2
  <2>4. \A j \in AiJobs : j \in ScheduledJobs
    BY DEF AiJobs, ScheduledJobs
  <2>5. AiRan => AiRan'
    BY <2>1, <2>3, <2>4 DEF AiRan, JobsOf, Agenda
  <2> QED
    BY <1>3, <2>1, <2>5
<1>9. CASE TrackAiOutcome
  <2>1. ~ AiRan
    BY <1>9, FirstRunToday
  <2>2. aiNotified < day /\ (~ alarmed /\ aiNotified # Cold => aiNotified + 1 < day)
    BY <1>1, <1>2, <2>1
  <2>3. UNCHANGED <<hour, day, agenda>> /\ phase' = "mark" /\ Job \in AiJobs /\ Job' = Job
    BY <1>9 DEF TrackAiOutcome, LoopEnds, world, Job
  <2>4. AiRan'
    <3>1. Job \in JobsOf(hour)
      BY <1>9, JobIsOfTheHour DEF TrackAiOutcome, LoopEnds, TypeInv, LoopInv
    <3> QED
      BY <2>3, <3>1 DEF AiRan, JobsOf, Agenda
  <2>5. CASE TrackSuccess
    BY <1>2, <2>2, <2>3, <2>4, <2>5 DEF TrackSuccess
  <2>6. CASE TrackFailure
    <3>1. MayNotify
      BY <1>2, <2>2 DEF MayNotify
    <3>2. aiFails' = aiFails + 1 /\ silent' = silent + 1
      BY <2>6 DEF TrackFailure
    <3>3. \/ aiFails' >= AiThreshold /\ alarmed' = TRUE /\ aiNotified' = day
          \/ (aiFails' >= AiThreshold => ~ MustNotify) /\ UNCHANGED <<alarmed, aiNotified>>
      BY <2>6, TroubleCounts DEF TrackFailure
    <3>4. ~ alarmed => MustNotify
      BY <1>2, <2>2 DEF MustNotify
    <3> QED
      BY <1>1, <1>2, <2>2, <2>3, <2>4, <3>2, <3>3, <3>4
  <2> QED
    BY <1>9, <2>5, <2>6 DEF TrackAiOutcome
<1>10. CASE NextDay
  <2>1. day' = day + 1 /\ UNCHANGED <<silent, aiFails, alarmed, aiNotified>>
    BY <1>10 DEF NextDay, ai
  <2> QED
    BY <1>1, <1>2, <2>1
<1>11. CASE UNCHANGED jobVars
  <2>1. UNCHANGED <<hour, day, agenda, phase, marker, silent, aiFails, alarmed, aiNotified>>
    BY <1>11 DEF jobVars, world, loopVars, stored, ai, ghosts
  <2>2. AiRan => AiRan'
    BY <2>1 DEF AiRan, JobsOf, Agenda, Job
  <2> QED
    BY <1>3, <2>1, <2>2
<1> QED
  BY <1>3, <1>4, <1>5, <1>6, <1>7, <1>8, <1>9, <1>10, <1>11, TroubleCounts
     DEF JobsNext, SchedulerStep, Sends
\* While nothing fails, on the days of the subscription's hour: a member dealt
\* with was warned, the warning of the day before has been given once that day
\* is over, and the ticks of a day do not run out before the job has ended.
WarnInv ==
    hour = 10 /\ troubles = 0 =>
        /\ up
        /\ \A w \in WarnDays, p \in Recipients : <<w, p>> \in settled => <<w, p>> \in warned
        /\ day >= UtcDay(ends) => {1} \X Recipients \subseteq warned
        /\ jobTicks = 0 => marker["subscription"] = day \/ agenda # <<>>

LEMMA OnlyJob ==
    ASSUME TypeInv, hour = 10
    PROVE  /\ agenda # <<>> => Job = "subscription" /\ Tail(agenda) = <<>>
           /\ Agenda(hour) # <<>> /\ JobsOf(hour) = {"subscription"}
<1>1. Agenda(10) = <<"subscription">> /\ "subscription" \in ScheduledJobs
  BY DEF Agenda, ScheduledJobs
<1>2. /\ JobsOf(10) = {"subscription"} /\ Head(Agenda(10)) = "subscription"
      /\ Tail(Agenda(10)) = <<>> /\ Agenda(10) # <<>>
  BY <1>1, OneJob
<1>3. agenda \in {Agenda(10), <<>>}
  <2>1. agenda \in Left(10)
    BY DEF TypeInv, LoopInv
  <2> QED
    BY <1>2, <2>1 DEF Left
<1> QED
  BY <1>2, <1>3 DEF Job

\* The day before its end a subscription is due for the one-day warning.
LEMMA WarnedInTime ==
    ASSUME TypeInv, DealtInv, WarnInv, hour = 10, troubles = 0, NextDay, day + 1 >= UtcDay(ends)
    PROVE  {1} \X Recipients \subseteq warned
<1>1. /\ up /\ (day >= UtcDay(ends) => {1} \X Recipients \subseteq warned)
      /\ \A w \in WarnDays, p \in Recipients : <<w, p>> \in settled => <<w, p>> \in warned
  BY DEF WarnInv
<1>2. day \in Int /\ UtcDay(ends) \in Int /\ 1 \in WarnDays /\ 1 \notin Recipients
  BY JobsAssumption DEF TypeInv, ClockTypes, UtcDay, Ends
<1>3. CASE day + 1 = UtcDay(ends)
  <2>1. 1 \in UnitsOf("subscription")
    BY <1>2, <1>3 DEF UnitsOf, DueWindows, ExpiringIn, AiJobs
  <2>2. marker["subscription"] = day
    BY <1>1 DEF NextDay, WarnInv
  <2>3. PairsOf(1) \subseteq settled
    BY <2>1, <2>2, OnlyJob DEF DealtInv, DoneMeansEverybody
  <2>4. PairsOf(1) = {1} \X Recipients
    BY <1>2 DEF PairsOf, Audience
  <2> QED
    BY <1>1, <1>2, <2>3, <2>4
<1> QED
  BY <1>1, <1>2, <1>3

LEMMA WarnStep == ASSUME TypeInv, DealtInv, WarnInv, [JobsNext]_jobVars PROVE WarnInv'
<1> SUFFICES ASSUME hour' = 10, troubles' = 0
             PROVE  /\ up'
                    /\ \A w \in WarnDays, p \in Recipients :
                          <<w, p>> \in settled' => <<w, p>> \in warned'
                    /\ day' >= UtcDay(ends)' => {1} \X Recipients \subseteq warned'
                    /\ jobTicks' = 0 => marker'["subscription"] = day' \/ agenda' # <<>>
  BY DEF WarnInv
<1>1. troubles = 0
  BY TroubleCounts
<1>2. hour = 10
  <2>1. hour' = hour
    BY ReachShape, SendShape, TroubleCounts
       DEF JobsNext, SchedulerStep, Sends, jobVars, world, InSend, StartTick, CheckMarker,
           SetJobMarker, MarkUnit, RunEnds, TrackAiOutcome, Restart, NextDay
  <2> QED
    BY <2>1
<1>3. /\ up
      /\ \A w \in WarnDays, p \in Recipients : <<w, p>> \in settled => <<w, p>> \in warned
      /\ day >= UtcDay(ends) => {1} \X Recipients \subseteq warned
      /\ jobTicks = 0 => marker["subscription"] = day \/ agenda # <<>>
  BY <1>1, <1>2 DEF WarnInv
<1>4. ASSUME up', UNCHANGED <<ends, day, settled, warned>>,
             jobTicks' = 0 => marker'["subscription"] = day \/ agenda' # <<>>
      PROVE  /\ up'
             /\ \A w \in WarnDays, p \in Recipients :
                   <<w, p>> \in settled' => <<w, p>> \in warned'
             /\ day' >= UtcDay(ends)' => {1} \X Recipients \subseteq warned'
             /\ jobTicks' = 0 => marker'["subscription"] = day' \/ agenda' # <<>>
  BY <1>3, <1>4 DEF UtcDay
<1>5. CASE StartTick
  BY <1>2, <1>3, <1>4, <1>5, OnlyJob DEF StartTick, ghosts
<1>6. CASE CheckMarker
  <2>1. Job = "subscription" /\ Job \in ScheduledJobs
    BY <1>2, <1>6, OnlyJob, JobIsOfTheHour DEF CheckMarker
  <2>2. agenda' = agenda \/ marker["subscription"] = day
    BY <1>6, <2>1 DEF CheckMarker, TypeInv, ClockTypes, MarkTypes, Cold
  <2> QED
    BY <1>3, <1>4, <1>6, <2>2 DEF CheckMarker, world, stored, ghosts
<1>7. CASE SetJobMarker
  <2>1. phase = "mark" /\ agenda # <<>>
    BY <1>7 DEF SetJobMarker, TypeInv, LoopInv
  <2>2. Job = "subscription" /\ Job \in ScheduledJobs
    BY <1>2, <2>1, OnlyJob, JobIsOfTheHour
  <2>3. marker'["subscription"] = day
    BY <1>7, <2>2 DEF SetJobMarker, TypeInv, MarkTypes
  <2> QED
    BY <1>3, <1>4, <1>7, <2>3 DEF SetJobMarker, world, ghosts
<1>8. CASE MarkUnit \/ RunEnds \/ TrackAiOutcome
  BY <1>3, <1>4, <1>8 DEF MarkUnit, RunEnds, TrackAiOutcome, world, stored, ghosts
<1>9. CASE ReachUnit
  <2>1. Job = "subscription"
    BY <1>2, <1>9, OnlyJob, ReachShape DEF TypeInv, LoopInv
  <2>2. UNCHANGED settled
    BY <1>9, <2>1 DEF ReachUnit, EveningSummary, WeeklyTextDigest, BotAlive, SubscriptionExpiry,
                      ProactiveAlert, SummerMode, WeeklyAiReport, InLoop, Skip, ComposeMessage
  <2> QED
    BY <1>3, <1>4, <1>9, <2>2, ReachShape DEF world, stored
<1>10. ASSUME NEW p \in Recipients, Sends(p)
       PROVE  /\ up'
              /\ \A w \in WarnDays, q \in Recipients :
                    <<w, q>> \in settled' => <<w, q>> \in warned'
              /\ day' >= UtcDay(ends)' => {1} \X Recipients \subseteq warned'
              /\ jobTicks' = 0 => marker'["subscription"] = day' \/ agenda' # <<>>
  <2>1. /\ UNCHANGED <<ends, day, jobTicks, up, agenda, marker>>
        /\ phase = "loop"
    BY <1>10, SendShape DEF InSend, world, stored
  <2>2. Job = "subscription"
    BY <1>2, <2>1, OnlyJob DEF TypeInv, LoopInv
  <2>3. warned' = warned \cup {<<unit, p>>} /\ settled' = settled \cup {<<unit, p>>}
    BY <1>10, <2>2, TroubleCounts DEF Sends, JobSends, SendMuted, SendRefused, AnswerLost,
                                      ReportMissing, DoneWith, Warned
  <2> QED
    BY <1>3, <2>1, <2>3 DEF UtcDay
<1>11. CASE Restart
  BY <1>3, <1>11 DEF Restart
<1>12. CASE NextDay
  <2>1. /\ day' = day + 1 /\ settled' = {} /\ jobTicks' \in 1..JobTicks
        /\ UNCHANGED <<ends, up, warned>>
    BY <1>12 DEF NextDay
  <2>2. day' >= UtcDay(ends)' => {1} \X Recipients \subseteq warned'
    BY <1>1, <1>2, <1>12, <2>1, WarnedInTime DEF UtcDay
  <2> QED
    BY <1>3, <2>1, <2>2
<1>13. CASE UNCHANGED jobVars
  BY <1>3, <1>4, <1>13 DEF jobVars, world, loopVars, stored, ghosts
<1> QED
  BY <1>5, <1>6, <1>7, <1>8, <1>9, <1>10, <1>11, <1>12, <1>13, TroubleCounts
     DEF JobsNext, SchedulerStep, Sends

\* Both hold at the start.
LEMMA CalmInit == ASSUME JobsInit PROVE OutageInv /\ WarnInv
<1>1. OutageInv
  BY JobsAssumption DEF JobsInit, OutageInv, Cold
<1>2. day = 1 /\ UtcDay(ends) \in Int /\ UtcDay(ends) > 1 /\ jobTicks # 0 /\ up /\ settled = {}
  <2>1. ends.day \in Int /\ ends.day >= 3 /\ JobTicks \in Nat
    BY JobsAssumption DEF JobsInit, Ends
  <2> QED
    BY <2>1 DEF JobsInit, UtcDay
<1>3. WarnInv
  BY <1>2 DEF WarnInv
<1> QED
  BY <1>1, <1>3

\* An outage of the AI service is reported (schedulers 133-201): for any
\* threshold and number of days, while nothing else fails the administrator has
\* been told since it last answered exactly if it has been silent for
\* AiThreshold runs in a row.
THEOREM OutagesReported == JobsSpec => []OutagesAreReported
<1>1. JobsInit => OutageInv
  BY CalmInit
<1>2. JobsInv /\ OutageInv /\ [JobsNext]_jobVars => OutageInv'
  BY OutageStep DEF JobsInv
<1>3. OutageInv => OutagesAreReported
  BY DEF OutageInv, OutagesAreReported
<1> QED
  BY <1>1, <1>2, <1>3, JobsInvariant, PTL DEF JobsSpec

\* The day a subscription ends dawns after the one-day warning (db/payments
\* 131-153, schedulers 661-678): while nothing fails, every member has been sent
\* it, for any part of the day the subscription ends in.
THEOREM WarnedTheDayBefore == JobsSpec => []WarnedBeforeTheEnd
<1>1. JobsInit => WarnInv
  BY CalmInit
<1>2. JobsInv /\ WarnInv /\ [JobsNext]_jobVars => WarnInv'
  BY WarnStep DEF JobsInv
<1>3. JobsInv /\ WarnInv => WarnedBeforeTheEnd
  <2>1. ASSUME TypeInv, day >= ends.day PROVE day >= UtcDay(ends)
    BY <2>1 DEF TypeInv, ClockTypes, Ends, UtcDay
  <2> QED
    BY <2>1 DEF JobsInv, WarnInv, WarnedBeforeTheEnd
<1> QED
  BY <1>1, <1>2, <1>3, JobsInvariant, PTL DEF JobsSpec
=============================================================================
