-------------------------- MODULE NightQueueProofs --------------------------
(***************************************************************************)
(* Proofs about NightQueue, for any number of parents, subjects, ticks,    *)
(* writes and failures: what a queue loses was delivered, and a parent     *)
(* hears the summary of a night twice only after a failure in between.     *)
(***************************************************************************)
EXTENDS NightQueue, WellFoundedInduction, TLAPS

\* The job knows whom it is writing to.
AtParent == pc \in {"compose", "send", "delete", "mark"} => cur \in Parents

\* Nobody is sent or queued a note that was not written.
Written ==
    /\ \A u \in outbox : u[1] \in 1..Len(log)
    /\ \A p \in Parents : queue[p] \subseteq 1..Len(log)
    /\ batch \subseteq 1..Len(log) /\ content \subseteq 1..Len(log)

TypeInv == TypeOK /\ AtParent /\ Written

\* Whom the job is writing to was not marked, and a summary leaves its mark, a
\* failure before the mark, or the job at this very parent.
SummaryInv ==
    /\ pc \in {"compose", "send"} => cur \notin sentToday
    /\ \A p \in Parents : summaries[p] > 0 =>
          p \in sentToday \/ p \in unsure \/ (cur = p /\ pc \in {"delete", "mark"})
    /\ SecondSummaryNeedsCrash

\* A summary made of notes shows n, or a later grade of its subject.
Covered(n, notes) == \E m \in notes : m >= n /\ log[m] = log[n]

\* What the job is going to delete is in the summary, itself or by a later grade,
\* and then was told.
ComposedInv ==
    /\ pc = "send" => \A n \in batch \cap fresh : Covered(n, content)
    /\ pc = "delete" => \A n \in batch \cap fresh : Covered(n, content \cap told[cur])

\* The notes of a log that grew by one.
LEMMA LogGrows ==
    ASSUME TypeOK, NEW g \in Subjects, Len(log) < MaxWrites
    PROVE  /\ Append(log, g) \in Seq(Subjects)
           /\ Len(Append(log, g)) = Len(log) + 1
           /\ DOMAIN log = 1..Len(log) /\ DOMAIN Append(log, g) = 1..(Len(log) + 1)
           /\ \A n \in 1..Len(log) : Append(log, g)[n] = log[n]
           /\ Append(log, g)[Len(log) + 1] = g
           /\ Len(log) + 1 \in Notes
  BY NightAssumption DEF TypeOK, DiaryTypes, Notes

-----------------------------------------------------------------------------
\* The first state has the types.
LEMMA InitTypes == Init => TypeInv
<1> SUFFICES ASSUME Init PROVE TypeInv
  OBVIOUS
<1>1. log \in Seq(Subjects) /\ Len(log) = 0 /\ Len(log) <= MaxWrites
  BY NightAssumption DEF Init
<1>2. /\ summaries \in [Parents -> 0..2]
      /\ queue \in [Parents -> SUBSET Notes] /\ told \in [Parents -> SUBSET Notes]
  BY NightAssumption DEF Init
<1>3. /\ AtParent /\ Written
  BY DEF Init, AtParent, Written
<1>4. DiaryTypes /\ MessageTypes
  BY <1>1, <1>2, NightAssumption DEF Init, DiaryTypes, MessageTypes
<1>5. jobDone \in BOOLEAN
  BY DEF Init
<1>6. /\ sentToday = {} /\ targets = {} /\ batch = {} /\ content = {} /\ gtodo = {}
      /\ unsure = {} /\ refused = {} /\ pc = "idle" /\ cur = NoParent
      /\ faults = 0
  BY DEF Init
<1>7. JobTypes
  <2>1. /\ sentToday \in SUBSET Parents /\ targets \in SUBSET Parents
        /\ faults \in 0..MaxFaults
    BY <1>6, NightAssumption
  <2>2. batch \in SUBSET Notes /\ content \in SUBSET Notes /\ gtodo \in SUBSET Notes
    BY <1>6
  <2> QED
    BY <1>2, <1>5, <1>6, <2>1, <2>2 DEF JobTypes
<1> QED
  BY <1>3, <1>4, <1>7 DEF TypeInv, TypeOK

\* Every step keeps the types.
LEMMA TypeStep == TypeInv /\ [Next]_vars => TypeInv'
<1> SUFFICES ASSUME TypeInv, [Next]_vars PROVE TypeInv'
  OBVIOUS
<1>0. /\ told \in [Parents -> SUBSET Notes] /\ queue \in [Parents -> SUBSET Notes]
      /\ content \subseteq Notes
      /\ \A p \in Parents : queue[p] \subseteq 1..Len(log)
      /\ pc = "send" => cur \in Parents
  BY DEF TypeInv, TypeOK, MessageTypes, JobTypes, AtParent, Written
<1> USE NightAssumption
    DEF TypeInv, TypeOK, DiaryTypes, MessageTypes, JobTypes, AtParent,
        Written, Fault, ForgetParent, clock, diary, sending, queues, heard, markers,
        job, tally
<1>1. ASSUME NightFalls PROVE TypeInv'
  BY <1>1 DEF NightFalls
<1>24. ASSUME Midnight PROVE TypeInv'
  BY <1>24 DEF Midnight
<1>2. ASSUME Dawn PROVE TypeInv'
  <2>1. summaries' \in [Parents -> 0..2]
    BY <1>2 DEF Dawn
  <2>2. DiaryTypes'
    BY <1>2, <2>1 DEF Dawn
  <2>3. MessageTypes'
    BY <1>2, <2>1 DEF Dawn
  <2>4. JobTypes'
    BY <1>2, <2>1 DEF Dawn
  <2>5. AtParent' /\ Written'
    BY <1>2, <2>1 DEF Dawn
  <2> QED
    BY <2>2, <2>3, <2>4, <2>5
<1>3. ASSUME WindowCloses PROVE TypeInv'
  BY <1>3 DEF WindowCloses
<1>4. ASSUME NEW g \in Subjects, Write(g) PROVE TypeInv'
  <2>1. /\ log' \in Seq(Subjects) /\ Len(log') = Len(log) + 1
        /\ Len(log) + 1 \in Notes /\ Len(log') <= MaxWrites
    BY <1>4, LogGrows DEF Write
  <2>6. /\ live' \in SUBSET (1..Len(log'))
        /\ todays' \in SUBSET live' /\ fresh' \in SUBSET live'
    <3> DEFINE old == RowsOf(g)
               n == Len(log) + 1
    <3>1. /\ live' = (live \ old) \cup {n} /\ todays' = (todays \ old) \cup {n}
          /\ fresh' = (fresh \ old) \cup {n}
      BY <1>4 DEF Write
    <3>2. n \in 1..Len(log') /\ 1..Len(log) \subseteq 1..Len(log')
      BY <2>1
    <3> HIDE DEF old, n
    <3> QED
      BY <3>1, <3>2
  <2>2. DiaryTypes'
    BY <1>4, <2>1, <2>6 DEF Write
  <2>3. MessageTypes'
    BY <1>4, <2>1 DEF Write, Notes
  <2>4. JobTypes'
    BY <1>4, <2>1 DEF Write, Notes
  <2>5. AtParent' /\ Written'
    BY <1>4, <2>1 DEF Write, Notes
  <2> QED
    BY <2>2, <2>3, <2>4, <2>5
<1>5. ASSUME NEW g \in Subjects, Erase(g) PROVE TypeInv'
  <2>5. /\ live' \in SUBSET (1..Len(log'))
        /\ todays' \in SUBSET live' /\ fresh' \in SUBSET live'
    BY <1>5 DEF Erase
  <2>1. DiaryTypes'
    BY <1>5, <2>5 DEF Erase
  <2>2. MessageTypes'
    BY <1>5 DEF Erase
  <2>3. JobTypes'
    BY <1>5 DEF Erase
  <2>4. AtParent' /\ Written'
    BY <1>5 DEF Erase
  <2> QED
    BY <2>1, <2>2, <2>3, <2>4
<1>6. ASSUME NEW n \in Notes, NEW p \in Parents, SendNow(n, p) PROVE TypeInv'
  BY <1>6 DEF SendNow
<1>7. ASSUME NEW n \in Notes, NEW p \in Parents, Defer(n, p) PROVE TypeInv'
  BY <1>7 DEF Defer
<1>8. ASSUME NEW n \in Notes, NEW p \in Parents, Enqueue(n, p) PROVE TypeInv'
  <2>1. n \in 1..Len(log)
    BY <1>8 DEF Enqueue
  <2>2. outbox' \subseteq outbox
    BY <1>8 DEF Enqueue
  <2>3. queue' = queue \/ queue' = [queue EXCEPT ![p] = queue[p] \cup {n}]
    BY <1>8 DEF Enqueue
  <2>4. /\ queue' \in [Parents -> SUBSET Notes]
        /\ \A q \in Parents : queue'[q] \subseteq 1..Len(log)
    <3>1. n \in Notes
      OBVIOUS
    <3> HIDE NightAssumption
        DEF TypeInv, TypeOK, DiaryTypes, MessageTypes, JobTypes, AtParent,
            Written, Fault, ForgetParent
    <3> QED
      BY <1>0, <2>1, <2>3, <3>1
  <2>5. DiaryTypes'
    BY <1>8, <2>2, <2>3, <2>4 DEF Enqueue
  <2>6. MessageTypes'
    BY <1>8, <2>2, <2>3, <2>4 DEF Enqueue
  <2>7. JobTypes'
    BY <1>8, <2>2, <2>3, <2>4 DEF Enqueue
  <2>8. AtParent' /\ Written'
    BY <1>8, <2>2, <2>3, <2>4 DEF Enqueue
  <2> QED
    BY <2>5, <2>6, <2>7, <2>8
<1>9. ASSUME NEW n \in Notes, Post(n) PROVE TypeInv'
  <2>1. DiaryTypes'
    BY <1>9 DEF Post
  <2>2. MessageTypes'
    BY <1>9 DEF Post
  <2>3. JobTypes'
    BY <1>9 DEF Post
  <2>4. AtParent' /\ Written'
    BY <1>9 DEF Post
  <2> QED
    BY <2>1, <2>2, <2>3, <2>4
<1>10. ASSUME Tick PROVE TypeInv'
  BY <1>10 DEF Tick
<1>11. ASSUME NEW p \in Parents, PickParent(p) PROVE TypeInv'
  <2>1. cur' \in Parents \cup {NoParent} /\ pc' \in {"flush", "compose"}
    BY <1>11 DEF PickParent
  <2>2. batch \in SUBSET Notes /\ queue[p] \in SUBSET Notes
    OBVIOUS
  <2>3. batch' = batch \/ batch' = queue[p]
    BY <1>11 DEF PickParent
  <2>4. DiaryTypes'
    BY <1>11, <2>1, <2>2, <2>3 DEF PickParent
  <2>5. MessageTypes'
    BY <1>11, <2>1, <2>2, <2>3 DEF PickParent
  <2>6. JobTypes'
    BY <1>11, <2>1, <2>2, <2>3 DEF PickParent
  <2>7. AtParent' /\ Written'
    BY <1>11, <2>1, <2>2, <2>3 DEF PickParent
  <2> QED
    BY <2>4, <2>5, <2>6, <2>7
<1>12. ASSUME Compose PROVE TypeInv'
  <2>1. content' \in SUBSET (1..Len(log)) /\ content' \in SUBSET Notes
    <3>1. content' \subseteq batch \cup fresh
      BY <1>12 DEF Compose, Overnight
    <3> QED
      BY <3>1 DEF Notes
  <2>2. DiaryTypes' /\ MessageTypes'
    BY <1>12 DEF Compose
  <2>3. JobTypes'
    BY <1>12, <2>1 DEF Compose
  <2>4. AtParent' /\ Written'
    BY <1>12, <2>1 DEF Compose
  <2> QED
    BY <2>2, <2>3, <2>4
<1>13. ASSUME SummarySent PROVE TypeInv'
  <2>1. DiaryTypes'
    BY <1>13 DEF SummarySent
  <2>2. MessageTypes'
    BY <1>13 DEF SummarySent
  <2>3. JobTypes'
    BY <1>13 DEF SummarySent
  <2>4. AtParent' /\ Written'
    BY <1>13 DEF SummarySent
  <2> QED
    BY <2>1, <2>2, <2>3, <2>4
<1>14. ASSUME SummaryFails PROVE TypeInv'
  <2>1. told' \in [Parents -> SUBSET Notes]
    <3> HIDE NightAssumption
        DEF TypeInv, TypeOK, DiaryTypes, MessageTypes, JobTypes, AtParent,
            Written
    <3>1. CASE UNCHANGED told
      BY <1>0, <3>1
    <3>2. CASE \E part \in SUBSET content :
                  told' = [told EXCEPT ![cur] = told[cur] \cup part] /\ cur \in Parents
      BY <1>0, <3>2
    <3> QED
      BY <1>0, <1>14, <3>1, <3>2 DEF SummaryFails
  <2>2. DiaryTypes'
    BY <1>14, <2>1 DEF SummaryFails
  <2>3. MessageTypes'
    BY <1>14, <2>1 DEF SummaryFails
  <2>4. JobTypes'
    BY <1>14, <2>1 DEF SummaryFails
  <2>5. AtParent' /\ Written'
    BY <1>14, <2>1 DEF SummaryFails
  <2> QED
    BY <2>2, <2>3, <2>4, <2>5
<1>15. ASSUME DeleteQueued PROVE TypeInv'
  BY <1>15 DEF DeleteQueued
<1>16. ASSUME MarkSent PROVE TypeInv'
  BY <1>16 DEF MarkSent
<1>17. ASSUME ParentsDone PROVE TypeInv'
  BY <1>17 DEF ParentsDone
<1>18. ASSUME NEW n \in Notes, PostQueued(n) PROVE TypeInv'
  <2>1. DiaryTypes'
    BY <1>18 DEF PostQueued
  <2>2. MessageTypes'
    BY <1>18 DEF PostQueued
  <2>3. JobTypes'
    BY <1>18 DEF PostQueued
  <2>4. AtParent' /\ Written'
    BY <1>18 DEF PostQueued
  <2> QED
    BY <2>1, <2>2, <2>3, <2>4
<1>19. ASSUME GroupsDone PROVE TypeInv'
  BY <1>19 DEF GroupsDone
<1>20. ASSUME SetMarker PROVE TypeInv'
  BY <1>20 DEF SetMarker
<1>21. ASSUME JobFails PROVE TypeInv'
  BY <1>21 DEF JobFails
<1>22. ASSUME Crash PROVE TypeInv'
  BY <1>22 DEF Crash
<1>23. CASE UNCHANGED vars
  BY <1>23 DEF vars
<1> QED
  BY <1>1, <1>2, <1>3, <1>4, <1>5, <1>6, <1>7, <1>8, <1>9, <1>10, <1>11, <1>12,
     <1>13, <1>14, <1>15, <1>16, <1>17, <1>18, <1>19, <1>20, <1>21, <1>22, <1>23, <1>24
     DEF Next, Clock, Polling, Scheduler

\* No summary has been sent at first.
LEMMA InitSummaries == Init => SummaryInv
  BY DEF Init, SummaryInv, SecondSummaryNeedsCrash

\* Every step keeps what is known of summaries and marks.
LEMMA SummaryStep == TypeInv /\ SummaryInv /\ [Next]_vars => SummaryInv'
<1> SUFFICES ASSUME TypeInv, SummaryInv, [Next]_vars PROVE SummaryInv'
  OBVIOUS
<1>0. /\ summaries \in [Parents -> 0..2]
      /\ pc \in {"compose", "send", "delete", "mark"} => cur \in Parents
  BY DEF TypeInv, TypeOK, MessageTypes, JobTypes, AtParent
<1> USE DEF SummaryInv, SecondSummaryNeedsCrash, Fault, ForgetParent, clock, diary,
            sending, queues, heard, markers, job, tally
<1>1. ASSUME NightFalls PROVE SummaryInv'
  BY <1>0, <1>1 DEF NightFalls
<1>24. ASSUME Midnight PROVE SummaryInv'
  BY <1>0, <1>24 DEF Midnight
<1>2. ASSUME Dawn PROVE SummaryInv'
  BY <1>0, <1>2 DEF Dawn
<1>3. ASSUME WindowCloses PROVE SummaryInv'
  BY <1>0, <1>3 DEF WindowCloses
<1>4. ASSUME NEW g \in Subjects, Write(g) PROVE SummaryInv'
  BY <1>0, <1>4 DEF Write
<1>5. ASSUME NEW g \in Subjects, Erase(g) PROVE SummaryInv'
  BY <1>0, <1>5 DEF Erase
<1>6. ASSUME NEW n \in Notes, NEW p \in Parents, SendNow(n, p) PROVE SummaryInv'
  BY <1>0, <1>6 DEF SendNow
<1>7. ASSUME NEW n \in Notes, NEW p \in Parents, Defer(n, p) PROVE SummaryInv'
  BY <1>0, <1>7 DEF Defer
<1>8. ASSUME NEW n \in Notes, NEW p \in Parents, Enqueue(n, p) PROVE SummaryInv'
  BY <1>0, <1>8 DEF Enqueue
<1>9. ASSUME NEW n \in Notes, Post(n) PROVE SummaryInv'
  BY <1>0, <1>9 DEF Post
<1>10. ASSUME Tick PROVE SummaryInv'
  BY <1>0, <1>10 DEF Tick
<1>11. ASSUME NEW p \in Parents, PickParent(p) PROVE SummaryInv'
  BY <1>0, <1>11 DEF PickParent
<1>12. ASSUME Compose PROVE SummaryInv'
  BY <1>0, <1>12 DEF Compose
<1>13. ASSUME SummarySent PROVE SummaryInv'
  BY <1>0, <1>13 DEF SummarySent
<1>14. ASSUME SummaryFails PROVE SummaryInv'
  BY <1>0, <1>14 DEF SummaryFails
<1>15. ASSUME DeleteQueued PROVE SummaryInv'
  BY <1>0, <1>15 DEF DeleteQueued
<1>16. ASSUME MarkSent PROVE SummaryInv'
  BY <1>0, <1>16 DEF MarkSent
<1>17. ASSUME ParentsDone PROVE SummaryInv'
  BY <1>0, <1>17 DEF ParentsDone
<1>18. ASSUME NEW n \in Notes, PostQueued(n) PROVE SummaryInv'
  BY <1>0, <1>18 DEF PostQueued
<1>19. ASSUME GroupsDone PROVE SummaryInv'
  BY <1>0, <1>19 DEF GroupsDone
<1>20. ASSUME SetMarker PROVE SummaryInv'
  BY <1>0, <1>20 DEF SetMarker
<1>21. ASSUME JobFails PROVE SummaryInv'
  BY <1>0, <1>21 DEF JobFails
<1>22. ASSUME Crash PROVE SummaryInv'
  BY <1>0, <1>22 DEF Crash
<1>23. CASE UNCHANGED vars
  BY <1>0, <1>23 DEF vars
<1> QED
  BY <1>1, <1>2, <1>3, <1>4, <1>5, <1>6, <1>7, <1>8, <1>9, <1>10, <1>11, <1>12,
     <1>13, <1>14, <1>15, <1>16, <1>17, <1>18, <1>19, <1>20, <1>21, <1>22, <1>23, <1>24
     DEF Next, Clock, Polling, Scheduler

\* The job is not running at first.
LEMMA InitComposed == Init => ComposedInv
  BY DEF Init, ComposedInv

\* A set of numbers up to n that is not empty has a greatest one.
LEMMA Greatest ==
    ASSUME NEW n \in Nat, NEW S \in SUBSET (1..n), S # {}
    PROVE  \E m \in S : \A k \in S : k <= m
<1> DEFINE T == {n - k : k \in S}
<1>1. T \subseteq Nat /\ T # {} /\ \A k \in S : n - k \in T
  OBVIOUS
<1> DEFINE L == OpToRel(<, Nat)
<1>2. \A x, y \in Nat : x < y => <<x, y>> \in L
  BY DEF OpToRel
<1>3. IsWellFoundedOn(L, Nat)
  BY NatLessThanWellFounded
<1> HIDE DEF L
<1>4. PICK x \in T : \A y \in T : ~ (<<y, x>> \in L)
  <2> HIDE DEF T
  <2> QED
    BY <1>1, <1>3, WFMin
<1>5. PICK m \in S : x = n - m
  OBVIOUS
<1>6. ASSUME NEW k \in S PROVE k <= m
  <2>1. ~ (n - k < x)
    BY <1>1, <1>2, <1>4
  <2>2. x = n - m /\ m \in Nat /\ k \in Nat
    BY <1>5
  <2> QED
    BY <2>1, <2>2
<1> QED
  BY <1>6

\* The summary of the night covers every row of the night.
LEMMA NightCovered ==
    ASSUME TypeInv, NEW n \in fresh
    PROVE  Covered(n, Overnight)
<1> DEFINE S == {m \in fresh : log[m] = log[n]}
<1>1. Len(log) \in Nat /\ S \in SUBSET (1..Len(log)) /\ S # {}
  <2>1. log \in Seq(Subjects) /\ fresh \subseteq 1..Len(log)
    BY DEF TypeInv, TypeOK, DiaryTypes
  <2>2. n \in S /\ S \subseteq fresh
    OBVIOUS
  <2>3. Len(log) \in Nat
    BY <2>1
  <2> HIDE DEF S
  <2> QED
    BY <2>1, <2>2, <2>3
<1>2. PICK m \in S : \A k \in S : k <= m
  BY <1>1, Greatest
<1> QED
  BY <1>1, <1>2 DEF Overnight, Covered

\* What the job holds of tonight was so before it was written on, and is covered
\* by the same notes.
LEMMA TonightKept ==
    ASSUME TypeInv, NEW g \in Subjects, Write(g) \/ Erase(g), NEW n \in batch \cap fresh',
           NEW notes, notes \subseteq 1..Len(log), n \in fresh => Covered(n, notes)
    PROVE  Covered(n, notes)'
<1>1. n \in 1..Len(log) /\ (\A m \in 1..Len(log) : log'[m] = log[m])
  BY LogGrows DEF TypeInv, TypeOK, DiaryTypes, Written, Write, Erase
<1>2. n \in fresh
  BY <1>1 DEF TypeInv, TypeOK, DiaryTypes, Write, Erase
<1> QED
  BY <1>1, <1>2 DEF Covered

\* Every step keeps what the summary is made of.
LEMMA ComposedStep == TypeInv /\ ComposedInv /\ [Next]_vars => ComposedInv'
<1> SUFFICES ASSUME TypeInv, ComposedInv, [Next]_vars PROVE ComposedInv'
  OBVIOUS
<1>0. content \subseteq 1..Len(log) /\ content \cap told[cur] \subseteq 1..Len(log)
  BY DEF TypeInv, Written
<1> USE DEF TypeInv, TypeOK, DiaryTypes, MessageTypes, JobTypes, AtParent, ComposedInv,
        Covered, Fault, ForgetParent, clock, diary, sending, queues, heard, markers, job,
        tally
<1>1. ASSUME NightFalls PROVE ComposedInv'
  BY <1>1 DEF NightFalls
<1>24. ASSUME Midnight PROVE ComposedInv'
  BY <1>24 DEF Midnight
<1>2. ASSUME Dawn PROVE ComposedInv'
  BY <1>2 DEF Dawn
<1>3. ASSUME WindowCloses PROVE ComposedInv'
  BY <1>3 DEF WindowCloses
<1>4. ASSUME NEW g \in Subjects, Write(g) PROVE ComposedInv'
  <2>1. UNCHANGED <<pc, batch, content, told, cur>>
    BY <1>4 DEF Write
  <2>2. CASE pc = "send"
    BY <1>4, <1>0, <2>1, <2>2, TonightKept
  <2>3. CASE pc = "delete"
    BY <1>4, <1>0, <2>1, <2>3, TonightKept
  <2> QED
    BY <2>1, <2>2, <2>3
<1>5. ASSUME NEW g \in Subjects, Erase(g) PROVE ComposedInv'
  <2>1. UNCHANGED <<pc, batch, content, told, cur>>
    BY <1>5 DEF Erase
  <2>2. CASE pc = "send"
    BY <1>5, <1>0, <2>1, <2>2, TonightKept
  <2>3. CASE pc = "delete"
    BY <1>5, <1>0, <2>1, <2>3, TonightKept
  <2> QED
    BY <2>1, <2>2, <2>3
<1>6. ASSUME NEW n \in Notes, NEW p \in Parents, SendNow(n, p) PROVE ComposedInv'
  BY <1>6 DEF SendNow
<1>7. ASSUME NEW n \in Notes, NEW p \in Parents, Defer(n, p) PROVE ComposedInv'
  BY <1>7 DEF Defer
<1>8. ASSUME NEW n \in Notes, NEW p \in Parents, Enqueue(n, p) PROVE ComposedInv'
  BY <1>8 DEF Enqueue
<1>9. ASSUME NEW n \in Notes, Post(n) PROVE ComposedInv'
  BY <1>9 DEF Post
<1>10. ASSUME Tick PROVE ComposedInv'
  BY <1>10 DEF Tick
<1>11. ASSUME NEW p \in Parents, PickParent(p) PROVE ComposedInv'
  BY <1>11 DEF PickParent
<1>12. ASSUME Compose PROVE ComposedInv'
  BY <1>12, NightCovered DEF Compose
<1>13. ASSUME SummarySent PROVE ComposedInv'
  BY <1>13 DEF SummarySent
<1>14. ASSUME SummaryFails PROVE ComposedInv'
  BY <1>14 DEF SummaryFails
<1>15. ASSUME DeleteQueued PROVE ComposedInv'
  BY <1>15 DEF DeleteQueued
<1>16. ASSUME MarkSent PROVE ComposedInv'
  BY <1>16 DEF MarkSent
<1>17. ASSUME ParentsDone PROVE ComposedInv'
  BY <1>17 DEF ParentsDone
<1>18. ASSUME NEW n \in Notes, PostQueued(n) PROVE ComposedInv'
  BY <1>18 DEF PostQueued
<1>19. ASSUME GroupsDone PROVE ComposedInv'
  BY <1>19 DEF GroupsDone
<1>20. ASSUME SetMarker PROVE ComposedInv'
  BY <1>20 DEF SetMarker
<1>21. ASSUME JobFails PROVE ComposedInv'
  BY <1>21 DEF JobFails
<1>22. ASSUME Crash PROVE ComposedInv'
  BY <1>22 DEF Crash
<1>23. CASE UNCHANGED vars
  BY <1>23 DEF vars
<1> QED
  BY <1>1, <1>2, <1>3, <1>4, <1>5, <1>6, <1>7, <1>8, <1>9, <1>10, <1>11, <1>12,
     <1>13, <1>14, <1>15, <1>16, <1>17, <1>18, <1>19, <1>20, <1>21, <1>22, <1>23, <1>24
     DEF Next, Clock, Polling, Scheduler

-----------------------------------------------------------------------------
\* The variables of NightQueue keep their types, in every reachable state of
\* every instance.
THEOREM TypeCorrect == Spec => []TypeOK
<1>1. TypeInv => TypeOK
  BY DEF TypeInv
<1> QED
  BY InitTypes, TypeStep, <1>1, PTL DEF Spec

\* A parent is sent the summary twice on one morning only after a failure between
\* the first and its mark, however often the job is started again.
THEOREM SecondSummaryExcused == Spec => []SecondSummaryNeedsCrash
<1>1. SummaryInv => SecondSummaryNeedsCrash
  BY DEF SummaryInv
<1> QED
  BY InitTypes, TypeStep, InitSummaries, SummaryStep, <1>1, PTL DEF Spec

\* Only deleting takes messages out of a parent's queue, and those it takes that
\* are of this night were told.
LEMMA NightStep ==
    TypeInv /\ ComposedInv /\ [Next]_vars =>
        [\A p \in Parents : \A n \in (queue[p] \ queue'[p]) \cap fresh :
            n \in told[p] \/ Overshadowed(n, p)]_vars
<1> SUFFICES ASSUME TypeInv, ComposedInv, Next,
                    NEW p \in Parents, NEW n \in (queue[p] \ queue'[p]) \cap fresh
             PROVE  n \in told[p] \/ Overshadowed(n, p)
  OBVIOUS
<1>1. \/ queue' = queue
      \/ \E m \in Notes, q \in Parents : Enqueue(m, q)
      \/ DeleteQueued
  BY DEF Next, Clock, Polling, Scheduler, NightFalls, Midnight, Dawn, WindowCloses, Write, Erase,
         SendNow, Defer, Post, Tick, PickParent, Compose, SummarySent, SummaryFails,
         MarkSent, ParentsDone, PostQueued, GroupsDone, SetMarker, JobFails, Crash,
         queues
<1>2. ASSUME NEW m \in Notes, NEW q \in Parents, Enqueue(m, q) PROVE FALSE
  BY <1>2 DEF Enqueue, TypeInv, TypeOK, DiaryTypes, MessageTypes, JobTypes
<1>3. CASE DeleteQueued
  BY <1>3 DEF DeleteQueued, TypeInv, TypeOK, DiaryTypes, MessageTypes, JobTypes,
             AtParent, ComposedInv, Covered, Overshadowed, Notes
<1> QED
  BY <1>1, <1>2, <1>3

\* A message about a grade of this night leaves a parent's queue only after the
\* parent was told what it says or was shown a later grade of the subject, whatever
\* is written, erased, queued or fails while the job reads, composes and deletes.
THEOREM NightReaches == Spec => NightReachesParents
<1> QED
  BY InitTypes, TypeStep, InitComposed, ComposedStep, NightStep, PTL
     DEF Spec, NightReachesParents

\* A message leaves the queue of a chat only after it was posted there.
THEOREM ChatIsPosted == Spec => PostedBeforeDeleted
<1>1. [Next]_vars => [gqueue \ gqueue' \subseteq gtold']_vars
  BY DEF Next, Clock, Polling, Scheduler, NightFalls, Midnight, Dawn, WindowCloses, Write, Erase,
         SendNow, Defer, Enqueue, Post, Tick, PickParent, Compose, SummarySent,
         SummaryFails, DeleteQueued, MarkSent, ParentsDone, PostQueued, GroupsDone,
         SetMarker, JobFails, Crash, queues
<1> QED
  BY <1>1, PTL DEF Spec, PostedBeforeDeleted
-----------------------------------------------------------------------------
(* The daily promise: every step maps to a step of DailyPromise or a stutter. *)

\* Where the job is in its work: at night it rests; while it works its marker is
\* not set; whom it has still to reach has messages queued; and whom it is
\* about to delete from or to mark was sent a summary, as were the marked.
WorkInv ==
    /\ Quiet => pc = "idle"
    /\ pc \in {"idle", "groups", "marker"} => targets = {}
    /\ pc \in {"idle", "flush", "groups", "marker"} => cur = NoParent
    /\ pc # "idle" => ~ jobDone
    /\ cur \notin targets /\ \A p \in targets : queue[p] # {}
    /\ pc \in {"delete", "mark"} => summaries[cur] > 0
    /\ \A p \in sentToday : summaries[p] > 0

\* The job rests at first.
LEMMA InitWork == Init => WorkInv
  BY DEF Init, WorkInv

\* Every step keeps the place of the job.
LEMMA WorkStep == TypeInv /\ WorkInv /\ [Next]_vars => WorkInv'
<1> SUFFICES ASSUME TypeInv, WorkInv, [Next]_vars PROVE WorkInv'
  OBVIOUS
<1>0. /\ summaries \in [Parents -> 0..2] /\ queue \in [Parents -> SUBSET Notes]
      /\ pc \in {"compose", "send", "delete", "mark"} => cur \in Parents
      /\ targets \subseteq Parents /\ sentToday \subseteq Parents /\ NoParent \notin Parents
      /\ pc \in {"idle", "flush", "compose", "send", "delete", "mark", "groups", "marker"}
  BY NightAssumption DEF TypeInv, TypeOK, MessageTypes, JobTypes, AtParent
<1> USE DEF WorkInv, Quiet, Fault, ForgetParent, clock, diary, sending, queues, heard, markers, job,
            tally
<1>1. ASSUME NightFalls PROVE WorkInv'
  BY <1>0, <1>1 DEF NightFalls
<1>24. ASSUME Midnight PROVE WorkInv'
  BY <1>0, <1>24 DEF Midnight
<1>2. ASSUME Dawn PROVE WorkInv'
  BY <1>0, <1>2 DEF Dawn
<1>3. ASSUME WindowCloses PROVE WorkInv'
  BY <1>0, <1>3 DEF WindowCloses
<1>4. ASSUME NEW g \in Subjects, Write(g) PROVE WorkInv'
  BY <1>0, <1>4 DEF Write
<1>5. ASSUME NEW g \in Subjects, Erase(g) PROVE WorkInv'
  BY <1>0, <1>5 DEF Erase
<1>6. ASSUME NEW n \in Notes, NEW p \in Parents, SendNow(n, p) PROVE WorkInv'
  BY <1>0, <1>6 DEF SendNow
<1>7. ASSUME NEW n \in Notes, NEW p \in Parents, Defer(n, p) PROVE WorkInv'
  BY <1>0, <1>7 DEF Defer
<1>8. ASSUME NEW n \in Notes, NEW p \in Parents, Enqueue(n, p) PROVE WorkInv'
  BY <1>0, <1>8 DEF Enqueue
<1>9. ASSUME NEW n \in Notes, Post(n) PROVE WorkInv'
  BY <1>0, <1>9 DEF Post
<1>10. ASSUME Tick PROVE WorkInv'
  BY <1>0, <1>10 DEF Tick
<1>11. ASSUME NEW p \in Parents, PickParent(p) PROVE WorkInv'
  BY <1>0, <1>11 DEF PickParent
<1>12. ASSUME Compose PROVE WorkInv'
  BY <1>0, <1>12 DEF Compose
<1>13. ASSUME SummarySent PROVE WorkInv'
  BY <1>0, <1>13 DEF SummarySent
<1>14. ASSUME SummaryFails PROVE WorkInv'
  BY <1>0, <1>14 DEF SummaryFails
<1>15. ASSUME DeleteQueued PROVE WorkInv'
  BY <1>0, <1>15 DEF DeleteQueued
<1>16. ASSUME MarkSent PROVE WorkInv'
  BY <1>0, <1>16 DEF MarkSent
<1>17. ASSUME ParentsDone PROVE WorkInv'
  BY <1>0, <1>17 DEF ParentsDone
<1>18. ASSUME NEW n \in Notes, PostQueued(n) PROVE WorkInv'
  BY <1>0, <1>18 DEF PostQueued
<1>19. ASSUME GroupsDone PROVE WorkInv'
  BY <1>0, <1>19 DEF GroupsDone
<1>20. ASSUME SetMarker PROVE WorkInv'
  BY <1>0, <1>20 DEF SetMarker
<1>21. ASSUME JobFails PROVE WorkInv'
  BY <1>0, <1>21 DEF JobFails
<1>22. ASSUME Crash PROVE WorkInv'
  BY <1>0, <1>22 DEF Crash
<1>23. CASE UNCHANGED vars
  BY <1>0, <1>23 DEF vars
<1> QED
  BY <1>1, <1>2, <1>3, <1>4, <1>5, <1>6, <1>7, <1>8, <1>9, <1>10, <1>11, <1>12,
     <1>13, <1>14, <1>15, <1>16, <1>17, <1>18, <1>19, <1>20, <1>21, <1>22, <1>23, <1>24
     DEF Next, Clock, Polling, Scheduler

\* What the promise sees of the job.
StageNow == IF jobDone THEN "done" ELSE IF pc # "idle" THEN "called" ELSE "open"
WaitingNow == {p \in Parents : queue[p] # {}}
TodoNow == targets \cup (IF pc \in {"compose", "send"} THEN {cur} ELSE {})
DealtNow == {p \in Parents : summaries[p] > 0} \cup refused

\* The first state is one of the promise.
LEMMA DailyInit == Init => Daily!Init
  BY DEF Init, Daily!Init

\* The doubts a failure adds are about parents.
LEMMA FaultMaps ==
    ASSUME TypeInv, Fault,
           UNCHANGED unsure \/ unsure' = IF pc \in {"delete", "mark"} THEN unsure \cup {cur} ELSE unsure
    PROVE  Daily!Troubled
  BY DEF Fault, Daily!Troubled, TypeInv, TypeOK, JobTypes, AtParent

\* A step the promise does not see is a stutter, or a trouble.
LEMMA UnseenMaps ==
    ASSUME TypeInv, UNCHANGED <<StageNow, WaitingNow, TodoNow, DealtNow, summaries>>,
           UNCHANGED <<faults, unsure>> \/ Daily!Troubled
    PROVE  [Daily!Next]_(Daily!vars)
<1>1. CASE UNCHANGED <<faults, unsure>>
  BY <1>1 DEF Daily!vars, StageNow, WaitingNow, TodoNow, DealtNow
<1>2. CASE Daily!Troubled
  <2>1. Daily!Fail
    BY <1>2 DEF Daily!Fail, StageNow, WaitingNow, TodoNow, DealtNow
  <2> QED
    BY <2>1 DEF Daily!Next
<1> QED
  BY <1>1, <1>2

\* A duty that is left may be settled or said.
LEMMA DutyMaps ==
    /\ \A ds : ds \subseteq TodoNow /\ Daily!Settle("morning", ds) => Daily!Next
    /\ \A d : d \in TodoNow /\ Daily!Say("morning", d) => Daily!Next
  BY DEF Daily!Next, TodoNow

\* Writing, sending and posting are not seen; queueing is.
LEMMA PollingMaps ==
    ASSUME TypeInv, WorkInv, Polling
    PROVE  [Daily!Next]_(Daily!vars)
<1> DEFINE Unseen == /\ UNCHANGED <<StageNow, TodoNow, DealtNow, summaries, unsure>>
                     /\ UNCHANGED faults \/ Fault
<1>1. Unseen
  <2> USE DEF StageNow, TodoNow, DealtNow, markers, job, tally
  <2>1. ASSUME NEW g \in Subjects, Write(g) \/ Erase(g) PROVE Unseen
    BY <2>1 DEF Write, Erase
  <2>2. ASSUME NEW n \in Notes, NEW p \in Parents, SendNow(n, p) \/ Defer(n, p) \/ Enqueue(n, p)
        PROVE  Unseen
    BY <2>2 DEF SendNow, Defer, Enqueue
  <2>3. ASSUME NEW n \in Notes, Post(n) PROVE Unseen
    BY <2>3 DEF Post
  <2> QED
    BY <2>1, <2>2, <2>3 DEF Polling
<1>2. Fault => Daily!Troubled
  BY <1>1, FaultMaps
<1>3. ASSUME NEW n \in Notes, NEW p \in Parents, Enqueue(n, p) PROVE [Daily!Next]_(Daily!vars)
  <2>1. CASE Fault /\ UNCHANGED queue
    BY <1>1, <1>2, <2>1, UnseenMaps DEF WaitingNow
  <2>2. CASE queue' = [queue EXCEPT ![p] = queue[p] \cup {n}] /\ UNCHANGED faults
    <3>1. WaitingNow \subseteq WaitingNow' /\ WaitingNow' \subseteq Parents
      BY <2>2 DEF WaitingNow, TypeInv, TypeOK, MessageTypes
    <3>2. Daily!Queue
      BY <1>1, <2>2, <3>1
         DEF Daily!Queue, Daily!Smoothly, StageNow, WaitingNow, TodoNow, DealtNow
    <3> QED
      BY <3>2 DEF Daily!Next
  <2> QED
    BY <1>3, <2>1, <2>2 DEF Enqueue
<1>4. CASE UNCHANGED queue
  BY <1>1, <1>2, <1>4, UnseenMaps DEF WaitingNow
<1> QED
  BY <1>3, <1>4 DEF Polling, Write, Erase, SendNow, Defer, Post, queues

\* The clock closes a window unseen, and a new day begins with the job at rest.
LEMMA ClockMaps ==
    ASSUME TypeInv, WorkInv, Clock
    PROVE  [Daily!Next]_(Daily!vars)
<1>1. CASE NightFalls \/ Midnight \/ WindowCloses
  <2>1. UNCHANGED <<StageNow, WaitingNow, TodoNow, DealtNow, summaries, unsure>>
    BY <1>1 DEF NightFalls, Midnight, WindowCloses, StageNow, WaitingNow, TodoNow, DealtNow,
                queues, markers, job, tally
  <2>2. UNCHANGED faults \/ Daily!Troubled
    BY <1>1, <2>1, FaultMaps DEF NightFalls, Midnight, WindowCloses
  <2> QED
    BY <2>1, <2>2, UnseenMaps
<1>2. CASE Dawn
  <2>1. /\ pc = "idle" /\ targets = {} /\ UNCHANGED <<pc, targets, cur, faults>>
        /\ jobDone' = FALSE /\ summaries' = [p \in Parents |-> 0]
        /\ unsure' = {} /\ refused' = {}
    BY <1>2 DEF Dawn, WorkInv, Quiet, job
  <2>2. StageNow # "called" /\ StageNow' = "open" /\ UNCHANGED TodoNow /\ DealtNow' = {}
    BY <2>1 DEF StageNow, TodoNow, DealtNow
  <2>3. WaitingNow' \subseteq Parents
    BY DEF WaitingNow
  <2>5. \A p \in Parents : summaries'[p] = 0 /\ ~ (summaries'[p] > 1)
    BY <2>1
  <2>6. unsure \subseteq Parents
    BY DEF TypeInv, TypeOK, JobTypes
  <2>7. summaries' \in [Parents -> 0..2]
    BY <2>1
  <2>4. Daily!NewDay
    BY <2>7, <2>1, <2>2, <2>3, <2>5, <2>6 DEF Daily!NewDay, StageNow, WaitingNow, TodoNow, DealtNow
  <2> QED
    BY <2>4 DEF Daily!Next
<1> QED
  BY <1>1, <1>2 DEF Clock

\* A failure of the job, or of the process, ends the round before its end.
LEMMA FailureMaps ==
    ASSUME TypeInv, WorkInv, JobFails \/ Crash
    PROVE  Daily!Next
<1>1. /\ UNCHANGED <<queue, summaries, refused, jobDone>> /\ Fault
      /\ pc' = "idle" /\ targets' = {}
      /\ unsure' = IF pc \in {"delete", "mark"} THEN unsure \cup {cur} ELSE unsure
  BY DEF JobFails, Crash, queues, markers
<1>2. Daily!Troubled
  BY <1>1, FaultMaps
<1>3. UNCHANGED <<WaitingNow, DealtNow>> /\ TodoNow' = {}
  BY <1>1 DEF WaitingNow, DealtNow, TodoNow
<1>4. CASE pc = "idle"
  <2>1. UNCHANGED <<StageNow, TodoNow>>
    BY <1>1, <1>3, <1>4 DEF WorkInv, StageNow, TodoNow
  <2> QED
    BY <1>1, <1>2, <1>3, <2>1
       DEF Daily!Next, Daily!Fail, StageNow, WaitingNow, TodoNow, DealtNow
<1>5. CASE pc # "idle"
  <2>1. StageNow = "called" /\ StageNow' = "open"
    BY <1>1, <1>5 DEF WorkInv, StageNow
  <2> QED
    BY <1>1, <1>2, <1>3, <2>1
       DEF Daily!Next, Daily!Fail, StageNow, WaitingNow, TodoNow, DealtNow
<1> QED
  BY <1>4, <1>5

\* A tick calls on all who have messages queued, unless the job is done.
LEMMA TickMaps ==
    ASSUME TypeInv, WorkInv, Tick
    PROVE  [Daily!Next]_(Daily!vars)
<1>1. /\ pc = "idle" /\ UNCHANGED <<queue, summaries, refused, unsure, jobDone, cur, faults>>
      /\ IF jobDone THEN UNCHANGED <<pc, targets>> ELSE targets' = WaitingNow /\ pc' = "flush"
  BY DEF Tick, WaitingNow, queues, markers, tally
<1>2. UNCHANGED <<WaitingNow, DealtNow>>
  BY <1>1 DEF WaitingNow, DealtNow
<1>3. CASE jobDone
  <2>1. UNCHANGED <<StageNow, TodoNow>>
    BY <1>1, <1>3 DEF StageNow, TodoNow
  <2> QED
    BY <1>1, <1>2, <2>1, UnseenMaps
<1>4. CASE ~ jobDone
  <2>1. StageNow = "open" /\ StageNow' = "called" /\ TodoNow' = WaitingNow
    BY <1>1, <1>4 DEF StageNow, TodoNow
  <2>2. Daily!Call("morning")
    BY <1>1, <1>2, <2>1
       DEF Daily!Call, Daily!Smoothly, StageNow, WaitingNow, TodoNow, DealtNow
  <2> QED
    BY <2>2 DEF Daily!Next
<1> QED
  BY <1>3, <1>4

\* A parent who was marked is settled; the others are written to.
LEMMA PickMaps ==
    ASSUME TypeInv, WorkInv, NEW p \in Parents, PickParent(p)
    PROVE  [Daily!Next]_(Daily!vars)
<1>1. /\ pc = "flush" /\ p \in targets /\ targets' = targets \ {p}
      /\ UNCHANGED <<queue, summaries, refused, unsure, jobDone, faults>>
      /\ IF p \in sentToday THEN UNCHANGED <<pc, cur>> ELSE pc' = "compose" /\ cur' = p
  BY DEF PickParent, WorkInv, queues, markers, tally
<1>2. UNCHANGED <<WaitingNow, DealtNow, StageNow>> /\ StageNow = "called" /\ TodoNow = targets
  BY <1>1 DEF WorkInv, WaitingNow, DealtNow, StageNow, TodoNow
<1>3. CASE p \in sentToday
  <2>1. TodoNow' = TodoNow \ {p} /\ DealtNow = DealtNow \cup {p}
    BY <1>1, <1>2, <1>3 DEF WorkInv, TodoNow, DealtNow
  <2>2. Daily!Settle("morning", {p})
    BY <1>1, <1>2, <2>1
       DEF Daily!Settle, Daily!Smoothly, StageNow, WaitingNow, TodoNow, DealtNow
  <2> QED
    BY <1>1, <1>2, <2>2, DutyMaps
<1>4. CASE p \notin sentToday
  <2>1. TodoNow' = TodoNow
    BY <1>1, <1>2, <1>4 DEF TodoNow
  <2> QED
    BY <1>1, <1>2, <2>1, UnseenMaps
<1> QED
  BY <1>3, <1>4

\* A summary is said once more, or its parent settled without one for now.
LEMMA SendMaps ==
    ASSUME TypeInv, SummaryInv, WorkInv, SummarySent \/ SummaryFails
    PROVE  Daily!Next
<1>1. /\ pc = "send" /\ pc' \in {"delete", "flush"}
      /\ UNCHANGED <<queue, unsure, jobDone, targets>>
      /\ cur \in Parents /\ cur \notin targets
  BY DEF SummarySent, SummaryFails, WorkInv, TypeInv, AtParent, queues, markers
<1>2. /\ StageNow = "called" /\ UNCHANGED <<StageNow, WaitingNow>>
      /\ TodoNow = targets \cup {cur} /\ TodoNow' = TodoNow \ {cur}
  BY <1>1 DEF WorkInv, StageNow, WaitingNow, TodoNow
<1>p. PICK p \in Parents : p = cur
  BY <1>1
<1>3. CASE SummarySent
  <2>1. /\ summaries' = [summaries EXCEPT ![cur] = IF @ < 2 THEN @ + 1 ELSE 2]
        /\ refused' = refused \ {cur} /\ UNCHANGED faults
    BY <1>3 DEF SummarySent
  <2>2. summaries[cur] \in 0..2
    BY <1>1 DEF TypeInv, TypeOK, JobTypes
  <2>3. summaries' = [summaries EXCEPT ![cur] = IF @ < 2 THEN @ + 1 ELSE @]
    <3>1. (IF summaries[cur] < 2 THEN summaries[cur] + 1 ELSE 2)
             = (IF summaries[cur] < 2 THEN summaries[cur] + 1 ELSE summaries[cur])
      BY <2>2
    <3> QED
      BY <2>1, <3>1, Zenon
  <2>6. DealtNow' = DealtNow \cup {cur}
    <3>1. summaries'[cur] > 0 /\ \A q \in Parents : q # cur => summaries'[q] = summaries[q]
      BY <1>1, <2>1, <2>2 DEF TypeInv, TypeOK, JobTypes
    <3> QED
      BY <1>1, <2>1, <3>1 DEF DealtNow
  <2>4. summaries[cur] > 0 => cur \in unsure'
    BY <1>1 DEF SummaryInv
  <2>5. Daily!Say("morning", p)
    BY <1>1, <1>p, <1>2, <2>1, <2>3, <2>4, <2>6
       DEF Daily!Say, Daily!Smoothly, StageNow, WaitingNow, TodoNow, DealtNow
  <2> QED
    BY <1>2, <1>p, <2>5, DutyMaps
<1>4. CASE SummaryFails
  <2>1. refused' = refused \cup {cur} /\ UNCHANGED summaries /\ Fault
    BY <1>4 DEF SummaryFails
  <2>2. Daily!Troubled /\ DealtNow' = DealtNow \cup {cur}
    BY <1>1, <2>1, FaultMaps DEF DealtNow
  <2>3. Daily!Settle("morning", {p})
    BY <1>1, <1>p, <1>2, <2>1, <2>2 DEF Daily!Settle, StageNow, WaitingNow, TodoNow, DealtNow
  <2> QED
    BY <1>2, <1>p, <2>3, DutyMaps
<1> QED
  BY <1>3, <1>4

\* Who no longer waits after the queue was emptied was sent a summary.
LEMMA DeleteMaps ==
    ASSUME TypeInv, WorkInv, DeleteQueued
    PROVE  Daily!Next
<1>1. /\ pc = "delete" /\ pc' = "mark" /\ cur \in Parents
      /\ queue' = [queue EXCEPT ![cur] = queue[cur] \ batch]
      /\ UNCHANGED <<summaries, refused, unsure, jobDone, targets, cur, faults>>
  BY DEF DeleteQueued, TypeInv, AtParent, markers, tally
<1>2. UNCHANGED <<StageNow, TodoNow, DealtNow>> /\ WaitingNow' \subseteq Parents
  BY <1>1 DEF StageNow, TodoNow, DealtNow, WaitingNow
<1>3. WaitingNow \ WaitingNow' \subseteq DealtNow
  BY <1>1 DEF WaitingNow, DealtNow, WorkInv, TypeInv, TypeOK, MessageTypes
<1>4. Daily!Queue
  BY <1>1, <1>2, <1>3
     DEF Daily!Queue, Daily!Smoothly, StageNow, WaitingNow, TodoNow, DealtNow
<1> QED
  BY <1>4 DEF Daily!Next

\* The other steps of the job are unseen, but for the marker, which finishes.
LEMMA OtherMaps ==
    ASSUME TypeInv, WorkInv,
           Compose \/ MarkSent \/ ParentsDone \/ GroupsDone \/ SetMarker
             \/ \E n \in Notes : PostQueued(n)
    PROVE  [Daily!Next]_(Daily!vars)
<1>1. /\ UNCHANGED <<queue, summaries, refused, unsure, targets>>
      /\ UNCHANGED faults \/ Fault
  BY DEF Compose, MarkSent, ParentsDone, GroupsDone, SetMarker, PostQueued, queues, tally
<1>2. UNCHANGED <<WaitingNow, DealtNow>> /\ (UNCHANGED faults \/ Daily!Troubled)
  BY <1>1, FaultMaps DEF WaitingNow, DealtNow
<1>3. CASE ~ SetMarker
  <2>1. UNCHANGED <<StageNow, TodoNow>>
    BY <1>1, <1>3 DEF Compose, MarkSent, ParentsDone, GroupsDone, PostQueued, markers,
                      ForgetParent, StageNow, TodoNow
  <2> QED
    BY <1>1, <1>2, <2>1, UnseenMaps
<1>4. CASE SetMarker
  <2>1. /\ StageNow = "called" /\ StageNow' = "done" /\ TodoNow = {} /\ UNCHANGED TodoNow
        /\ UNCHANGED faults
    BY <1>1, <1>4 DEF SetMarker, WorkInv, StageNow, TodoNow
  <2>2. Daily!Finish("morning")
    BY <1>1, <1>2, <2>1
       DEF Daily!Finish, Daily!Smoothly, StageNow, WaitingNow, TodoNow, DealtNow
  <2> QED
    BY <2>2 DEF Daily!Next
<1> QED
  BY <1>3, <1>4

\* Every step of the night queue is a step of the promise or a stutter.
LEMMA DailyStep ==
    TypeInv /\ SummaryInv /\ WorkInv /\ [Next]_vars => [Daily!Next]_(Daily!vars)
<1> SUFFICES ASSUME TypeInv, SummaryInv, WorkInv, [Next]_vars PROVE [Daily!Next]_(Daily!vars)
  OBVIOUS
<1>1. CASE UNCHANGED vars
  BY <1>1 DEF vars, Daily!vars, queues, markers, job, tally
<1>2. CASE Scheduler
  BY <1>2, TickMaps, PickMaps, SendMaps, DeleteMaps, OtherMaps DEF Scheduler
<1> QED
  BY <1>1, <1>2, PollingMaps, ClockMaps, FailureMaps DEF Next

\* One summary a morning, everybody (schedulers 207-226, 308-443): whatever is
\* written, queued and deleted meanwhile, however often the job is started again
\* and whatever fails, the morning job is a daily round of DailyPromise, for any
\* number of parents, messages and failures.
THEOREM EverybodyOnceAMorning == Spec => KeepsDailyPromise
  BY InitTypes, TypeStep, InitSummaries, SummaryStep, InitWork, WorkStep, DailyInit, DailyStep,
     PTL DEF Spec, KeepsDailyPromise, Daily!Spec

\* The promise is worth having: whoever keeps it summarises no parent a second
\* time on one morning without a failure in between (schedulers 113-129, 344-345).
THEOREM PromiseMeansOneSummary == KeepsDailyPromise => []SecondSummaryNeedsCrash
<1> DEFINE Inv == summaries \in [Parents -> 0..2] /\ SecondSummaryNeedsCrash
<1>1. Daily!Init => Inv
  BY DEF Daily!Init, SecondSummaryNeedsCrash
<1>2. Inv /\ [Daily!Next]_(Daily!vars) => Inv'
  <2> SUFFICES ASSUME Inv, [Daily!Next]_(Daily!vars) PROVE Inv'
    OBVIOUS
  <2>1. ASSUME UNCHANGED summaries, unsure \subseteq unsure' PROVE Inv'
    BY <2>1 DEF SecondSummaryNeedsCrash
  <2>2. CASE UNCHANGED Daily!vars
    BY <2>1, <2>2 DEF Daily!vars
  <2>3. ASSUME NEW r, Daily!Call(r) \/ Daily!Finish(r) PROVE Inv'
    BY <2>1, <2>3 DEF Daily!Call, Daily!Finish, Daily!Smoothly
  <2>4. ASSUME NEW r, NEW ds, Daily!Settle(r, ds) PROVE Inv'
    BY <2>1, <2>4 DEF Daily!Settle, Daily!Smoothly, Daily!Troubled
  <2>5. ASSUME NEW r, NEW d, Daily!Say(r, d) PROVE Inv'
    <3>1. /\ summaries[d] > 0 => d \in unsure'
          /\ summaries' = [summaries EXCEPT ![d] = IF @ < 2 THEN @ + 1 ELSE @]
          /\ unsure \subseteq unsure'
      BY <2>5 DEF Daily!Say, Daily!Smoothly, Daily!Troubled
    <3>2. summaries' \in [Parents -> 0..2]
      <4>1. CASE d \in Parents
        <5>1. (IF summaries[d] < 2 THEN summaries[d] + 1 ELSE summaries[d]) \in 0..2
          BY <4>1
        <5> QED
          BY <3>1, <4>1, <5>1
      <4>2. CASE d \notin Parents
        BY <3>1, <4>2
      <4> QED
        BY <4>1, <4>2
    <3>3. ASSUME NEW x \in Parents, summaries'[x] > 1 PROVE x \in unsure'
      <4>1. CASE x = d
        BY <3>1, <3>3, <4>1
      <4>2. CASE x # d
        BY <3>1, <3>3, <4>2 DEF SecondSummaryNeedsCrash
      <4> QED
        BY <4>1, <4>2
    <3> QED
      BY <3>2, <3>3 DEF SecondSummaryNeedsCrash
  <2>6. CASE Daily!Queue \/ Daily!Fail
    BY <2>1, <2>6 DEF Daily!Queue, Daily!Fail, Daily!Smoothly, Daily!Troubled
  <2>7. CASE Daily!NewDay
    <3>1. /\ summaries' \in [Parents -> 0..2]
          /\ \A x \in Parents : summaries'[x] \in {0, summaries[x]}
          /\ \A x \in unsure : summaries'[x] > 1 => x \in unsure'
      BY <2>7 DEF Daily!NewDay
    <3> QED
      BY <3>1 DEF SecondSummaryNeedsCrash
  <2> QED
    BY <2>2, <2>3, <2>4, <2>5, <2>6, <2>7 DEF Daily!Next
<1>3. Inv => SecondSummaryNeedsCrash
  OBVIOUS
<1> QED
  BY <1>1, <1>2, <1>3, PTL DEF KeepsDailyPromise, Daily!Spec
=============================================================================
