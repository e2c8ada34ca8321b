------------------------ MODULE GradeMonitorHistory -------------------------
(***************************************************************************)
(* GradeMonitor with history variables: how often each parent was sent the *)
(* stored grade, whether anything failed while it was in the outbox, and   *)
(* how many cycles ago each value was last read from the diary.  The       *)
(* history never guards a step of the monitor.                             *)
(***************************************************************************)
EXTENDS GradeMonitor

MaxCopies == 3  \* bound: copies are counted up to this many

VARIABLES
    copies,     \* [Keys -> [Parents -> 0..MaxCopies]], sends of the row as it is now
    disturbed,  \* rows during whose time in the outbox a call failed or the process died
    sighted,    \* [Keys -> [Cells -> 1..Ttl+1]], cycles since the cell was last read,
                \* readings before another new grade or before a write do not count
    lastColumn  \* what the last cycle read and did not use up, Blank for nothing

history == <<copies, disturbed, sighted, lastColumn>>
hvars == <<vars, history>>

NeverSighted == [k \in Keys |-> [c \in Cells |-> Ttl + 1]]

HInit == /\ Init
         /\ copies = [k \in Keys |-> [p \in Parents |-> 0]]
         /\ disturbed = {}
         /\ sighted = NeverSighted
         /\ lastColumn = BlankColumn

Once(n) == IF n < MaxCopies THEN n + 1 ELSE n

CountCopies(p) ==
    copies' = [k \in Keys |-> IF k \in recipients[p]
                              THEN [copies[k] EXCEPT ![p] = Once(@)] ELSE copies[k]]

\* The rows a failure of this step may cause to be sent again.
MarkDisturbed == disturbed' = IF faults' > faults THEN disturbed \cup Outbox ELSE disturbed

RememberColumn ==
    /\ lastColumn' = BlankColumn
    /\ sighted' = [k \in Keys |-> [c \in Cells |->
                     IF lastColumn[k] = c THEN 1
                     ELSE IF sighted[k][c] <= Ttl THEN sighted[k][c] + 1 ELSE Ttl + 1]]

\* Another new grade is met in the cell of k: earlier readings of others are void.
Overtaken(k, cell) ==
    /\ sighted' = [sighted EXCEPT ![k] =
                      [c \in Cells |-> IF c = cell THEN sighted[k][c] ELSE Ttl + 1]]
    /\ UNCHANGED lastColumn

\* A confirmation uses up every reading of k so far.
UsedUp(k) ==
    /\ sighted' = [sighted EXCEPT ![k] = [c \in Cells |-> Ttl + 1]]
    /\ lastColumn' = [lastColumn EXCEPT ![k] = Blank]

HNext ==
    \/ /\ World \/ SweepEnds \/ DispatchEnds \/ EndCycle \/ FinishStudent
          \/ (\E s \in Students : SweepStudent(s) \/ PickStudent(s))
          \/ CycleAborts \/ SweepDispatchAborts
          \/ \E k \in Keys : CellUnchanged(k) \/ CellTrimmed(k) \/ MarkNotified(k)
       /\ MarkDisturbed
       /\ UNCHANGED <<copies, sighted, lastColumn>>
    \/ (\E p \in Parents : SendFails(p)) /\ disturbed' = disturbed \cup Outbox
       /\ UNCHANGED <<copies, sighted, lastColumn>>
    \/ StartCycle /\ MarkDisturbed /\ RememberColumn /\ UNCHANGED copies
    \/ Fetch /\ MarkDisturbed /\ lastColumn' = column' /\ UNCHANGED <<copies, sighted>>
    \/ \E p \in Parents :
          SendSucceeds(p) /\ CountCopies(p) /\ UNCHANGED <<disturbed, sighted, lastColumn>>
    \/ \E k \in Keys :
          /\ CellConfirmed(k)
          /\ copies' = [copies EXCEPT ![k] = [p \in Parents |-> 0]]
          /\ disturbed' = disturbed \ {k}
          /\ UsedUp(k)
    \/ \E k \in Keys :
          /\ \/ CellPending(k) /\ Overtaken(k, column[k])
             \/ WriteFails(k) /\ UsedUp(k)
          /\ MarkDisturbed /\ UNCHANGED copies
    \/ Crash /\ MarkDisturbed /\ sighted' = NeverSighted /\ lastColumn' = BlankColumn
             /\ UNCHANGED copies

HSpec == HInit /\ [][HNext]_hvars
HFairSpec == HSpec /\ WF_vars(Monitor)
-----------------------------------------------------------------------------
\* No spam (monitor_engine 171-178, 899-915): a parent is sent the same grade
\* again only if, while that grade was in the outbox, a send or a mark failed
\* or the process died.  Concurrent edits, joins, erasures and the sweeper
\* never cause a copy by themselves.
RepeatsNeedAFailure ==
    \A k \in Keys, p \in Parents : copies[k][p] > 1 => k \in disturbed

\* Two-phase confirmation as _check_pending_confirmation carries it out
\* (monitor_engine 69-89): a grade is written and announced only if an earlier
\* cycle of the same process, at most Ttl cycles back, had already read the
\* same cell, and since then no other new grade was met in it and no write of
\* it was tried.  The comment above the code (53-55) promises more, that the
\* two cycles are consecutive and a value gone in between is discarded; that
\* does not hold, see GradeGhosts.
WrittenOnSecondSighting ==
    [][\A k \in Keys :
          AddsGrade(text[k], text'[k]) => sighted[k][text'[k]] <= Ttl]_hvars

\* tests/test_monitor_outbox.py 12-13 asks that what the first send missed is
\* delivered exactly once by the sweeper and not repeated after that: no
\* parent is sent a third copy of one grade.
SweptOnce == \A k \in Keys, p \in Parents : copies[k][p] <= 2
=============================================================================
