------------------------- MODULE GradeMonitorProofs -------------------------
(***************************************************************************)
(* Proofs about GradeMonitor for every set of students, subjects, parents  *)
(* and cells, every TTL, sweep limit and bound: the type invariant, that a *)
(* row marked notified is owed to nobody, and that every step of the       *)
(* polling thread is a step of GradePromise.  Then, with the history of    *)
(* GradeMonitorHistory: that a grade is sent twice only after a failure,   *)
(* and written only on a second sighting.                                  *)
(***************************************************************************)
EXTENDS GradeMonitorHistory, FiniteSetTheorems, TLAPS

\* Ageing keeps an entry of _pending_grades within its type.
LEMMA AgedType ==
    ASSUME NEW entry \in [cell : Cells \cup {Blank}, age : 0..Ttl]
    PROVE  Aged(entry) \in [cell : Cells \cup {Blank}, age : 0..Ttl]
<1>1. CASE entry.cell = Blank \/ entry.age + 1 > Ttl
  BY <1>1, BoundsAssumption DEF Aged, NoPending
<1>2. CASE ~(entry.cell = Blank \/ entry.age + 1 > Ttl)
  BY <1>2, BoundsAssumption DEF Aged
<1> QED BY <1>1, <1>2

\* Every step keeps every variable within its type.
LEMMA TypeStep == TypeOK /\ [Next]_vars => TypeOK'
<1> SUFFICES ASSUME TypeOK, [Next]_vars PROVE TypeOK'
  OBVIOUS
<1> USE BoundsAssumption DEF world, table, cycle, Keys, KeysOf
<1>1. ASSUME NEW k \in Keys, TeacherEdits(k) PROVE TypeOK'
  BY <1>1 DEF TypeOK, TeacherEdits
<1>2. ASSUME NEW s \in Students, NEW p \in Parents, ParentJoins(s, p) PROVE TypeOK'
  BY <1>2 DEF TypeOK, ParentJoins
<1>3. ASSUME NEW s \in Students, NEW p \in Parents, ParentLeaves(s, p) PROVE TypeOK'
  BY <1>3 DEF TypeOK, ParentLeaves
<1>4. ASSUME NEW s \in Students, SubscriptionChanges(s) PROVE TypeOK'
  BY <1>4 DEF TypeOK, SubscriptionChanges
<1>5. ASSUME StartCycle PROVE TypeOK'
  BY <1>5, AgedType DEF TypeOK, StartCycle, SweepBatch, Outbox
<1>6. ASSUME NEW s \in Students, SweepStudent(s) PROVE TypeOK'
  <2> DEFINE rows == swept \cap KeysOf(s)
  <2>1. rows \in SUBSET Keys /\ swept \ KeysOf(s) \in SUBSET Keys /\ linked[s] \in SUBSET Parents
    BY DEF TypeOK
  <2>2. swept' \in SUBSET Keys
    BY <1>6, <2>1 DEF SweepStudent
  <2>3. CASE /\ written' = rows /\ waiting' = linked[s] /\ delivered' = TRUE
             /\ recipients' = [p \in Parents |-> IF p \in linked[s] THEN rows ELSE {}]
             /\ pc' = "sweepSend" /\ UNCHANGED faults
    <3>1. recipients' \in [Parents -> SUBSET Keys]
      BY <2>1, <2>3
    <3> QED
      BY <1>6, <2>1, <2>2, <2>3, <3>1 DEF TypeOK, SweepStudent
  <2>4. CASE faults' = faults + 1 /\ UNCHANGED <<pc, written, waiting, recipients, delivered>>
    BY <1>6, <2>2, <2>4 DEF TypeOK, SweepStudent
  <2> QED
    BY <1>6, <2>3, <2>4 DEF SweepStudent
<1>7. ASSUME SweepEnds PROVE TypeOK'
  BY <1>7 DEF TypeOK, SweepEnds
<1>8. ASSUME NEW p \in Parents, SendSucceeds(p) PROVE TypeOK'
  BY <1>8 DEF TypeOK, SendSucceeds
<1>9. ASSUME NEW p \in Parents, SendFails(p) PROVE TypeOK'
  <2>1. faults' \in Nat
    BY <1>9 DEF TypeOK, SendFails
  <2> QED
    BY <1>9, <2>1 DEF TypeOK, SendFails
<1>10. ASSUME DispatchEnds PROVE TypeOK'
  BY <1>10 DEF TypeOK, DispatchEnds, AfterBatch, NoBatch
<1>11. ASSUME NEW k \in Keys, MarkNotified(k) PROVE TypeOK'
  <2>1. notified' \in [Keys -> BOOLEAN]
    <3> DEFINE marked == [notified EXCEPT ![k] = (text[k] # Blank)]
    <3>1. marked \in [Keys -> BOOLEAN]
      <4>1. (text[k] # Blank) \in BOOLEAN
        OBVIOUS
      <4> QED
        BY <4>1, Zenon DEF TypeOK
    <3>2. notified' = marked \/ notified' = notified
      BY <1>11 DEF MarkNotified
    <3> QED
      BY <3>1, <3>2 DEF TypeOK
  <2>2. pc' \in {pc, "sweep", "pick"} /\ faults' \in Nat
    BY <1>11 DEF TypeOK, MarkNotified, AfterBatch
  <2> QED
    BY <1>11, <2>1, <2>2 DEF TypeOK, MarkNotified
<1>12. ASSUME Fetch PROVE TypeOK'
  BY <1>12 DEF TypeOK, Fetch
<1>13. ASSUME NEW s \in Students, PickStudent(s) PROVE TypeOK'
  BY <1>13 DEF TypeOK, PickStudent
<1>14. ASSUME EndCycle PROVE TypeOK'
  BY <1>14 DEF TypeOK, EndCycle, BlankColumn
<1>15. ASSUME NEW k \in Keys, CellUnchanged(k) PROVE TypeOK'
  BY <1>15 DEF TypeOK, CellUnchanged, Comparing
<1>16. ASSUME NEW k \in Keys, CellTrimmed(k) PROVE TypeOK'
  BY <1>16 DEF TypeOK, CellTrimmed, Comparing, Changed
<1>17. ASSUME NEW k \in Keys, CellPending(k) PROVE TypeOK'
  BY <1>17 DEF TypeOK, CellPending, Comparing, Changed
<1>18. ASSUME NEW k \in Keys, CellConfirmed(k) PROVE TypeOK'
  BY <1>18 DEF TypeOK, CellConfirmed, Comparing, Changed, NoPending
<1>19. ASSUME FinishStudent PROVE TypeOK'
  <2>1. pc' \in {"pick", "send"} /\ waiting' \in SUBSET Parents /\ cur' = NoStudent
    BY <1>19 DEF FinishStudent
  <2>2. CASE UNCHANGED <<table, owed>> /\ faults' = faults + 1
    BY <1>19, <2>1, <2>2 DEF TypeOK, FinishStudent
  <2>3. CASE /\ text' = [k \in Keys |-> IF k \in Gone THEN Blank ELSE text[k]]
             /\ notified' = [k \in Keys |-> IF k \in Gone THEN FALSE ELSE notified[k]]
             /\ owed' = [k \in Keys |-> IF k \in Gone THEN {} ELSE owed[k]]
             /\ UNCHANGED faults
    <3>1. text' \in [Keys -> Cells \cup {Blank}]
      BY <2>3 DEF TypeOK
    <3>2. notified' \in [Keys -> BOOLEAN]
      BY <2>3, Zenon DEF TypeOK
    <3>3. owed' \in [Keys -> SUBSET Parents]
      BY <2>3 DEF TypeOK
    <3> QED
      BY <1>19, <2>1, <2>3, <3>1, <3>2, <3>3 DEF TypeOK, FinishStudent
  <2> QED
    BY <1>19, <2>2, <2>3 DEF FinishStudent
<1>20. ASSUME CycleAborts PROVE TypeOK'
  BY <1>20 DEF TypeOK, CycleAborts, ForgetCycle, NoBatch, BlankColumn
<1>21. ASSUME NEW k \in Keys, WriteFails(k) PROVE TypeOK'
  BY <1>21 DEF TypeOK, WriteFails, ForgetCycle, NoBatch, BlankColumn, NoPending
<1>22. ASSUME SweepDispatchAborts PROVE TypeOK'
  BY <1>22 DEF TypeOK, SweepDispatchAborts, NoBatch
<1>23. ASSUME Crash PROVE TypeOK'
  BY <1>23 DEF TypeOK, Crash, ForgetCycle, NoBatch, BlankColumn, NoPending
<1>24. ASSUME UNCHANGED vars PROVE TypeOK'
  BY <1>24 DEF TypeOK, vars
<1> QED
  BY <1>1, <1>2, <1>3, <1>4, <1>5, <1>6, <1>7, <1>8, <1>9, <1>10, <1>11, <1>12, <1>13,
     <1>14, <1>15, <1>16, <1>17, <1>18, <1>19, <1>20, <1>21, <1>22, <1>23, <1>24
     DEF Next, World, Monitor

LEMMA TypeInit == Init => TypeOK
BY BoundsAssumption DEF Init, TypeOK, BlankColumn, NoPending, NoBatch, Keys

\* The type invariant: in every reachable state the table, the memory of the
\* polling thread and the bookkeeping have the shapes the code gives them.
THEOREM TypeCorrect == Spec => []TypeOK
BY TypeInit, TypeStep, PTL DEF Spec
-----------------------------------------------------------------------------
(* The inductive invariant behind SettledMeansTold: at every point of the  *)
(* cycle, who is owed a row of the batch is still going to be sent it.     *)

\* Only members of the family are owed anything.
OwedToFamily == \A k \in Keys : owed[k] \subseteq linked[k[1]]

\* Blank cells are not compared.
TodoFilled == pc = "process" => \A k \in todo : column[k] # Blank

\* While a diary is compared, the batch grows with the debts.
CollectedOwed ==
    pc = "process" => \A k \in written : \A p \in owed[k] : k \in recipients[p]

\* While a batch is sent and nothing failed, whoever is still owed one of its
\* rows has not been sent to yet.
BatchOwed ==
    pc \in {"sweepSend", "send"} /\ delivered =>
        \A k \in written : \A p \in owed[k] : p \in waiting /\ k \in recipients[p]

\* Rows being marked are owed to nobody.
MarkOwed == pc \in {"sweepMark", "mark"} => \A k \in written : owed[k] = {}

\* No batch is left over between two of them.
NothingWritten == pc \in {"idle", "sweep", "fetch", "pick"} => written = {}

DeliveryInv ==
    /\ TypeOK /\ OwedToFamily /\ TodoFilled /\ CollectedOwed /\ BatchOwed
    /\ MarkOwed /\ NothingWritten /\ SettledMeansTold

\* A step that leaves the table, the batch and the family alone keeps the
\* debts as they are.
LEMMA QuietStep ==
    ASSUME DeliveryInv, TypeOK',
           UNCHANGED <<linked, text, notified, todo, written, recipients, waiting,
                       delivered, owed>>,
           \/ UNCHANGED <<pc, column>>
           \/ pc' \in {"idle", "sweep", "fetch", "pick"} /\ written = {}
    PROVE  DeliveryInv'
BY DEF DeliveryInv, OwedToFamily, TodoFilled, CollectedOwed, BatchOwed, MarkOwed,
       NothingWritten, SettledMeansTold

\* A step that drops the batch keeps the debts as they are.
LEMMA DropStep ==
    ASSUME DeliveryInv, TypeOK', UNCHANGED <<linked, text, notified, owed>>,
           pc' \in {"idle", "sweep", "fetch", "pick"}, written' = {}
    PROVE  DeliveryInv'
BY DEF DeliveryInv, OwedToFamily, TodoFilled, CollectedOwed, BatchOwed, MarkOwed,
       NothingWritten, SettledMeansTold

\* Every step keeps the invariant.
LEMMA DeliveryStep == DeliveryInv /\ [Next]_vars => DeliveryInv'
<1> SUFFICES ASSUME DeliveryInv, [Next]_vars PROVE DeliveryInv'
  OBVIOUS
<1>0. TypeOK /\ TypeOK'
  BY TypeStep DEF DeliveryInv
<1> USE DEF world, table, cycle
<1>1. ASSUME NEW k \in Keys, TeacherEdits(k) PROVE DeliveryInv'
  BY <1>0, <1>1, QuietStep DEF TeacherEdits
<1>2. ASSUME NEW s \in Students, NEW p \in Parents, ParentJoins(s, p) PROVE DeliveryInv'
  <2>1. \A k \in Keys : linked[k[1]] \subseteq linked'[k[1]]
    BY <1>0, <1>2 DEF TypeOK, ParentJoins, Keys
  <2> QED
    BY <1>0, <1>2, <2>1 DEF ParentJoins, DeliveryInv, OwedToFamily, TodoFilled,
       CollectedOwed, BatchOwed, MarkOwed, NothingWritten, SettledMeansTold
<1>3. ASSUME NEW s \in Students, NEW p \in Parents, ParentLeaves(s, p) PROVE DeliveryInv'
  <2>1. \A k \in Keys : owed'[k] \subseteq owed[k] /\ owed'[k] \subseteq linked'[k[1]]
    BY <1>0, <1>3 DEF TypeOK, ParentLeaves, Keys, KeysOf, DeliveryInv, OwedToFamily
  <2>2. written \subseteq Keys
    BY <1>0 DEF TypeOK
  <2> QED
    BY <1>0, <1>3, <2>1, <2>2 DEF ParentLeaves, DeliveryInv, OwedToFamily, TodoFilled,
       CollectedOwed, BatchOwed, MarkOwed, NothingWritten, SettledMeansTold
<1>4. ASSUME NEW s \in Students, SubscriptionChanges(s) PROVE DeliveryInv'
  BY <1>0, <1>4, QuietStep DEF SubscriptionChanges
<1>5. ASSUME StartCycle PROVE DeliveryInv'
  BY <1>0, <1>5, QuietStep DEF StartCycle, DeliveryInv, NothingWritten
<1>6. ASSUME NEW s \in Students, SweepStudent(s) PROVE DeliveryInv'
  <2> DEFINE rows == swept \cap KeysOf(s)
  <2>1. CASE /\ written' = rows /\ waiting' = linked[s] /\ delivered' = TRUE
             /\ recipients' = [p \in Parents |-> IF p \in linked[s] THEN rows ELSE {}]
             /\ pc' = "sweepSend"
    <3>1. \A k \in written' : \A p \in owed[k] : p \in waiting' /\ k \in recipients'[p]
      BY <1>0, <2>1 DEF TypeOK, KeysOf, DeliveryInv, OwedToFamily, Keys
    <3> QED
      BY <1>0, <1>6, <2>1, <3>1 DEF SweepStudent, DeliveryInv, OwedToFamily, TodoFilled,
         CollectedOwed, BatchOwed, MarkOwed, NothingWritten, SettledMeansTold
  <2>2. CASE UNCHANGED <<pc, written, waiting, recipients, delivered>>
    BY <1>0, <1>6, <2>2, QuietStep DEF SweepStudent
  <2> QED
    BY <1>6, <2>1, <2>2 DEF SweepStudent
<1>7. ASSUME SweepEnds PROVE DeliveryInv'
  BY <1>0, <1>7, QuietStep DEF SweepEnds, DeliveryInv, NothingWritten
<1>8. ASSUME NEW p \in Parents, SendSucceeds(p) PROVE DeliveryInv'
  <2>1. \A k \in Keys : owed'[k] = IF k \in recipients[p] THEN owed[k] \ {p} ELSE owed[k]
    BY <1>8 DEF SendSucceeds
  <2>2. written \subseteq Keys
    BY <1>0 DEF TypeOK
  <2>3. BatchOwed'
    BY <1>8, <2>1, <2>2 DEF SendSucceeds, DeliveryInv, BatchOwed
  <2>4. OwedToFamily' /\ SettledMeansTold'
    BY <1>8, <2>1 DEF SendSucceeds, DeliveryInv, OwedToFamily, SettledMeansTold
  <2> QED
    BY <1>0, <1>8, <2>3, <2>4
    DEF SendSucceeds, DeliveryInv, TodoFilled, CollectedOwed, MarkOwed, NothingWritten
<1>9. ASSUME NEW p \in Parents, SendFails(p) PROVE DeliveryInv'
  BY <1>0, <1>9 DEF SendFails, DeliveryInv, OwedToFamily, TodoFilled, CollectedOwed,
     BatchOwed, MarkOwed, NothingWritten, SettledMeansTold
<1>10. ASSUME DispatchEnds PROVE DeliveryInv'
  <2>1. CASE delivered
    <3>1. pc' \in {"sweepMark", "mark"} /\ UNCHANGED <<written, delivered>>
      BY <1>10, <2>1 DEF DispatchEnds
    <3>2. \A k \in written : owed[k] = {}
      <4>1. \A k \in written : \A p \in owed[k] : p \in waiting
        BY <1>10, <2>1 DEF DispatchEnds, DeliveryInv, BatchOwed
      <4> QED
        BY <1>10, <4>1 DEF DispatchEnds
    <3> QED
      BY <1>0, <1>10, <3>1, <3>2 DEF DispatchEnds, DeliveryInv, OwedToFamily, TodoFilled,
         CollectedOwed, BatchOwed, MarkOwed, NothingWritten, SettledMeansTold
  <2>2. CASE ~delivered
    BY <1>0, <1>10, <2>2, DropStep DEF DispatchEnds, AfterBatch
  <2> QED
    BY <2>1, <2>2
<1>11. ASSUME NEW k \in Keys, MarkNotified(k) PROVE DeliveryInv'
  <2>1. owed[k] = {} /\ written' = written \ {k}
    BY <1>11 DEF MarkNotified, DeliveryInv, MarkOwed
  <2>2. \A j \in Keys \ {k} : notified'[j] = notified[j]
    BY <1>0, <1>11 DEF TypeOK, MarkNotified
  <2>3. SettledMeansTold'
    BY <1>11, <2>1, <2>2 DEF MarkNotified, DeliveryInv, SettledMeansTold
  <2>4. \/ written' = {} /\ pc' \in {"sweep", "pick"}
        \/ UNCHANGED pc
    BY <1>11 DEF MarkNotified, AfterBatch
  <2> QED
    BY <1>0, <1>11, <2>1, <2>3, <2>4 DEF MarkNotified, DeliveryInv, OwedToFamily,
       TodoFilled, CollectedOwed, BatchOwed, MarkOwed, NothingWritten
<1>12. ASSUME Fetch PROVE DeliveryInv'
  BY <1>0, <1>12, QuietStep DEF Fetch, DeliveryInv, NothingWritten
<1>13. ASSUME NEW s \in Students, PickStudent(s) PROVE DeliveryInv'
  <2>1. written = {} /\ written' = {}
    BY <1>13 DEF PickStudent, DeliveryInv, NothingWritten
  <2>2. CASE UNCHANGED <<pc, cur, todo>>
    BY <1>0, <1>13, <2>1, <2>2, DropStep DEF PickStudent
  <2>3. CASE pc' = "process" /\ todo' = {k \in KeysOf(s) : column[k] # Blank}
    BY <1>0, <1>13, <2>1, <2>3 DEF PickStudent, DeliveryInv, OwedToFamily, TodoFilled,
       CollectedOwed, BatchOwed, MarkOwed, NothingWritten, SettledMeansTold
  <2> QED
    BY <1>13, <2>2, <2>3 DEF PickStudent
<1>14. ASSUME EndCycle PROVE DeliveryInv'
  BY <1>0, <1>14, QuietStep DEF EndCycle, DeliveryInv, NothingWritten
<1>15. ASSUME NEW k \in Keys, CellUnchanged(k) PROVE DeliveryInv'
  BY <1>0, <1>15 DEF CellUnchanged, Comparing, DeliveryInv, OwedToFamily, TodoFilled,
     CollectedOwed, BatchOwed, MarkOwed, NothingWritten, SettledMeansTold
<1>16. ASSUME NEW k \in Keys, CellTrimmed(k) PROVE DeliveryInv'
  <2>1. text[k] # Blank /\ \A j \in Keys \ {k} : text'[j] = text[j]
    BY <1>0, <1>16 DEF TypeOK, CellTrimmed
  <2>2. SettledMeansTold'
    BY <1>16, <2>1 DEF CellTrimmed, DeliveryInv, SettledMeansTold
  <2> QED
    BY <1>0, <1>16, <2>2 DEF CellTrimmed, Comparing, DeliveryInv, OwedToFamily, TodoFilled,
     CollectedOwed, BatchOwed, MarkOwed, NothingWritten
<1>17. ASSUME NEW k \in Keys, CellPending(k) PROVE DeliveryInv'
  BY <1>0, <1>17 DEF CellPending, Comparing, DeliveryInv, OwedToFamily, TodoFilled,
     CollectedOwed, BatchOwed, MarkOwed, NothingWritten, SettledMeansTold
<1>18. ASSUME NEW k \in Keys, CellConfirmed(k) PROVE DeliveryInv'
  <2>1. /\ owed' = [owed EXCEPT ![k] = linked[k[1]]]
        /\ notified' = [notified EXCEPT ![k] = FALSE]
        /\ text' = [text EXCEPT ![k] = column[k]]
        /\ written' = written \cup {k}
        /\ recipients' = [p \in Parents |-> IF p \in linked[k[1]]
                                        THEN recipients[p] \cup {k} ELSE recipients[p]]
        /\ pc = "process" /\ todo' \subseteq todo
        /\ UNCHANGED <<linked, pc, column, waiting, delivered>>
    BY <1>18 DEF CellConfirmed, Comparing
  <2>2. linked[k[1]] \subseteq Parents /\ written \subseteq Keys
        /\ \A j \in Keys : owed[j] \subseteq Parents
    BY <1>0 DEF TypeOK, Keys
  <2>3. CollectedOwed'
    BY <1>0, <2>1, <2>2 DEF TypeOK, DeliveryInv, CollectedOwed
  <2>4. OwedToFamily' /\ SettledMeansTold'
    BY <1>0, <2>1 DEF TypeOK, DeliveryInv, OwedToFamily, SettledMeansTold
  <2> QED
    BY <1>0, <2>1, <2>3, <2>4
    DEF DeliveryInv, TodoFilled, BatchOwed, MarkOwed, NothingWritten
<1>19. ASSUME FinishStudent PROVE DeliveryInv'
  <2>1. \A k \in Keys : owed'[k] \subseteq owed[k]
    BY <1>19 DEF FinishStudent
  <2>2. written \subseteq Keys /\ \A k \in Keys : owed[k] \subseteq Parents
    BY <1>0 DEF TypeOK
  <2>3. BatchOwed'
    BY <1>19, <2>1, <2>2 DEF FinishStudent, DeliveryInv, CollectedOwed, BatchOwed
  <2>4. SettledMeansTold'
    BY <1>19 DEF FinishStudent, DeliveryInv, SettledMeansTold
  <2>5. OwedToFamily'
    BY <1>19, <2>1 DEF FinishStudent, DeliveryInv, OwedToFamily
  <2> QED
    BY <1>0, <1>19, <2>3, <2>4, <2>5
    DEF FinishStudent, DeliveryInv, TodoFilled, CollectedOwed, MarkOwed, NothingWritten
<1>20. ASSUME CycleAborts PROVE DeliveryInv'
  BY <1>0, <1>20, DropStep DEF CycleAborts, ForgetCycle
<1>21. ASSUME NEW k \in Keys, WriteFails(k) PROVE DeliveryInv'
  BY <1>0, <1>21, DropStep DEF WriteFails, ForgetCycle
<1>22. ASSUME SweepDispatchAborts PROVE DeliveryInv'
  BY <1>0, <1>22, DropStep DEF SweepDispatchAborts
<1>23. ASSUME Crash PROVE DeliveryInv'
  BY <1>0, <1>23, DropStep DEF Crash, ForgetCycle
<1>24. ASSUME UNCHANGED vars PROVE DeliveryInv'
  BY <1>0, <1>24, QuietStep DEF vars
<1> QED
  BY <1>1, <1>2, <1>3, <1>4, <1>5, <1>6, <1>7, <1>8, <1>9, <1>10, <1>11, <1>12, <1>13,
     <1>14, <1>15, <1>16, <1>17, <1>18, <1>19, <1>20, <1>21, <1>22, <1>23, <1>24
     DEF Next, World, Monitor

LEMMA DeliveryInit == Init => DeliveryInv
BY TypeInit DEF Init, DeliveryInv, OwedToFamily, TodoFilled, CollectedOwed, BatchOwed,
   MarkOwed, NothingWritten, SettledMeansTold

LEMMA DeliveryInvariant == Spec => []DeliveryInv
BY DeliveryInit, DeliveryStep, PTL DEF Spec

\* Outbox safety: a row of grade_history carries notified_at only when every
\* parent who was in the family when it was written was sent it or left.
THEOREM SettledSafely == Spec => []SettledMeansTold
<1>1. DeliveryInv => SettledMeansTold
  BY DEF DeliveryInv
<1> QED
  BY <1>1, DeliveryInvariant, PTL
-----------------------------------------------------------------------------
(* The refinement: every step maps to a step of GradePromise or a stutter. *)

\* A step that touches neither the table nor the debts is a stutter.
LEMMA Stutters ==
    ASSUME UNCHANGED <<text, notified, owed>>
    PROVE  UNCHANGED Promise!vars
BY DEF Promise!vars, Phase

LEMMA PromiseInit == Init => Promise!Init
BY DEF Init, Promise!Init, Phase, BlankColumn

LEMMA PromiseStep == DeliveryInv /\ [Next]_vars => [Promise!Next]_(Promise!vars)
<1> SUFFICES ASSUME DeliveryInv, [Next]_vars PROVE [Promise!Next]_(Promise!vars)
  OBVIOUS
<1> USE DEF world, table, cycle
<1>0. TypeOK /\ TypeOK'
  BY TypeStep DEF DeliveryInv
<1>1. CASE \/ UNCHANGED vars
           \/ \E k \in Keys : TeacherEdits(k)
           \/ \E s \in Students, p \in Parents : ParentJoins(s, p)
           \/ \E s \in Students : SubscriptionChanges(s)
  BY <1>1, Stutters DEF vars, TeacherEdits, ParentJoins, SubscriptionChanges
<1>2. CASE \/ StartCycle \/ SweepEnds \/ DispatchEnds \/ Fetch \/ EndCycle
           \/ \E p \in Parents : SendFails(p)
           \/ \E s \in Students : SweepStudent(s) \/ PickStudent(s)
           \/ \E k \in Keys : CellUnchanged(k) \/ CellPending(k)
  BY <1>2, Stutters DEF StartCycle, SweepEnds, DispatchEnds, Fetch, EndCycle, SendFails,
     SweepStudent, PickStudent, CellUnchanged, CellPending
<1>3. CASE \/ CycleAborts \/ SweepDispatchAborts \/ Crash
           \/ \E k \in Keys : WriteFails(k)
  BY <1>3, Stutters DEF CycleAborts, SweepDispatchAborts, Crash, WriteFails
<1>4. ASSUME NEW s \in Students, NEW p \in Parents, ParentLeaves(s, p)
      PROVE  Promise!Discharge(p, KeysOf(s))
  BY <1>4 DEF ParentLeaves, Promise!Discharge, Phase
<1>5. ASSUME NEW p \in Parents, SendSucceeds(p)
      PROVE  Promise!Discharge(p, recipients[p])
  BY <1>5 DEF SendSucceeds, Promise!Discharge, Phase
<1>6. ASSUME NEW k \in Keys, MarkNotified(k)
      PROVE  Promise!Settle(k) \/ UNCHANGED Promise!vars
  <2>1. owed[k] = {} /\ UNCHANGED <<text, owed>>
    BY <1>6 DEF MarkNotified, DeliveryInv, MarkOwed
  <2>2. CASE UNCHANGED notified
    BY <2>1, <2>2, Stutters
  <2>3. CASE notified' = [notified EXCEPT ![k] = (text[k] # Blank)]
    <3>1. CASE text[k] # Blank /\ ~notified[k]
      <4>1. \A j \in Keys : notified'[j] = IF j = k THEN TRUE ELSE notified[j]
        BY <1>0, <2>3, <3>1 DEF TypeOK
      <4>2. [j \in Keys |-> Phase(j)]' = [[j \in Keys |-> Phase(j)] EXCEPT ![k] = "settled"]
        BY <2>1, <3>1, <4>1 DEF Phase
      <4> QED
        BY <2>1, <3>1, <4>2 DEF Promise!Settle, Phase
    <3>2. CASE text[k] # Blank /\ notified[k]
      <4>1. \A j \in Keys : notified'[j] = notified[j]
        BY <1>0, <2>3, <3>2 DEF TypeOK
      <4> QED
        BY <2>1, <4>1 DEF Promise!vars, Phase
    <3>3. CASE text[k] = Blank
      <4>1. \A j \in Keys \ {k} : notified'[j] = notified[j]
        BY <1>0, <2>3 DEF TypeOK
      <4> QED
        BY <2>1, <3>3, <4>1 DEF Promise!vars, Phase
    <3> QED
      BY <3>1, <3>2, <3>3
  <2> QED
    BY <1>6, <2>2, <2>3 DEF MarkNotified
<1>7. ASSUME NEW k \in Keys, CellTrimmed(k) PROVE UNCHANGED Promise!vars
  <2>1. text[k] # Blank /\ column[k] # Blank
    BY <1>7 DEF CellTrimmed, Comparing, DeliveryInv, TodoFilled
  <2>2. \A j \in Keys : text'[j] = IF j = k THEN column[k] ELSE text[j]
    BY <1>0, <1>7 DEF CellTrimmed, TypeOK
  <2> QED
    BY <1>7, <2>1, <2>2 DEF CellTrimmed, Promise!vars, Phase
<1>8. ASSUME NEW k \in Keys, CellConfirmed(k) PROVE Promise!Record(k, linked[k[1]])
  <2>1. column[k] # Blank
    BY <1>8 DEF CellConfirmed, Comparing, DeliveryInv, TodoFilled
  <2>2. \A j \in Keys : /\ text'[j] = IF j = k THEN column[k] ELSE text[j]
                        /\ notified'[j] = IF j = k THEN FALSE ELSE notified[j]
    BY <1>0, <1>8 DEF CellConfirmed, TypeOK
  <2>3. [j \in Keys |-> Phase(j)]' = [[j \in Keys |-> Phase(j)] EXCEPT ![k] = "open"]
    BY <2>1, <2>2 DEF Phase
  <2> QED
    BY <1>8, <2>3 DEF CellConfirmed, Promise!Record
<1>9. ASSUME FinishStudent PROVE Promise!Withdraw(Gone) \/ UNCHANGED Promise!vars
  <2>1. CASE UNCHANGED <<table, owed>>
    BY <2>1, Stutters
  <2>2. CASE /\ text' = [k \in Keys |-> IF k \in Gone THEN Blank ELSE text[k]]
             /\ notified' = [k \in Keys |-> IF k \in Gone THEN FALSE ELSE notified[k]]
             /\ owed' = [k \in Keys |-> IF k \in Gone THEN {} ELSE owed[k]]
    BY <2>2 DEF Promise!Withdraw, Phase
  <2> QED
    BY <1>9, <2>1, <2>2 DEF FinishStudent
<1>10. \A s \in Students : KeysOf(s) \in SUBSET Keys
  BY DEF KeysOf
<1>11. /\ \A p \in Parents : recipients[p] \in SUBSET Keys
       /\ \A k \in Keys : linked[k[1]] \in SUBSET Parents
       /\ Gone \in SUBSET Keys
  BY <1>0 DEF TypeOK, Keys, KeysOf, Gone
<1> QED
  BY <1>1, <1>2, <1>3, <1>4, <1>5, <1>6, <1>7, <1>8, <1>9, <1>10, <1>11
     DEF Next, World, Monitor, Promise!Next

\* The polling thread implements the promise of the outbox: a debt arises only
\* from writing a grade, is discharged towards one parent at a time, and a row
\* is settled only when nobody is owed it.
THEOREM Implements == Spec => KeepsPromise
BY PromiseInit, PromiseStep, DeliveryInvariant, PTL DEF Spec, Promise!Spec, KeepsPromise
-----------------------------------------------------------------------------
(* The history variables and what they are for. *)

\* A step of GradeMonitorHistory is a step of the monitor.
LEMMA HistoryStep == [HNext]_hvars => [Next]_vars
  BY DEF HNext, hvars, Next, Monitor

\* The history never guards a step: whatever holds of the monitor holds of the
\* monitor with its history.
THEOREM HistoryObserves == HSpec => Spec
<1>1. HInit => Init
  BY DEF HInit
<1> QED
  BY <1>1, HistoryStep, PTL DEF HSpec, Spec

\* The thread is sending or marking a batch, or works on a column it fetched.
Batching == pc \in {"sweepSend", "sweepMark", "send", "mark"}
Fetched == pc \in {"pick", "process", "send", "mark"}

\* What is swept or in the batch is in the outbox, each row in one of the two.
BatchInOutbox ==
    /\ swept \cup written \subseteq Outbox
    /\ swept \cap (written \cup todo) = {}
    /\ pc \notin {"sweep", "sweepSend", "sweepMark"} => swept = {}
    /\ \A p \in Parents : recipients[p] \subseteq written
    /\ pc \notin {"sweepSend", "send"} => waiting = {}
    /\ pc \in {"sweepMark", "mark"} => \A p \in Parents : recipients[p] = {}

\* A cell is compared once, before or after it enters the batch.
ComparedOnce ==
    /\ pc = "process" => /\ written \cap todo = {} /\ cur \notin polled
                         /\ \A k \in written : column[k] # Blank
    /\ pc # "process" => todo = {}
    /\ todo \subseteq KeysOf(cur)

BatchInv == BatchInOutbox /\ ComparedOnce

LEMMA BatchInit == Init => BatchInv
  BY DEF Init, BatchInv, BatchInOutbox, ComparedOnce, Outbox, NoBatch, BlankColumn, KeysOf

\* A step that leaves the table and the batch alone keeps them in order.
LEMMA BatchStays ==
    ASSUME BatchInv,
           UNCHANGED <<text, notified, pc, swept, polled, column, cur, todo, written,
                       recipients, waiting>>
    PROVE  BatchInv'
  BY DEF BatchInv, BatchInOutbox, ComparedOnce, Outbox, KeysOf

\* Every step keeps the rows of the batch in the outbox and apart from the rest.
LEMMA BatchStep == DeliveryInv /\ BatchInv /\ [Next]_vars => BatchInv'
<1> SUFFICES ASSUME DeliveryInv, BatchInv, [Next]_vars PROVE BatchInv'
  OBVIOUS
<1>0. TypeOK
  BY DEF DeliveryInv
<1>a. /\ pc \in {"idle", "sweep", "fetch", "pick"} => written = {}
      /\ \A k \in Keys : pc = "process" /\ k \in todo => column[k] # Blank
      /\ written \subseteq Keys /\ swept \subseteq Keys /\ todo \subseteq Keys
  BY <1>0 DEF DeliveryInv, NothingWritten, TodoFilled, TypeOK
<1> USE DEF world, table, cycle
<1>1. ASSUME World PROVE BatchInv'
  BY <1>1, BatchStays DEF World, TeacherEdits, ParentJoins, ParentLeaves, SubscriptionChanges
<1>5. ASSUME StartCycle PROVE BatchInv'
  <2>1. swept' \subseteq Outbox
    BY <1>5 DEF StartCycle, SweepBatch, BatchInv, BatchInOutbox
  <2>2. /\ Outbox' = Outbox /\ written = {} /\ todo = {}
        /\ UNCHANGED <<written, recipients, waiting, todo, cur>>
    BY <1>5, <1>a DEF StartCycle, Outbox, BatchInv, ComparedOnce
  <2>3. pc' = "sweep" \/ (pc' = "idle" /\ swept' = swept)
    BY <1>5 DEF StartCycle
  <2>4. pc = "idle"
    BY <1>5 DEF StartCycle
  <2> QED
    BY <2>1, <2>2, <2>3, <2>4 DEF BatchInv, BatchInOutbox, ComparedOnce, KeysOf
<1>6. ASSUME NEW s \in Students, SweepStudent(s) PROVE BatchInv'
  <2> DEFINE rows == swept \cap KeysOf(s)
  <2>1. /\ pc = "sweep" /\ written = {} /\ todo = {} /\ todo' = todo /\ cur' = cur
        /\ Outbox' = Outbox /\ swept' = swept \ KeysOf(s) /\ swept \subseteq Outbox
    BY <1>6, <1>a DEF SweepStudent, Outbox, BatchInv, BatchInOutbox, ComparedOnce
  <2>2. CASE /\ written' = rows /\ pc' = "sweepSend"
             /\ recipients' = [p \in Parents |-> IF p \in linked[s] THEN rows ELSE {}]
    <3>1. \A p \in Parents : recipients'[p] \subseteq written'
      BY <2>2
    <3> QED
      BY <2>1, <2>2, <3>1 DEF BatchInv, BatchInOutbox, ComparedOnce, KeysOf
  <2>3. CASE UNCHANGED <<pc, written, waiting, recipients>>
    BY <2>1, <2>3 DEF BatchInv, BatchInOutbox, ComparedOnce, KeysOf
  <2> QED
    BY <1>6, <2>2, <2>3 DEF SweepStudent
<1>7. ASSUME SweepEnds PROVE BatchInv'
  BY <1>7 DEF SweepEnds, BatchInv, BatchInOutbox, ComparedOnce, Outbox, KeysOf
<1>8. ASSUME NEW p \in Parents, SendSucceeds(p) \/ SendFails(p) PROVE BatchInv'
  BY <1>8 DEF SendSucceeds, SendFails, BatchInv, BatchInOutbox, ComparedOnce, Outbox, KeysOf
<1>10. ASSUME DispatchEnds PROVE BatchInv'
  <2>1. /\ pc \in {"sweepSend", "send"} /\ waiting = {} /\ waiting' = {} /\ todo = {} /\ todo' = {}
        /\ \A p \in Parents : recipients'[p] = {}
        /\ Outbox' = Outbox /\ swept' = swept /\ cur' = cur
    BY <1>10 DEF DispatchEnds, BatchInv, ComparedOnce, NoBatch, Outbox
  <2>2. CASE delivered
    <3>1. written' = written /\ pc' = (IF pc = "sweepSend" THEN "sweepMark" ELSE "mark")
      BY <1>10, <2>2 DEF DispatchEnds
    <3> QED
      BY <2>1, <3>1 DEF BatchInv, BatchInOutbox, ComparedOnce, KeysOf
  <2>3. CASE ~delivered
    <3>1. written' = {} /\ pc' = (IF pc = "sweepSend" THEN "sweep" ELSE "pick")
      BY <1>10, <2>1, <2>3 DEF DispatchEnds, AfterBatch
    <3> QED
      BY <2>1, <3>1 DEF BatchInv, BatchInOutbox, ComparedOnce, KeysOf
  <2> QED
    BY <2>2, <2>3
<1>11. ASSUME NEW k \in Keys, MarkNotified(k) PROVE BatchInv'
  <2>1. /\ pc \in {"sweepMark", "mark"} /\ k \in written /\ k \in Outbox /\ written' = written \ {k}
        /\ UNCHANGED <<swept, todo, cur, waiting, recipients, text>>
        /\ k \notin swept /\ todo = {} /\ waiting = {}
        /\ \A p \in Parents : recipients[p] = {}
    BY <1>11 DEF MarkNotified, BatchInv, BatchInOutbox, ComparedOnce
  <2>2. \A j \in Keys \ {k} : notified'[j] = notified[j]
    BY <1>0, <1>11 DEF MarkNotified, TypeOK
  <2>3. Outbox \ {k} \subseteq Outbox'
    BY <2>1, <2>2 DEF Outbox
  <2>4. /\ pc' # "process" /\ (pc' \in {"sweepSend", "send"} <=> pc \in {"sweepSend", "send"})
        /\ pc' \notin {"sweep", "sweepSend", "sweepMark"} =>
              pc \notin {"sweep", "sweepSend", "sweepMark"}
    BY <1>11, <2>1 DEF MarkNotified, AfterBatch
  <2>5. BatchInOutbox'
    BY <2>1, <2>3, <2>4 DEF BatchInv, BatchInOutbox
  <2>6. ComparedOnce'
    BY <2>1, <2>4 DEF BatchInv, ComparedOnce
  <2> QED
    BY <2>5, <2>6 DEF BatchInv
<1>12. ASSUME Fetch PROVE BatchInv'
  BY <1>12, <1>a DEF Fetch, BatchInv, BatchInOutbox, ComparedOnce, Outbox, KeysOf
<1>13. ASSUME NEW s \in Students, PickStudent(s) PROVE BatchInv'
  <2>1. /\ pc = "pick" /\ written = {} /\ swept = {} /\ waiting = {} /\ s \in polled
        /\ UNCHANGED <<swept, written, recipients, waiting, column>> /\ Outbox' = Outbox
        /\ polled' = polled \ {s}
    BY <1>13, <1>a DEF PickStudent, BatchInv, BatchInOutbox, Outbox
  <2>2. CASE UNCHANGED <<pc, cur, todo>>
    BY <2>1, <2>2 DEF BatchInv, BatchInOutbox, ComparedOnce, KeysOf
  <2>3. CASE pc' = "process" /\ cur' = s /\ todo' = {k \in KeysOf(s) : column[k] # Blank}
    BY <2>1, <2>3 DEF BatchInv, BatchInOutbox, ComparedOnce, KeysOf
  <2> QED
    BY <1>13, <2>2, <2>3 DEF PickStudent
<1>14. ASSUME EndCycle PROVE BatchInv'
  BY <1>14 DEF EndCycle, BatchInv, BatchInOutbox, ComparedOnce, Outbox, KeysOf
<1>15. ASSUME NEW k \in Keys, CellUnchanged(k) \/ CellPending(k) PROVE BatchInv'
  BY <1>15 DEF CellUnchanged, CellPending, Comparing, BatchInv, BatchInOutbox, ComparedOnce,
     Outbox, KeysOf
<1>16. ASSUME NEW k \in Keys, CellTrimmed(k) PROVE BatchInv'
  <2>1. /\ pc = "process" /\ pc' = pc /\ todo' = todo \ {k} /\ column[k] # Blank /\ text[k] # Blank
        /\ UNCHANGED <<swept, written, recipients, waiting, cur, polled, column, notified>>
    BY <1>16, <1>a DEF CellTrimmed, Comparing
  <2>2. \A j \in Keys : text'[j] = IF j = k THEN column[k] ELSE text[j]
    BY <1>0, <1>16 DEF CellTrimmed, TypeOK
  <2>3. Outbox' = Outbox
    BY <2>1, <2>2 DEF Outbox
  <2> QED
    BY <2>1, <2>3 DEF BatchInv, BatchInOutbox, ComparedOnce, KeysOf
<1>18. ASSUME NEW k \in Keys, CellConfirmed(k) PROVE BatchInv'
  <2>1. /\ pc = "process" /\ pc' = pc /\ k \in todo /\ todo' = todo \ {k} /\ column[k] # Blank
        /\ written' = written \cup {k}
        /\ \A p \in Parents : recipients'[p] \subseteq recipients[p] \cup {k}
        /\ UNCHANGED <<swept, waiting, cur, polled, column>>
    BY <1>18, <1>a DEF CellConfirmed, Comparing
  <2>2. \A j \in Keys : /\ text'[j] = IF j = k THEN column[k] ELSE text[j]
                        /\ notified'[j] = IF j = k THEN FALSE ELSE notified[j]
    BY <1>0, <1>18 DEF CellConfirmed, TypeOK
  <2>3. Outbox' = Outbox \cup {k}
    BY <2>1, <2>2 DEF Outbox
  <2>4. BatchInOutbox'
    BY <2>1, <2>3 DEF BatchInv, BatchInOutbox
  <2>5. ComparedOnce'
    BY <2>1 DEF BatchInv, ComparedOnce, KeysOf
  <2> QED
    BY <2>4, <2>5 DEF BatchInv
<1>19. ASSUME FinishStudent PROVE BatchInv'
  <2>1. /\ pc = "process" /\ todo = {} /\ todo' = {} /\ swept = {} /\ swept' = {}
        /\ written' = written /\ recipients' = recipients
        /\ pc' = (IF written = {} THEN "pick" ELSE "send")
        /\ waiting' = {p \in Parents : recipients[p] # {}}
    BY <1>19 DEF FinishStudent, BatchInv, BatchInOutbox
  <2>2. written \subseteq Outbox'
    <3>1. written \subseteq Outbox /\ \A k \in written : column[k] # Blank
      BY <2>1 DEF BatchInv, BatchInOutbox, ComparedOnce
    <3>2. \A k \in written : text'[k] = text[k] /\ notified'[k] = notified[k]
      BY <1>19, <1>a, <3>1 DEF FinishStudent, Gone
    <3> QED
      BY <3>1, <3>2 DEF Outbox
  <2>3. written = {} => waiting' = {}
    BY <2>1 DEF BatchInv, BatchInOutbox
  <2>4. BatchInOutbox'
    BY <2>1, <2>2, <2>3 DEF BatchInv, BatchInOutbox
  <2>5. ComparedOnce'
    BY <2>1 DEF ComparedOnce
  <2> QED
    BY <2>4, <2>5 DEF BatchInv
<1>20. ASSUME CycleAborts \/ Crash \/ \E k \in Keys : WriteFails(k) PROVE BatchInv'
  <2>1. /\ pc' = "idle" /\ swept' = {} /\ todo' = {} /\ written' = {} /\ waiting' = {}
        /\ \A p \in Parents : recipients'[p] = {}
    BY <1>20 DEF CycleAborts, Crash, WriteFails, ForgetCycle, NoBatch
  <2> QED
    BY <2>1 DEF BatchInv, BatchInOutbox, ComparedOnce
<1>22. ASSUME SweepDispatchAborts PROVE BatchInv'
  <2>1. /\ pc' = "sweep" /\ swept' = swept /\ todo = {} /\ todo' = {}
        /\ written' = {} /\ waiting' = {}
        /\ \A p \in Parents : recipients'[p] = {}
        /\ Outbox' = Outbox
    BY <1>22 DEF SweepDispatchAborts, NoBatch, Outbox, BatchInv, ComparedOnce
  <2> QED
    BY <2>1 DEF BatchInv, BatchInOutbox, ComparedOnce
<1>24. ASSUME UNCHANGED vars PROVE BatchInv'
  BY <1>24, BatchStays DEF vars
<1> QED
  BY <1>1, <1>5, <1>6, <1>7, <1>8, <1>10, <1>11, <1>12, <1>13, <1>14, <1>15, <1>16, <1>18,
     <1>19, <1>20, <1>22, <1>24 DEF Next, Monitor
-----------------------------------------------------------------------------
(* No spam: the copies a parent is sent of one grade. *)

CopyTypes ==
    /\ copies \in [Keys -> [Parents -> 0..MaxCopies]]
    /\ disturbed \subseteq Keys

\* A row of the outbox that nothing disturbed and somebody was sent is in the
\* batch at this moment, and who was sent it is not waiting for it any more; a
\* failed send has disturbed the whole batch.
SentOnce ==
    /\ \A k \in Outbox \ disturbed, p \in Parents :
          copies[k][p] > 0 => k \in written /\ p \notin waiting /\ Batching
    /\ ~delivered => pc \in {"sweepSend", "send"} /\ written \subseteq disturbed

CopyInv == CopyTypes /\ SentOnce /\ RepeatsNeedAFailure

LEMMA CopyInit == HInit => CopyInv
  BY DEF HInit, Init, CopyInv, CopyTypes, SentOnce, RepeatsNeedAFailure, Outbox, BlankColumn,
     MaxCopies, Batching

\* After a failure every row of the outbox is disturbed.
LEMMA FailureDisturbs ==
    ASSUME TypeOK, CopyInv, faults' = faults + 1, MarkDisturbed,
           UNCHANGED <<text, notified, copies>>,
           delivered' \/ UNCHANGED <<pc, written, delivered>>
    PROVE  CopyInv'
<1>1. disturbed' = disturbed \cup Outbox
  BY DEF MarkDisturbed, TypeOK
<1>2. Outbox' = Outbox /\ Outbox \subseteq Keys
  BY DEF Outbox
<1> QED
  BY <1>1, <1>2 DEF CopyInv, CopyTypes, SentOnce, RepeatsNeedAFailure

\* A step that sends nothing, keeps the batch and opens no row keeps the copies
\* in order.
LEMMA CopiesStay ==
    ASSUME CopyInv, MarkDisturbed, Outbox' \subseteq Outbox, waiting' \subseteq waiting,
           UNCHANGED <<copies, written, delivered>>,
           UNCHANGED pc \/ (Batching' /\ delivered)
    PROVE  CopyInv'
<1>1. disturbed \subseteq disturbed' /\ disturbed' \subseteq disturbed \cup Outbox
  BY DEF MarkDisturbed
<1>2. Outbox \subseteq Keys
  BY DEF Outbox
<1> QED
  BY <1>1, <1>2 DEF CopyInv, CopyTypes, SentOnce, RepeatsNeedAFailure, Batching

\* While nothing is being sent no row of the outbox has been sent undisturbed,
\* and a step that sends nothing and opens no row leaves it so.
LEMMA NothingSent ==
    ASSUME CopyInv, MarkDisturbed, ~Batching, delivered' = TRUE, Outbox' \subseteq Outbox,
           UNCHANGED copies
    PROVE  CopyInv'
<1>1. disturbed \subseteq disturbed' /\ disturbed' \subseteq disturbed \cup Outbox
  BY DEF MarkDisturbed
<1>2. Outbox \subseteq Keys
  BY DEF Outbox
<1> QED
  BY <1>1, <1>2 DEF CopyInv, CopyTypes, SentOnce, RepeatsNeedAFailure

\* Every step keeps the copies in order.
LEMMA CopyStep ==
    TypeOK /\ DeliveryInv /\ BatchInv /\ CopyInv /\ [HNext]_hvars => CopyInv'
<1> SUFFICES ASSUME TypeOK, DeliveryInv, BatchInv, CopyInv, [HNext]_hvars PROVE CopyInv'
  OBVIOUS
<1>a. /\ pc \in {"idle", "sweep", "fetch", "pick"} => written = {}
      /\ \A k \in Keys : pc = "process" /\ k \in todo => column[k] # Blank
      /\ delivered \in BOOLEAN /\ faults \in Nat /\ (~delivered => pc \in {"sweepSend", "send"})
  BY DEF DeliveryInv, NothingWritten, TodoFilled, TypeOK, CopyInv, SentOnce
<1> USE DEF world, table, cycle
<1>1. ASSUME World, MarkDisturbed, UNCHANGED copies PROVE CopyInv'
  <2>1. UNCHANGED <<table, cycle>>
    BY <1>1 DEF World, TeacherEdits, ParentJoins, ParentLeaves, SubscriptionChanges
  <2> QED
    BY <1>1, <2>1, CopiesStay DEF Outbox
<1>2. ASSUME StartCycle \/ SweepEnds \/ Fetch \/ EndCycle \/ FinishStudent
                \/ (\E s \in Students : SweepStudent(s) \/ PickStudent(s)),
             MarkDisturbed, UNCHANGED copies
      PROVE  CopyInv'
  <2>1. ~Batching /\ delivered = TRUE
    BY <1>2, <1>a DEF StartCycle, SweepEnds, Fetch, EndCycle, FinishStudent, SweepStudent,
       PickStudent, Batching
  <2>2. delivered' = TRUE /\ Outbox' \subseteq Outbox
    BY <1>2, <2>1 DEF StartCycle, SweepEnds, Fetch, EndCycle, FinishStudent, SweepStudent,
       PickStudent, Outbox
  <2> QED
    BY <1>2, <2>1, <2>2, NothingSent
<1>3. ASSUME NEW k \in Keys, CellUnchanged(k) \/ CellTrimmed(k) \/ CellPending(k),
             MarkDisturbed, UNCHANGED copies
      PROVE  CopyInv'
  <2>1. ~Batching /\ delivered = TRUE /\ delivered' = TRUE /\ column[k] # Blank
    BY <1>3, <1>a DEF CellUnchanged, CellTrimmed, CellPending, Comparing, Batching
  <2>2. Outbox' \subseteq Outbox
    <3>1. \A j \in Keys \ {k} : text'[j] = text[j]
      BY <1>3 DEF CellUnchanged, CellTrimmed, CellPending, TypeOK
    <3>2. text'[k] # Blank => text[k] # Blank
      BY <1>3, <2>1 DEF CellUnchanged, CellTrimmed, CellPending
    <3> QED
      BY <1>3, <3>1, <3>2 DEF CellUnchanged, CellTrimmed, CellPending, Outbox
  <2> QED
    BY <1>3, <2>1, <2>2, NothingSent
<1>4. ASSUME CycleAborts \/ SweepDispatchAborts \/ Crash \/ (\E k \in Keys : WriteFails(k)),
             MarkDisturbed, UNCHANGED copies
      PROVE  CopyInv'
  <2>1. faults' = faults + 1 /\ delivered' = TRUE /\ UNCHANGED <<text, notified>>
    BY <1>4 DEF CycleAborts, SweepDispatchAborts, Crash, WriteFails, ForgetCycle
  <2> QED
    BY <1>4, <2>1, FailureDisturbs
<1>5. ASSUME DispatchEnds, MarkDisturbed, UNCHANGED copies PROVE CopyInv'
  <2>1. CASE delivered
    <3>1. /\ UNCHANGED <<written, delivered, waiting>> /\ Batching' /\ Outbox' \subseteq Outbox
      BY <1>5, <2>1 DEF DispatchEnds, Batching, Outbox
    <3> QED
      BY <1>5, <2>1, <3>1, CopiesStay
  <2>2. CASE ~delivered
    <3>1. /\ written \subseteq disturbed /\ delivered' = TRUE /\ Outbox' = Outbox
          /\ disturbed' = disturbed
      BY <1>5, <2>2 DEF DispatchEnds, CopyInv, SentOnce, Outbox, MarkDisturbed, TypeOK
    <3> QED
      BY <1>5, <3>1 DEF CopyInv, CopyTypes, SentOnce, RepeatsNeedAFailure
  <2> QED
    BY <2>1, <2>2
<1>6. ASSUME NEW k \in Keys, MarkNotified(k), MarkDisturbed, UNCHANGED copies PROVE CopyInv'
  <2>1. /\ k \in written /\ written' = written \ {k} /\ k \in Outbox /\ delivered
        /\ UNCHANGED <<text, delivered, waiting>>
        /\ pc' = IF written' = {} THEN AfterBatch ELSE pc
    BY <1>6, <1>a DEF MarkNotified, BatchInv, BatchInOutbox
  <2>2. CASE notified' = [notified EXCEPT ![k] = (text[k] # Blank)] /\ UNCHANGED faults
    <3>1. Outbox' \subseteq Outbox \ {k}
      <4>1. notified'[k] /\ \A j \in Keys \ {k} : notified'[j] = notified[j]
        BY <2>1, <2>2 DEF TypeOK, Outbox
      <4> QED
        BY <2>1, <4>1 DEF Outbox
    <3>2. disturbed' = disturbed
      BY <1>6, <2>2, <1>a DEF MarkDisturbed
    <3>3. ASSUME NEW j \in Outbox' \ disturbed', NEW p \in Parents, copies'[j][p] > 0
          PROVE  j \in written' /\ p \notin waiting' /\ Batching'
      <4>1. j \in written /\ p \notin waiting /\ Batching /\ j # k
        BY <1>6, <3>1, <3>2, <3>3 DEF CopyInv, SentOnce
      <4> QED
        BY <2>1, <4>1 DEF Batching
    <3> QED
      BY <1>6, <2>1, <3>2, <3>3 DEF CopyInv, CopyTypes, SentOnce, RepeatsNeedAFailure
  <2>3. CASE faults' = faults + 1 /\ UNCHANGED notified
    BY <1>6, <2>1, <2>3, FailureDisturbs
  <2> QED
    BY <1>6, <2>2, <2>3 DEF MarkNotified
<1>7. ASSUME NEW p \in Parents, SendFails(p), disturbed' = disturbed \cup Outbox, UNCHANGED copies
      PROVE  CopyInv'
  <2>1. /\ pc \in {"sweepSend", "send"} /\ UNCHANGED <<pc, written>> /\ Outbox' = Outbox
        /\ written \subseteq Outbox /\ Outbox \subseteq Keys
    BY <1>7 DEF SendFails, Outbox, BatchInv, BatchInOutbox
  <2> QED
    BY <1>7, <2>1 DEF CopyInv, CopyTypes, SentOnce, RepeatsNeedAFailure
<1>8. ASSUME NEW p \in Parents, SendSucceeds(p), CountCopies(p), UNCHANGED disturbed PROVE CopyInv'
  <2>1. /\ pc \in {"sweepSend", "send"} /\ UNCHANGED <<pc, written, delivered>> /\ Outbox' = Outbox
        /\ recipients[p] \subseteq written /\ written \subseteq Outbox
        /\ p \in waiting /\ waiting' = waiting \ {p}
    BY <1>8 DEF SendSucceeds, Outbox, BatchInv, BatchInOutbox
  <2>2. ASSUME NEW k \in Keys, NEW q \in Parents
        PROVE  /\ copies'[k] \in [Parents -> 0..MaxCopies]
               /\ q # p \/ k \notin recipients[p] => copies'[k][q] = copies[k][q]
               /\ k \in recipients[p] => copies'[k][p] = Once(copies[k][p])
    <3>1. copies[k] \in [Parents -> 0..MaxCopies]
      BY DEF CopyInv, CopyTypes
    <3>2. Once(copies[k][p]) \in 0..MaxCopies
      BY <3>1 DEF Once, MaxCopies
    <3> QED
      BY <1>8, <3>1, <3>2 DEF CountCopies
  <2>3. CopyTypes'
    <3>1. copies' \in [Keys -> [Parents -> 0..MaxCopies]]
      BY <1>8, <2>2 DEF CountCopies
    <3> QED
      BY <1>8, <3>1 DEF CopyInv, CopyTypes
  <2>4. ASSUME NEW k \in Keys, NEW q \in Parents
        PROVE  /\ copies'[k][q] > 1 => k \in disturbed'
               /\ k \in Outbox' \ disturbed' /\ copies'[k][q] > 0 =>
                     k \in written' /\ q \notin waiting' /\ Batching'
    <3>1. CASE q # p \/ k \notin recipients[p]
      BY <1>8, <2>1, <2>2, <3>1 DEF CopyInv, SentOnce, RepeatsNeedAFailure, Batching
    <3>2. CASE q = p /\ k \in recipients[p]
      <4>1. k \in written /\ k \in Outbox
        BY <2>1, <3>2
      <4>2. k \notin disturbed => copies[k][p] = 0
        BY <2>1, <4>1 DEF CopyInv, SentOnce, CopyTypes, MaxCopies
      <4>3. k \notin disturbed => copies'[k][p] = 1
        BY <2>2, <3>2, <4>2 DEF Once, MaxCopies
      <4> QED
        BY <1>8, <2>1, <3>2, <4>1, <4>3 DEF Batching
    <3> QED
      BY <3>1, <3>2
  <2>5. SentOnce'
    BY <1>8, <2>1, <2>4 DEF CopyInv, SentOnce, Outbox
  <2> QED
    BY <2>3, <2>4, <2>5 DEF CopyInv, RepeatsNeedAFailure
<1>9. ASSUME NEW k \in Keys, CellConfirmed(k),
             copies' = [copies EXCEPT ![k] = [p \in Parents |-> 0]],
             disturbed' = disturbed \ {k}
      PROVE  CopyInv'
  <2>1. /\ ~Batching /\ delivered = TRUE /\ delivered' = TRUE
    BY <1>9, <1>a DEF CellConfirmed, Comparing, Batching
  <2>2. \A j \in Keys \ {k} : copies'[j] = copies[j] /\ (j \in Outbox' => j \in Outbox)
    BY <1>9 DEF CellConfirmed, Outbox, TypeOK, CopyInv, CopyTypes
  <2>3. copies'[k] = [p \in Parents |-> 0]
    BY <1>9 DEF CopyInv, CopyTypes
  <2>4. CopyTypes'
    BY <1>9 DEF CopyInv, CopyTypes, MaxCopies
  <2>5. \A j \in Outbox' \ disturbed', p \in Parents : ~(copies'[j][p] > 0)
    BY <1>9, <2>1, <2>2, <2>3 DEF CopyInv, SentOnce, Outbox
  <2>6. RepeatsNeedAFailure'
    BY <1>9, <2>2, <2>3 DEF CopyInv, RepeatsNeedAFailure
  <2> QED
    BY <2>1, <2>4, <2>5, <2>6 DEF CopyInv, SentOnce
<1>10. CASE UNCHANGED hvars
  <2>1. UNCHANGED <<copies, disturbed, text, notified, written, waiting, delivered, pc>>
    BY <1>10 DEF hvars, vars, history
  <2> QED
    BY <2>1 DEF CopyInv, CopyTypes, SentOnce, RepeatsNeedAFailure, Batching, Outbox
<1> QED
  BY <1>1, <1>2, <1>3, <1>4, <1>5, <1>6, <1>7, <1>8, <1>9, <1>10 DEF HNext

\* Everything the proofs below know of a state.
MonitorInv == DeliveryInv /\ BatchInv

LEMMA MonitorInvariant == HSpec => [](TypeOK /\ MonitorInv)
<1>1. Init => MonitorInv /\ TypeOK
  BY DeliveryInit, BatchInit, TypeInit DEF MonitorInv
<1>2. TypeOK /\ MonitorInv /\ [Next]_vars => (TypeOK /\ MonitorInv)'
  BY TypeStep, DeliveryStep, BatchStep DEF MonitorInv
<1> QED
  BY <1>1, <1>2, HistoryObserves, PTL DEF Spec

\* No spam: whatever the teacher, the families, the sweeper and the cycles do,
\* a parent is sent a grade twice only if a send or a mark failed or the
\* process died while the grade was in the outbox.
THEOREM RepeatsExcused == HSpec => []RepeatsNeedAFailure
<1>1. (TypeOK /\ MonitorInv) /\ CopyInv /\ [HNext]_hvars => CopyInv'
  BY CopyStep DEF MonitorInv
<1>2. CopyInv => RepeatsNeedAFailure
  BY DEF CopyInv
<1> QED
  BY CopyInit, MonitorInvariant, <1>1, <1>2, PTL DEF HSpec
-----------------------------------------------------------------------------
(* Two-phase confirmation: when a value that is written was last read. *)

SightTypes ==
    /\ sighted \in [Keys -> [Cells -> 1..(Ttl + 1)]]
    /\ lastColumn \in [Keys -> Cells \cup {Blank, Garbage}]

\* An entry of _pending_grades was made in this cycle, of a cell that is not
\* compared again before the next one, or was read at most its age ago.
PendingSighted ==
    \A k \in Keys : pending[k].cell # Blank =>
        \/ /\ pending[k].age = 0 /\ lastColumn[k] = pending[k].cell
           /\ k \notin todo /\ k[1] \notin polled
           /\ pc = "idle" \/ Fetched
        \/ pending[k].age > 0 /\ sighted[k][pending[k].cell] <= pending[k].age

\* A cell still to be compared is remembered as it was fetched.
ColumnKept ==
    Fetched => \A k \in Keys : k \in todo \/ k[1] \in polled => column[k] = lastColumn[k]

SightInv == SightTypes /\ ColumnKept /\ PendingSighted

LEMMA SightInit == HInit => SightInv
  BY BoundsAssumption DEF HInit, Init, SightInv, SightTypes, PendingSighted, ColumnKept, Fetched,
     NeverSighted, NoPending, BlankColumn

\* The age of an entry that survives another cycle.
LEMMA AgedEntry ==
    ASSUME NEW entry \in [cell : Cells \cup {Blank}, age : 0..Ttl], Aged(entry).cell # Blank
    PROVE  Aged(entry).cell = entry.cell /\ entry.cell # Blank /\ Aged(entry).age = entry.age + 1
  BY DEF Aged, NoPending

\* A step that keeps or forgets the entries, and what was read when, and lets no
\* cell be compared that was not to be, keeps the invariant.
LEMMA SightStays ==
    ASSUME SightInv,
           \A k \in Keys : pending'[k] = pending[k] \/ pending'[k] = NoPending,
           UNCHANGED <<sighted, lastColumn>>,
           \A k \in Keys : k[1] \notin polled =>
               k[1] \notin polled' /\ (k \notin todo => k \notin todo'),
           (pc = "idle" \/ Fetched) => (pc' = "idle" \/ Fetched'),
           Fetched' => Fetched /\ column' = column
    PROVE  SightInv'
<1>1. SightTypes'
  BY DEF SightInv, SightTypes
<1>2. ColumnKept'
  BY DEF SightInv, ColumnKept
<1>3. ASSUME NEW k \in Keys, pending'[k].cell # Blank
      PROVE  \/ /\ pending'[k].age = 0 /\ lastColumn'[k] = pending'[k].cell
                /\ k \notin todo' /\ k[1] \notin polled'
                /\ pc' = "idle" \/ Fetched'
             \/ pending'[k].age > 0 /\ sighted'[k][pending'[k].cell] <= pending'[k].age
  <2>1. pending'[k] = pending[k]
    BY <1>3 DEF NoPending
  <2> QED
    BY <1>3, <2>1 DEF SightInv, PendingSighted
<1> QED
  BY <1>1, <1>2, <1>3 DEF SightInv, PendingSighted

\* Every step keeps what is known of the entries.
LEMMA SightStep == TypeOK /\ MonitorInv /\ SightInv /\ [HNext]_hvars => SightInv'
<1> SUFFICES ASSUME TypeOK, MonitorInv, SightInv, [HNext]_hvars PROVE SightInv'
  OBVIOUS
<1>a. /\ pc = "process" => cur \notin polled
      /\ todo \subseteq KeysOf(cur)
      /\ pc # "process" => todo = {}
  BY DEF MonitorInv, BatchInv, ComparedOnce
<1> USE DEF world, table, cycle
<1>0. ASSUME NEW k \in Keys, CellConfirmed(k) \/ WriteFails(k), UsedUp(k) PROVE SightInv'
  <2>1. /\ k \in todo /\ k \notin todo' /\ pc = "process"
        /\ todo' \subseteq todo /\ polled' \subseteq polled
        /\ pending' = [pending EXCEPT ![k] = NoPending]
        /\ \/ UNCHANGED <<pc, column>>
           \/ pc' = "idle"
    BY <1>0 DEF CellConfirmed, WriteFails, Comparing, ForgetCycle
  <2>2. k[1] \notin polled /\ k[1] \notin polled' /\ Fetched
    BY <1>a, <2>1 DEF KeysOf, Fetched
  <2>3. /\ sighted' = [sighted EXCEPT ![k] = [c \in Cells |-> Ttl + 1]]
        /\ lastColumn' = [lastColumn EXCEPT ![k] = Blank]
    BY <1>0 DEF UsedUp
  <2>4. SightTypes'
    BY <2>3, BoundsAssumption DEF SightInv, SightTypes
  <2>5. \A j \in Keys \ {k} : /\ pending'[j] = pending[j] /\ sighted'[j] = sighted[j]
                              /\ lastColumn'[j] = lastColumn[j]
    BY <2>1, <2>3 DEF TypeOK, SightInv, SightTypes
  <2>6. ColumnKept'
    <3>1. CASE UNCHANGED <<pc, column>>
      BY <2>1, <2>2, <2>5, <3>1 DEF SightInv, ColumnKept, Fetched
    <3>2. CASE pc' = "idle"
      BY <3>2 DEF ColumnKept, Fetched
    <3> QED
      BY <2>1, <3>1, <3>2
  <2>7. PendingSighted'
    <3>1. pending'[k].cell = Blank
      BY <2>1 DEF TypeOK, NoPending
    <3>2. pc' = "idle" \/ Fetched'
      BY <2>1 DEF Fetched
    <3> QED
      BY <2>1, <2>5, <3>1, <3>2 DEF SightInv, PendingSighted
  <2> QED
    BY <2>4, <2>6, <2>7 DEF SightInv
<1>1. ASSUME World \/ SweepEnds \/ DispatchEnds \/ EndCycle \/ FinishStudent
                \/ (\E s \in Students : SweepStudent(s))
                \/ (\E p \in Parents : SendSucceeds(p) \/ SendFails(p))
                \/ (\E k \in Keys : CellUnchanged(k) \/ CellTrimmed(k) \/ MarkNotified(k)),
             UNCHANGED <<sighted, lastColumn>>
      PROVE  SightInv'
  <2>1. pending' = pending /\ polled' = polled /\ todo' \subseteq todo
    BY <1>1 DEF World, TeacherEdits, ParentJoins, ParentLeaves, SubscriptionChanges,
       SweepEnds, DispatchEnds, EndCycle, FinishStudent, SweepStudent, SendSucceeds, SendFails,
       CellUnchanged, CellTrimmed, MarkNotified, Comparing
  <2>2. /\ (pc = "idle" \/ Fetched) => (pc' = "idle" \/ Fetched')
        /\ Fetched' => Fetched /\ column' = column
    BY <1>1 DEF World, TeacherEdits, ParentJoins, ParentLeaves, SubscriptionChanges,
       SweepEnds, DispatchEnds, EndCycle, FinishStudent, SweepStudent, SendSucceeds, SendFails,
       CellUnchanged, CellTrimmed, MarkNotified, Comparing, AfterBatch, Fetched
  <2> QED
    BY <1>1, <2>1, <2>2, SightStays
<1>2. ASSUME NEW s \in Students, PickStudent(s), UNCHANGED <<sighted, lastColumn>> PROVE SightInv'
  <2>1. /\ s \in polled /\ polled' = polled \ {s} /\ UNCHANGED <<pending, column>>
        /\ Fetched /\ Fetched'
        /\ \A k \in Keys : k \in todo' => k \in todo \/ k[1] = s
    BY <1>2 DEF PickStudent, Fetched, KeysOf
  <2>2. \A k \in Keys : k[1] \notin polled =>
            k[1] \notin polled' /\ (k \notin todo => k \notin todo')
    BY <2>1
  <2> QED
    BY <1>2, <2>1, <2>2, SightStays
<1>3. ASSUME CycleAborts \/ SweepDispatchAborts, UNCHANGED <<sighted, lastColumn>>
      PROVE  SightInv'
  <2>1. \A k \in Keys : pending'[k] = pending[k] \/ pending'[k] = NoPending
    BY <1>3 DEF CycleAborts, SweepDispatchAborts, TypeOK
  <2>2. polled' \subseteq polled /\ todo' \subseteq todo
    BY <1>3 DEF CycleAborts, SweepDispatchAborts, ForgetCycle
  <2>3. ~Fetched' /\ ((pc = "idle" \/ Fetched) => pc' = "idle")
    BY <1>3 DEF CycleAborts, SweepDispatchAborts, ForgetCycle, Fetched
  <2> QED
    BY <1>3, <2>1, <2>2, <2>3, SightStays
<1>4. ASSUME NEW k \in Keys, CellPending(k), Overtaken(k, column[k]) PROVE SightInv'
  <2>1. /\ k \in todo /\ todo' = todo \ {k} /\ pc = "process" /\ UNCHANGED <<pc, polled, column>>
        /\ pending' = [pending EXCEPT ![k] = [cell |-> column[k], age |-> 0]]
    BY <1>4 DEF CellPending, Comparing
  <2>2. k[1] \notin polled /\ Fetched /\ Fetched'
    BY <1>a, <2>1 DEF KeysOf, Fetched
  <2>3. SightTypes' /\ ColumnKept'
    <3>1. sighted' \in [Keys -> [Cells -> 1..(Ttl + 1)]]
      <4> DEFINE other == [c \in Cells |-> IF c = column[k] THEN sighted[k][c] ELSE Ttl + 1]
      <4>1. other \in [Cells -> 1..(Ttl + 1)]
        BY BoundsAssumption DEF SightInv, SightTypes
      <4>2. sighted' = [sighted EXCEPT ![k] = other]
        BY <1>4 DEF Overtaken
      <4> HIDE DEF other
      <4> QED
        BY <4>1, <4>2 DEF SightInv, SightTypes
    <3> QED
      BY <1>4, <2>1, <2>2, <3>1 DEF Overtaken, SightInv, SightTypes, ColumnKept
  <2>4. ASSUME NEW j \in Keys, pending'[j].cell # Blank
        PROVE  \/ /\ pending'[j].age = 0 /\ lastColumn'[j] = pending'[j].cell
                  /\ j \notin todo' /\ j[1] \notin polled' /\ Fetched'
               \/ pending'[j].age > 0 /\ sighted'[j][pending'[j].cell] <= pending'[j].age
    <3>1. CASE j = k
      <4>1. pending'[k] = [cell |-> column[k], age |-> 0]
        BY <2>1 DEF TypeOK
      <4>2. lastColumn'[k] = column[k]
        BY <1>4, <2>1, <2>2 DEF Overtaken, SightInv, ColumnKept
      <4> QED
        BY <2>1, <2>2, <3>1, <4>1, <4>2
    <3>2. CASE j # k
      <4>1. pending'[j] = pending[j] /\ sighted'[j] = sighted[j] /\ lastColumn' = lastColumn
        BY <1>4, <2>1, <3>2 DEF Overtaken, TypeOK, SightInv, SightTypes
      <4> QED
        BY <2>1, <2>2, <2>4, <4>1 DEF SightInv, PendingSighted
    <3> QED
      BY <3>1, <3>2
  <2> QED
    BY <2>3, <2>4 DEF SightInv, PendingSighted
<1>5. ASSUME StartCycle, RememberColumn PROVE SightInv'
  <2>1. pending' = [k \in Keys |-> Aged(pending[k])] /\ ~Fetched'
    BY <1>5 DEF StartCycle, Fetched
  <2>2. ASSUME NEW k \in Keys, NEW c \in Cells
        PROVE  /\ sighted[k][c] \in 1..(Ttl + 1)
               /\ sighted'[k][c] = IF lastColumn[k] = c THEN 1
                                   ELSE IF sighted[k][c] <= Ttl THEN sighted[k][c] + 1 ELSE Ttl + 1
    BY <1>5 DEF RememberColumn, SightInv, SightTypes
  <2>3. SightTypes'
    <3>1. \A k \in Keys, c \in Cells : sighted'[k][c] \in 1..(Ttl + 1)
      BY <2>2, BoundsAssumption
    <3>2. sighted' \in [Keys -> [Cells -> 1..(Ttl + 1)]]
      BY <1>5, <3>1 DEF RememberColumn
    <3>3. lastColumn' \in [Keys -> Cells \cup {Blank, Garbage}]
      BY <1>5 DEF RememberColumn, BlankColumn
    <3> QED
      BY <3>2, <3>3 DEF SightTypes
  <2>4. ASSUME NEW k \in Keys, pending'[k].cell # Blank
        PROVE  pending'[k].age > 0 /\ sighted'[k][pending'[k].cell] <= pending'[k].age
    <3> DEFINE entry == pending[k]
    <3>1. entry \in [cell : Cells \cup {Blank}, age : 0..Ttl] /\ pending'[k] = Aged(entry)
      BY <2>1 DEF TypeOK
    <3>2. /\ pending'[k].cell = entry.cell /\ entry.cell \in Cells /\ entry.cell # Blank
          /\ pending'[k].age = entry.age + 1 /\ entry.age \in Nat
      BY <2>4, <3>1, AgedEntry
    <3>3. \/ entry.age = 0 /\ lastColumn[k] = entry.cell
          \/ entry.age > 0 /\ sighted[k][entry.cell] <= entry.age
      BY <3>2 DEF SightInv, PendingSighted
    <3> HIDE DEF entry
    <3> QED
      BY <2>2, <3>2, <3>3, BoundsAssumption
  <2> QED
    BY <2>1, <2>3, <2>4 DEF SightInv, PendingSighted, ColumnKept
<1>6. ASSUME Fetch, lastColumn' = column', UNCHANGED sighted PROVE SightInv'
  <2>1. /\ pending' = pending /\ pc = "fetch" /\ ~Fetched
        /\ column' \in [Keys -> Cells \cup {Blank, Garbage}]
    BY <1>6 DEF Fetch, Fetched, TypeOK
  <2>2. \A k \in Keys : pending[k].cell # Blank =>
            pending[k].age > 0 /\ sighted[k][pending[k].cell] <= pending[k].age
    BY <2>1 DEF SightInv, PendingSighted
  <2> QED
    BY <1>6, <2>1, <2>2 DEF SightInv, SightTypes, PendingSighted, ColumnKept
<1>7. ASSUME Crash, sighted' = NeverSighted, lastColumn' = BlankColumn PROVE SightInv'
  <2>1. (\A k \in Keys : pending'[k].cell = Blank) /\ ~Fetched'
    BY <1>7 DEF Crash, ForgetCycle, Fetched, NoPending
  <2>2. SightTypes'
    BY <1>7, BoundsAssumption DEF SightTypes, NeverSighted, BlankColumn
  <2> QED
    BY <2>1, <2>2 DEF SightInv, PendingSighted, ColumnKept
<1>8. CASE UNCHANGED hvars
  <2>1. UNCHANGED <<pending, sighted, lastColumn, polled, todo, pc, column>>
    BY <1>8 DEF hvars, vars, history
  <2> QED
    BY <2>1, SightStays DEF Fetched
<1> QED
  BY <1>0, <1>1, <1>2, <1>3, <1>4, <1>5, <1>6, <1>7, <1>8 DEF HNext

\* A cell adds no grade to itself, and a blank one adds none to anything.
LEMMA AddsNothing ==
    /\ \A cell \in Seq(Nat) : ~AddsGrade(cell, cell)
    /\ \A old : ~AddsGrade(old, Blank)
<1>1. ASSUME NEW cell \in Seq(Nat), NEW m PROVE ~(Copies(cell, m) > Copies(cell, m))
  <2>1. {i \in DOMAIN cell : cell[i] = m} \in SUBSET (1..Len(cell)) /\ Len(cell) \in Nat
    OBVIOUS
  <2>2. IsFiniteSet({i \in DOMAIN cell : cell[i] = m})
    BY <2>1, FS_Interval, FS_Subset
  <2>3. Copies(cell, m) \in Nat
    BY <2>2, FS_CardinalityType DEF Copies
  <2> QED
    BY <2>3
<1>2. DOMAIN Blank = {}
  BY DEF Blank
<1> QED
  BY <1>1, <1>2 DEF AddsGrade

\* What a step writes that adds a grade was sighted by an earlier cycle.
LEMMA WrittenSighted ==
    ASSUME TypeOK, MonitorInv, SightInv, [HNext]_hvars, NEW k \in Keys,
           AddsGrade(text[k], text'[k])
    PROVE  sighted[k][text'[k]] <= Ttl
<1> USE DEF world, table, cycle
<1>1. text[k] \in Seq(Nat)
  <2>1. Blank \in Seq(Nat)
    BY DEF Blank
  <2>2. text[k] \in Cells \cup {Blank}
    BY DEF TypeOK
  <2> QED
    BY <2>1, <2>2, CellsAssumption
<1>2. text'[k] # text[k] /\ text'[k] # Blank
  BY <1>1, AddsNothing
<1>3. CellTrimmed(k) \/ CellConfirmed(k)
  <2>1. CASE UNCHANGED hvars
    BY <1>2, <2>1 DEF hvars, vars
  <2>2. CASE World \/ SweepEnds \/ DispatchEnds \/ EndCycle \/ CycleAborts \/ SweepDispatchAborts
                \/ StartCycle \/ Fetch \/ Crash
                \/ (\E s \in Students : SweepStudent(s) \/ PickStudent(s))
                \/ (\E p \in Parents : SendSucceeds(p) \/ SendFails(p))
                \/ (\E j \in Keys : CellUnchanged(j) \/ CellPending(j) \/ MarkNotified(j)
                                    \/ WriteFails(j))
    BY <1>2, <2>2 DEF World, TeacherEdits, ParentJoins, ParentLeaves, SubscriptionChanges,
       SweepEnds, DispatchEnds, EndCycle, CycleAborts, SweepDispatchAborts, StartCycle, Fetch,
       Crash, SweepStudent, PickStudent, SendSucceeds, SendFails, CellUnchanged, CellPending,
       MarkNotified, WriteFails
  <2>3. CASE FinishStudent
    BY <1>2, <2>3 DEF FinishStudent
  <2>4. ASSUME NEW j \in Keys, CellTrimmed(j) \/ CellConfirmed(j) PROVE j = k
    BY <1>2, <2>4 DEF CellTrimmed, CellConfirmed, TypeOK
  <2> QED
    BY <2>1, <2>2, <2>3, <2>4 DEF HNext
<1>4. text'[k] = column[k]
  BY <1>3 DEF CellTrimmed, CellConfirmed, TypeOK
<1>5. k \in todo /\ pending[k].cell = column[k]
  BY <1>3, <1>4 DEF CellTrimmed, CellConfirmed, Comparing
<1>6. pending[k].age > 0 /\ sighted[k][pending[k].cell] <= pending[k].age
  BY <1>2, <1>4, <1>5 DEF SightInv, PendingSighted
<1>7. /\ pending[k].age \in 0..Ttl /\ column[k] \in Cells
      /\ sighted[k][column[k]] \in 1..(Ttl + 1)
  BY <1>2, <1>4, <1>5 DEF TypeOK, SightInv, SightTypes
<1> QED
  BY <1>4, <1>5, <1>6, <1>7, BoundsAssumption

\* Two-phase confirmation: a grade is written and announced only if the same
\* process read the same cell in an earlier cycle, at most Ttl cycles back, with
\* no other new grade in it and no write of it since.
THEOREM WrittenLate == HSpec => WrittenOnSecondSighting
<1>1. (TypeOK /\ MonitorInv) /\ SightInv /\ [HNext]_hvars => SightInv'
  BY SightStep
<1>2. TypeOK /\ MonitorInv /\ SightInv /\ [HNext]_hvars =>
          [\A k \in Keys : AddsGrade(text[k], text'[k]) => sighted[k][text'[k]] <= Ttl]_hvars
  BY WrittenSighted
<1> QED
  BY SightInit, MonitorInvariant, <1>1, <1>2, PTL DEF HSpec, WrittenOnSecondSighting
=============================================================================
