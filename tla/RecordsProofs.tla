---------------------------- MODULE RecordsProofs ----------------------------
(***************************************************************************)
(* Proofs about QuarterGrades, for any number of cells, values and parents *)
(* and any bounds: the state keeps its type, and no parent is left with an *)
(* old quarter grade.  About GradeArchive, for any grades, dates,          *)
(* importing threads and any age at which grades are archived.  And about  *)
(* Dashboard, for any entries and quarter grades: "not modified" is true.  *)
(* About Summary, for any subjects, any history and any thresholds: the    *)
(* blocks of the page agree.  At the end the composition of the four and   *)
(* the academic year.                                                      *)
(***************************************************************************)
EXTENDS MCRecords, AcademicYearProofs, FiniteSetTheorems, WellFoundedInduction, TLAPS

-----------------------------------------------------------------------------
(* Quarter grades.  QuartersAreKnown speaks of the time between two passes *)
(* and is not inductive: while the check is telling the parents of a cell, *)
(* those still to be told do not know it.  Covered says that they are the  *)
(* only exception, and QuarterInv that there is nobody to tell unless the  *)
(* check is telling.                                                       *)

\* The parent is still to be told of this cell.
StillToTell(a, c) == Reading("check", "tell") /\ a \in toTell /\ c = readers["check"].cell

Covered ==
    \A a \in members, c \in Cells :
        known[a][c] = table[c] \/ <<a, c>> \in unannounced \/ StillToTell(a, c)

QuarterInv == QuarterTypeOK /\ (toTell # {} => Reading("check", "tell")) /\ Covered

\* The initial states satisfy the invariant.
LEMMA QuarterStart == QuarterInit => QuarterInv
  BY QuarterAssumption
  DEF QuarterAssumption, QuarterInit, QuarterInv, QuarterTypeOK, Covered, StillToTell, Contents,
      Off, Passes, Readers, Reading

\* An idle reader's pass begins with cells of the sheet only.
LEMMA ReadsType ==
    ASSUME QuarterTypeOK, NEW r \in Readers, Reads(r)
    PROVE  /\ readers' \in [Readers -> Passes \cup {Off}]
           /\ \A q \in Readers : readers'[q].at \notin {"off", "next"} => readers'[q].cell \in Cells
           /\ \A q \in Readers : q # r => readers'[q] = readers[q]
           /\ readers[r].at = "off" /\ readers'[r].at = "next"
  BY DEF QuarterTypeOK, Reads, Busy, Off, Passes, Contents, Readers

\* A step of one reader that keeps its type, ends nobody's telling and begins
\* none, and changes nothing else, keeps the invariant.
LEMMA ReaderStep ==
    ASSUME QuarterInv, NEW r \in Readers, NEW fresh \in Passes \cup {Off},
           fresh.at \notin {"off", "next"} => fresh.cell \in Cells,
           ~ Reading(r, "tell"), fresh.at # "tell", readers' = [readers EXCEPT ![r] = fresh],
           UNCHANGED <<sheet, table, members, toTell, edits, imports, losses, known, unannounced>>
    PROVE  QuarterInv'
<1>1. /\ readers' \in [Readers -> Passes \cup {Off}]
      /\ readers'[r] = fresh /\ \A q \in Readers : q # r => readers'[q] = readers[q]
  BY DEF QuarterInv, QuarterTypeOK
<1>2. QuarterTypeOK'
  BY <1>1 DEF QuarterInv, QuarterTypeOK
<1>3. /\ Reading("check", "tell")' <=> Reading("check", "tell")
      /\ Reading("check", "tell") => readers'["check"] = readers["check"]
  BY <1>1 DEF Reading, Readers
<1> QED
  BY <1>2, <1>3 DEF QuarterInv, Covered, StillToTell

\* Every step of the specification preserves the invariant.
LEMMA QuarterStep == QuarterInv /\ [QuarterNext]_quarterVars => QuarterInv'
<1> SUFFICES ASSUME QuarterInv, [QuarterNext]_quarterVars PROVE QuarterInv'
  OBVIOUS
<1> USE QuarterAssumption DEF QuarterAssumption
<1> USE DEF QuarterInv, QuarterTypeOK
<1>1. CASE CheckStarts
  <2>1. Reads("check") /\ "check" \in Readers
    BY <1>1 DEF CheckStarts, Readers
  <2> QED
    BY <1>1, <2>1, ReadsType DEF CheckStarts, Covered, StillToTell, Reading
<1>2. CASE ImportStarts
  <2>1. Reads("import") /\ "import" \in Readers /\ "check" \in Readers
    BY <1>2 DEF ImportStarts, Readers
  <2>2. readers'["check"] = readers["check"]
    BY <2>1, ReadsType
  <2>3. imports' \in 0..MaxImports
    BY <1>2 DEF ImportStarts
  <2> QED
    BY <1>2, <2>1, <2>2, <2>3, ReadsType DEF ImportStarts, Covered, StillToTell, Reading
<1>3. CASE CheckStores
  BY <1>3 DEF CheckStores, Stores, Covered, StillToTell, Reading, Readers, Passes, Contents, Off
<1>4. CASE ImportStores
  BY <1>4 DEF ImportStores, Stores, Covered, StillToTell, Reading, Readers, Passes, Contents, Off
<1>5. CASE CellDone
  BY <1>5 DEF CellDone, Covered, StillToTell, Reading, Readers, Passes, Off
<1>6. ASSUME NEW c \in Cells, TeacherMarks(c) PROVE QuarterInv'
  BY <1>6 DEF TeacherMarks, Covered, StillToTell, Reading, Contents
<1>7. ASSUME NEW c \in Cells, NEW r \in Readers, NextCell(r, c) PROVE QuarterInv'
  <2> DEFINE fresh == [readers[r] EXCEPT !.at = "compare", !.left = @ \ {c}, !.cell = c,
                                       !.before = table[c]]
  <2>1. readers[r] \in Passes /\ ~ Reading(r, "tell")
    BY <1>7 DEF NextCell, Reading, Off
  <2>2. table[c] \in Values \cup {Blank}
    BY DEF Contents
  <2>3. fresh \in Passes /\ fresh.at = "compare" /\ fresh.cell = c
    BY <2>1, <2>2 DEF Passes
  <2>4. readers' = [readers EXCEPT ![r] = fresh]
    BY <1>7, <2>1 DEF NextCell, Passes
  <2>5. UNCHANGED <<sheet, table, members, toTell, edits, imports, losses, known, unannounced>>
    BY <1>7 DEF NextCell
  <2> HIDE DEF QuarterInv, QuarterTypeOK, fresh
  <2> QED
    BY <2>1, <2>3, <2>4, <2>5, ReaderStep
<1>8. ASSUME NEW a \in Adults, ParentComesOrGoes(a) PROVE QuarterInv'
  BY <1>8 DEF ParentComesOrGoes, Covered, StillToTell, Reading, Contents
<1>9. ASSUME NEW a \in Adults, Tell(a) PROVE QuarterInv'
  <2> DEFINE cell == readers["check"].cell
             value == readers["check"].data[cell]
  <2>1. /\ Reading("check", "tell") /\ "check" \in Readers
        /\ toTell' = toTell \ {a} /\ UNCHANGED <<sheet, table, members, readers, edits, imports>>
        /\ \/ /\ known' = [known EXCEPT ![a][cell] = value] /\ UNCHANGED losses
              /\ unannounced' = IF table[cell] = value THEN unannounced \ {<<a, cell>>}
                                ELSE unannounced \cup {<<a, cell>>}
           \/ /\ losses < MaxLosses /\ losses' = losses + 1
              /\ unannounced' = unannounced \cup {<<a, cell>>} /\ UNCHANGED known
    BY <1>9 DEF Tell, Loss, Readers
  <2>2. cell \in Cells /\ value \in Values \cup {Blank}
    BY <2>1 DEF Reading, Passes, Off, Contents
  <2> HIDE DEF cell, value
  <2>3. known' \in [Adults -> Contents] /\ unannounced' \subseteq Adults \X Cells
    <3>1. <<a, cell>> \in Adults \X Cells
      BY <2>2
    <3>2. unannounced' \subseteq unannounced \cup {<<a, cell>>}
      BY <2>1
    <3>3. [known EXCEPT ![a][cell] = value] \in [Adults -> Contents]
      BY <2>2 DEF Contents
    <3> QED
      BY <2>1, <3>1, <3>2, <3>3
  <2>4. QuarterTypeOK' /\ (toTell' # {} => Reading("check", "tell")')
    BY <2>1, <2>3 DEF Reading
  <2>5. ASSUME NEW b \in members, NEW c \in Cells, b # a \/ c # cell
        PROVE  /\ known'[b][c] = known[b][c]
               /\ <<b, c>> \in unannounced' <=> <<b, c>> \in unannounced
    BY <2>1, <2>2, <2>5 DEF Contents
  <2>6. a \in members => known'[a][cell] = table[cell] \/ <<a, cell>> \in unannounced'
    BY <2>1, <2>2 DEF Contents
  <2>7. ASSUME NEW b \in members', NEW c \in Cells
        PROVE  known'[b][c] = table'[c] \/ <<b, c>> \in unannounced' \/ StillToTell(b, c)'
    <3>1. members' = members /\ table' = table
      BY <2>1
    <3>2. CASE b = a /\ c = cell
      BY <2>6, <3>1, <3>2
    <3>3. CASE b # a \/ c # cell
      <4>1. StillToTell(b, c) => StillToTell(b, c)'
        BY <2>1, <3>3 DEF StillToTell, Reading, cell
      <4>2. known[b][c] = table[c] \/ <<b, c>> \in unannounced \/ StillToTell(b, c)
        BY <3>1 DEF Covered
      <4>3. known'[b][c] = known[b][c] /\ (<<b, c>> \in unannounced' <=> <<b, c>> \in unannounced)
        BY <2>5, <3>1, <3>3
      <4> HIDE DEF QuarterInv
      <4> QED
        BY <3>1, <4>1, <4>2, <4>3
    <3> QED
      BY <3>2, <3>3
  <2>8. Covered'
    BY <2>7 DEF Covered
  <2> QED
    BY <2>4, <2>8
<1>10. ASSUME NEW r \in Readers, Compare(r) PROVE QuarterInv'
  <2>1. readers[r] \in Passes /\ readers[r].cell \in Cells /\ ~ Reading(r, "tell")
    BY <1>10 DEF Compare, Reading, Off
  <2>2. PICK place \in {"next", "write"} : readers' = [readers EXCEPT ![r].at = place]
    BY <1>10 DEF Compare
  <2> DEFINE fresh == [readers[r] EXCEPT !.at = place]
  <2>3. fresh \in Passes /\ fresh.at = place /\ fresh.cell = readers[r].cell
    BY <2>1 DEF Passes
  <2>4. /\ readers' = [readers EXCEPT ![r] = fresh]
        /\ UNCHANGED <<sheet, table, members, toTell, edits, imports, losses, known, unannounced>>
    BY <1>10, <2>2 DEF Compare
  <2> HIDE DEF QuarterInv, QuarterTypeOK, fresh
  <2> QED
    BY <2>1, <2>3, <2>4, ReaderStep
<1>11. ASSUME NEW r \in Readers, ReaderEnds(r) PROVE QuarterInv'
  BY <1>11 DEF ReaderEnds, Covered, StillToTell, Reading, Readers, Passes, Off
<1>12. ASSUME NEW lost \in SUBSET Readers, PassLost(lost) PROVE QuarterInv'
  BY <1>12 DEF PassLost, Loss, Covered, StillToTell, Reading, Readers, Passes, Off, Busy
<1>13. CASE UNCHANGED quarterVars
  BY <1>13 DEF quarterVars, Covered, StillToTell, Reading
<1> QED
  <2>1. \A r \in Readers : {r} \in SUBSET Readers
    OBVIOUS
  <2> QED
    BY <2>1, <1>1, <1>2, <1>3, <1>4, <1>5, <1>6, <1>7, <1>8, <1>9, <1>10, <1>11, <1>12, <1>13
       DEF QuarterNext

\* The quarter module's variables keep their types, in every reachable state of
\* every instance.
THEOREM QuarterTypes == QuarterSpec => []QuarterTypeOK
<1>1. QuarterInv => QuarterTypeOK
  BY DEF QuarterInv
<1> QED
  BY QuarterStart, QuarterStep, <1>1, PTL DEF QuarterSpec

\* Nobody is left with an old quarter grade between two passes of the check,
\* unless the importer stored it, a message failed or the check was cut short:
\* for every number of parents, however the check, the importer, the teacher,
\* failures and restarts interleave.
THEOREM QuartersKnown == QuarterSpec => []QuartersAreKnown
<1>1. QuarterInv => QuartersAreKnown
  <2> SUFFICES ASSUME QuarterInv, readers["check"] = Off, NEW a \in members, NEW c \in Cells
               PROVE  known[a][c] = table[c] \/ <<a, c>> \in unannounced
    BY DEF QuartersAreKnown, Busy
  <2>1. ~ StillToTell(a, c)
    BY DEF StillToTell, Reading, Off
  <2> QED
    BY <2>1 DEF QuarterInv, Covered
<1> QED
  BY QuarterStart, QuarterStep, <1>1, PTL DEF QuarterSpec

-----------------------------------------------------------------------------
(* The archive.  EachGradeOnce is not inductive: what an importer is about *)
(* to store must be in neither table, unless another thread stored it      *)
(* after the importer looked (Unknown), and what the archive has chosen    *)
(* must be old (Chosen).                                                   *)

Unseen ==
    \A i \in Importers :
        step[i] = "writing" => found[i] \cap (live \cup archived) \subseteq missed[i]

Chosen == \A g \in chosen : Old(g)

ArchiveInv == ArchiveTypeOK /\ EachGradeOnce /\ Unseen /\ Chosen

\* The initial states satisfy the invariant.
LEMMA ArchiveStart == ArchiveInit => ArchiveInv
<1> SUFFICES ASSUME ArchiveInit PROVE ArchiveInv
  OBVIOUS
<1>1. date \in 0..LastDate
  BY ArchiveAssumption DEF ArchiveAssumption, ArchiveInit
<1>2. ArchiveTypeOK
  BY <1>1 DEF ArchiveInit, ArchiveTypeOK
<1>3. EachGradeOnce /\ Unseen /\ Chosen
  BY DEF ArchiveInit, EachGradeOnce, Unseen, Chosen
<1> QED
  BY <1>2, <1>3 DEF ArchiveInv

\* What is old stays old.
LEMMA OldStays ==
    ASSUME ArchiveTypeOK, date' \in 0..LastDate, date' >= date, NEW g \in Grades, Old(g)
    PROVE  Old(g)'
  BY ArchiveAssumption DEF ArchiveAssumption, ArchiveTypeOK, Old

\* Nothing of today or later is old.
LEMMA TodayIsNotOld ==
    ASSUME ArchiveTypeOK, NEW g \in Grades, Given[g] = date
    PROVE  ~ Old(g)
  BY ArchiveAssumption DEF ArchiveAssumption, ArchiveTypeOK, Old

\* Every step of the specification preserves the invariant.
LEMMA ArchiveStep == ArchiveInv /\ [ArchiveNext]_archiveVars => ArchiveInv'
<1> SUFFICES ASSUME ArchiveInv, [ArchiveNext]_archiveVars PROVE ArchiveInv'
  OBVIOUS
<1> USE ArchiveAssumption DEF ArchiveAssumption
<1> USE DEF ArchiveInv, ArchiveTypeOK
<1>1. CASE Midnight
  <2>1. \A g \in Grades : Old(g) => Old(g)'
    BY <1>1, OldStays DEF Midnight
  <2> QED
    BY <1>1, <2>1 DEF Midnight, importing, EachGradeOnce, Unseen, Chosen
<1>2. ASSUME NEW g \in Grades, MonitorStores(g) PROVE ArchiveInv'
  <2>1. g \notin archived
    BY <1>2, TodayIsNotOld DEF MonitorStores, EachGradeOnce
  <2>2. ArchiveTypeOK'
    BY <1>2 DEF MonitorStores, importing
  <2>3. EachGradeOnce'
    BY <1>2, <2>1 DEF MonitorStores, importing, EachGradeOnce, Old
  <2>4. Unseen'
    BY <1>2 DEF MonitorStores, importing, Unseen
  <2> QED
    BY <1>2, <2>2, <2>3, <2>4 DEF MonitorStores, Chosen, Old
<1>3. ASSUME NEW g \in Grades, MonitorErases(g) PROVE ArchiveInv'
  BY <1>3 DEF MonitorErases, importing, EachGradeOnce, Unseen, Chosen, Old
<1>4. ASSUME NEW i \in Importers, FetchSheet(i) PROVE ArchiveInv'
  BY <1>4 DEF FetchSheet, EachGradeOnce, Unseen, Chosen, Old
<1>5. ASSUME NEW i \in Importers, LookIntoBoth(i) PROVE ArchiveInv'
  BY <1>5 DEF LookIntoBoth, EachGradeOnce, Unseen, Chosen, Old
<1>6. ASSUME NEW i \in Importers, StoreFresh(i) PROVE ArchiveInv'
  <2>1. found[i] \cap archived \subseteq missed[i]
    BY <1>6 DEF StoreFresh, Unseen
  <2>2. ArchiveTypeOK'
    BY <1>6 DEF StoreFresh, ImportOver
  <2>3. EachGradeOnce'
    BY <1>6, <2>1 DEF StoreFresh, ImportOver, EachGradeOnce, Old
  <2>4. Unseen'
    BY <1>6 DEF StoreFresh, ImportOver, Unseen
  <2> QED
    BY <1>6, <2>2, <2>3, <2>4 DEF StoreFresh, Chosen, Old
<1>7. ASSUME NEW i \in Importers, ImportAborts(i) PROVE ArchiveInv'
  BY <1>7 DEF ImportAborts, ImportOver, EachGradeOnce, Unseen, Chosen, Old
<1>8. CASE ChooseOld
  BY <1>8 DEF ChooseOld, importing, EachGradeOnce, Unseen, Chosen, Old
<1>9. CASE MoveChosen
  <2>1. ArchiveTypeOK' /\ Chosen'
    BY <1>9 DEF MoveChosen, importing, Chosen
  <2>2. EachGradeOnce'
    BY <1>9 DEF MoveChosen, importing, EachGradeOnce, Chosen, Old
  <2>3. Unseen'
    BY <1>9 DEF MoveChosen, importing, Unseen
  <2> QED
    BY <2>1, <2>2, <2>3
<1>10. CASE ArchiveFails
  BY <1>10 DEF ArchiveFails, importing, EachGradeOnce, Unseen, Chosen, Old
<1>11. CASE UNCHANGED archiveVars
  BY <1>11 DEF archiveVars, EachGradeOnce, Unseen, Chosen, Old
<1> QED
  BY <1>1, <1>2, <1>3, <1>4, <1>5, <1>6, <1>7, <1>8, <1>9, <1>10, <1>11 DEF ArchiveNext

\* No grade is lost between the two tables or counted twice, but by an importer
\* that looked before another thread stored it, and until the archive next moves
\* it: for any number of importers, however they and the archive interleave.
THEOREM GradesKept == ArchiveSpec => []EachGradeOnce
<1>1. ArchiveInv => EachGradeOnce
  BY DEF ArchiveInv
<1> QED
  BY ArchiveStart, ArchiveStep, <1>1, PTL DEF ArchiveSpec

\* The two tables, the importers and the archive's selection keep their types
\* (maintenance 15-76, history_importer 293-416).
THEOREM ArchiveTypes == ArchiveSpec => []ArchiveTypeOK
<1>1. ArchiveInv => ArchiveTypeOK
  BY DEF ArchiveInv
<1> QED
  BY ArchiveStart, ArchiveStep, <1>1, PTL DEF ArchiveSpec

-----------------------------------------------------------------------------
(* The dashboard's tag.  What MAX and COUNT say of a table, and how the     *)
(* rows of now come from those a tag was made of.                          *)

\* A set of numbers up to n that is not empty has a greatest one.
LEMMA Greatest ==
    ASSUME NEW n \in Nat, NEW S \in SUBSET (0..n), S # {}
    PROVE  Max(S) \in S /\ \A k \in S : k <= Max(S)
<1> DEFINE T == {n - k : k \in S}
<1>1. T \subseteq Nat /\ T # {}
  <2>1. \A k \in S : n - k \in Nat
    OBVIOUS
  <2>2. \A x \in T : \E k \in S : x = n - k
    OBVIOUS
  <2>3. PICK k \in S : TRUE
    OBVIOUS
  <2>4. n - k \in T
    OBVIOUS
  <2> HIDE DEF T
  <2> QED
    BY <2>1, <2>2, <2>4
<1> HIDE DEF T
<1> DEFINE L == OpToRel(<, Nat)
<1>2. \A x, y \in Nat : x < y => <<x, y>> \in L
  BY DEF OpToRel
<1>3. IsWellFoundedOn(L, Nat)
  BY NatLessThanWellFounded
<1> HIDE DEF L
<1>4. PICK x \in T : \A y \in T : ~ (<<y, x>> \in L)
  BY <1>1, <1>3, WFMin
<1>5. PICK m \in S : x = n - m
  BY DEF T
<1>6. ASSUME NEW k \in S PROVE k <= m
  <2>1. n - k \in T /\ n - k \in Nat /\ x \in Nat
    BY <1>1 DEF T
  <2>2. ~ (n - k < x)
    BY <1>2, <1>4, <2>1
  <2> QED
    BY <1>5, <2>1, <2>2
<1>7. \E k \in S : \A j \in S : k >= j
  BY <1>6
<1> QED
  BY <1>7 DEF Max

\* The newest stamp of a table.
LEMMA NewestStamp ==
    ASSUME NEW K, NEW t \in [K -> Stamps \cup {Nothing}]
    PROVE  /\ Watermark(t).newest \in Stamps /\ Stored(t) = {k \in K : t[k] # Nothing}
           /\ \A k \in K : t[k] # Nothing => t[k] <= Watermark(t).newest
           /\ Watermark(t).newest = 0 \/ \E k \in Stored(t) : t[k] = Watermark(t).newest
           /\ Watermark(t).count = Cardinality(Stored(t))
<1> DEFINE S == {t[k] : k \in Stored(t)}
<1>1. Stored(t) = {k \in K : t[k] # Nothing} /\ MaxStamps \in Nat
  BY DashboardAssumption DEF Stored
<1>2. S \in SUBSET (0..MaxStamps)
  BY <1>1 DEF Stamps
<1>3. Watermark(t).newest = (IF Stored(t) = {} THEN 0 ELSE Max(S))
      /\ Watermark(t).count = Cardinality(Stored(t))
  BY DEF Watermark
<1>4. S # {} => Max(S) \in S /\ \A k \in S : k <= Max(S)
  BY <1>1, <1>2, Greatest
<1>5. CASE Stored(t) = {}
  BY <1>1, <1>3, <1>5 DEF Stamps
<1>6. CASE Stored(t) # {}
  <2>1. S # {}
    BY <1>6
  <2> DEFINE m == Watermark(t).newest
  <2>2. m \in S /\ \A k \in S : k <= m
    BY <1>3, <1>4, <1>6, <2>1
  <2> HIDE DEF m
  <2>3. m \in Stamps /\ \E k \in Stored(t) : t[k] = m
    BY <1>2, <2>2 DEF Stamps
  <2>4. \A k \in K : t[k] # Nothing => t[k] <= m
    BY <1>1, <2>2
  <2> QED
    BY <1>1, <1>3, <2>3, <2>4 DEF m
<1> QED
  BY <1>5, <1>6

Rows == [Entries -> Stamps \cup {Nothing}]
QuarterRows == [QuarterCells -> Stamps \cup {Nothing}]

\* The rows of grade_history when those of gone are in the archive, which are of
\* earlier days and stamped so.
Live(both, gone) == [k \in Entries |-> IF k \in gone THEN Nothing ELSE both[k]]
Unstamped(both, gone) == gone \subseteq Earlier /\ \A k \in gone : both[k] = 0

\* The newest stamp is that of both tables, the number is not.
LEMMA LiveMark ==
    ASSUME NEW both \in Rows, NEW gone, Unstamped(both, gone)
    PROVE  LET mark == Watermark(Live(both, gone)) IN
           /\ mark.newest \in Stamps
           /\ \A k \in Entries : both[k] # Nothing => both[k] <= mark.newest
           /\ mark.newest = 0 \/ \E k \in Entries : (both[k] # Nothing /\ both[k] = mark.newest)
           /\ mark.count = Cardinality({k \in Entries : both[k] # Nothing} \ gone)
<1> DEFINE lines == Live(both, gone)
           n == Watermark(lines).newest
<1>1. /\ lines \in Rows /\ \A k \in Entries : lines[k] = IF k \in gone THEN Nothing ELSE both[k]
      /\ Nothing \notin Nat /\ Stamps \subseteq Nat
  BY DashboardAssumption DEF Live, Rows, Stamps
<1> HIDE DEF lines
<1>2. /\ n \in Stamps /\ Stored(lines) = {k \in Entries : lines[k] # Nothing}
      /\ \A k \in Entries : lines[k] # Nothing => lines[k] <= n
      /\ n = 0 \/ \E k \in Stored(lines) : lines[k] = n
      /\ Watermark(lines).count = Cardinality(Stored(lines))
  BY <1>1, NewestStamp DEF Rows
<1> HIDE DEF n
<1>3. Stored(lines) = {k \in Entries : both[k] # Nothing} \ gone
  BY <1>1, <1>2
<1>4. ASSUME NEW k \in Entries, both[k] # Nothing PROVE both[k] <= n
  <2>1. CASE k \in gone
    BY <1>1, <1>2, <2>1 DEF Unstamped
  <2>2. CASE k \notin gone
    BY <1>1, <1>2, <1>4, <2>2
  <2> QED
    BY <2>1, <2>2
<1>5. n = 0 \/ \E k \in Entries : (both[k] # Nothing /\ both[k] = n)
  BY <1>1, <1>2, <1>3
<1> QED
  BY <1>2, <1>3, <1>4, <1>5 DEF lines, n

\* What became of the rows tagged (at stamp s), by way of the rows answered,
\* in the rows of now: without a removal none went away, without an import none
\* came but by a write, and without an import or a write in between those
\* answered are the tagged ones, less what was removed.
Descends(tagged, s, answered, present, events) ==
    /\ "drop" \notin events =>
          \A k \in Entries :
              /\ answered[k] # Nothing => present[k] # Nothing /\ present[k] >= answered[k]
              /\ tagged[k] # Nothing => /\ answered[k] # Nothing
                                        /\ answered[k] = tagged[k] \/ answered[k] > s
                                        /\ present[k] = tagged[k] \/ present[k] > s
    /\ "import" \notin events =>
          \A k \in Entries : present[k] \in {tagged[k], Nothing} \/ present[k] > s
    /\ events \cap {"import", "write"} = {} =>
          \A k \in Entries : /\ answered[k] \in {tagged[k], Nothing}
                             /\ present[k] \in {answered[k], Nothing} \/ present[k] > s

UpTo(lines, s) == \A k \in Entries : lines[k] # Nothing => lines[k] <= s

\* The archive takes rows and gives none back.
Grows(was, gone, events) == was \subseteq gone /\ ("archive" \notin events => was = gone)

\* The same number of rows and the same newest stamp mean that nothing changed,
\* unless a row that went made up for one that came.
LEMMA SameMarkSameRows ==
    ASSUME NEW tagged \in Rows, NEW answered \in Rows, NEW present \in Rows, NEW s \in Stamps,
           NEW events, UpTo(tagged, s), Descends(tagged, s, answered, present, events),
           NEW was, NEW gone, Unstamped(tagged, was), Unstamped(present, gone), Grows(was, gone, events),
           Watermark(Live(present, gone)) = Watermark(Live(tagged, was)),
           ~ ("drop" \in events /\ events \cap {"import", "write"} # {}),
           ~ ("archive" \in events /\ "import" \in events)
    PROVE  present = answered
<1>1. s \in Nat /\ Stamps \subseteq Nat /\ Nothing \notin Nat
  BY DashboardAssumption DEF Stamps
<1> DEFINE n == Watermark(Live(present, gone)).newest
           m == Watermark(Live(tagged, was)).newest
           Here == {k \in Entries : present[k] # Nothing}
           There == {k \in Entries : tagged[k] # Nothing}
<1>2. /\ n \in Stamps /\ \A k \in Entries : present[k] # Nothing => present[k] <= n
      /\ Watermark(Live(present, gone)).count = Cardinality(Here \ gone)
  BY LiveMark
<1>3. /\ m \in Stamps
      /\ m = 0 \/ \E k \in Entries : (tagged[k] # Nothing /\ tagged[k] = m)
      /\ Watermark(Live(tagged, was)).count = Cardinality(There \ was)
  BY LiveMark
<1>4. n = m /\ Cardinality(Here \ gone) = Cardinality(There \ was)
  BY <1>2, <1>3
<1> HIDE DEF n, m
<1>5. n <= s
  BY <1>1, <1>2, <1>3, <1>4 DEF UpTo
<1>6. ASSUME NEW k \in Entries, present[k] # Nothing PROVE ~ (present[k] > s) /\ present[k] \in Nat
  <2>1. present[k] \in Nat /\ present[k] <= n
    BY <1>1, <1>2, <1>6 DEF Rows
  <2> QED
    BY <1>1, <1>2, <1>5, <2>1
<1>7. /\ IsFiniteSet(Here \ gone) /\ IsFiniteSet(There \ was)
      /\ was \subseteq There /\ gone \subseteq Here
  <2>1. IsFiniteSet(Entries) /\ Here \ gone \subseteq Entries /\ There \ was \subseteq Entries
    BY DashboardAssumption DEF Entries
  <2>2. was \subseteq There /\ gone \subseteq Here
    BY <1>1 DEF Unstamped, Entries
  <2> QED
    BY <2>1, <2>2, FS_Subset
<1>8. CASE "drop" \notin events
  <2>1. There \subseteq Here
    BY <1>8 DEF Descends
  <2>2. There = Here
    <3>1. CASE "archive" \notin events
      <4>1. was = gone /\ There \ was \subseteq Here \ gone
        BY <2>1, <3>1 DEF Grows
      <4>2. There \ was = Here \ gone
        BY <1>4, <1>7, <4>1, FS_Subset
      <4> QED
        BY <1>7, <4>1, <4>2
    <3>2. CASE "import" \notin events
      <4>1. \A k \in Entries : present[k] \in {tagged[k], Nothing} \/ present[k] > s
        BY <3>2 DEF Descends
      <4> QED
        BY <1>6, <2>1, <4>1
    <3> QED
      BY <3>1, <3>2
  <2> HIDE DEF Here, There
  <2>3. ASSUME NEW k \in Entries PROVE present[k] = answered[k]
    <3>1. CASE k \in There
      <4>1. tagged[k] # Nothing /\ present[k] # Nothing /\ answered[k] # Nothing
        BY <1>8, <2>2, <3>1 DEF Descends, Here, There
      <4>2. present[k] = tagged[k]
        BY <1>6, <1>8, <4>1 DEF Descends
      <4>3. present[k] >= answered[k] /\ (answered[k] = tagged[k] \/ answered[k] > s)
        BY <1>8, <4>1 DEF Descends
      <4>4. tagged[k] <= s /\ tagged[k] \in Nat /\ answered[k] \in Nat
        BY <1>1, <4>1 DEF UpTo, Rows
      <4> QED
        BY <1>1, <4>2, <4>3, <4>4
    <3>2. CASE k \notin There
      <4>1. present[k] = Nothing
        BY <2>2, <3>2 DEF Here
      <4> QED
        BY <1>8, <4>1 DEF Descends
    <3> QED
      BY <3>1, <3>2
  <2> QED
    BY <2>3 DEF Rows
<1>9. CASE events \cap {"import", "write"} = {}
  <2>1. \A k \in Entries : /\ present[k] \in {answered[k], Nothing}
                           /\ answered[k] \in {tagged[k], Nothing}
    BY <1>6, <1>9 DEF Descends
  <2>2. Here \subseteq There
    BY <2>1
  <2>3. There \ was = Here \ gone
    <3>1. Here \ gone \subseteq There \ was
      BY <2>2 DEF Grows
    <3> QED
      BY <1>4, <1>7, <3>1, FS_Subset
  <2>4. There = Here
    BY <1>7, <2>2, <2>3 DEF Grows
  <2>5. ASSUME NEW k \in Entries PROVE present[k] = answered[k]
    BY <2>1, <2>4
  <2> QED
    BY <2>5 DEF Rows
<1> QED
  BY <1>8, <1>9

\* More events excuse more.
LEMMA DescendsMore ==
    ASSUME NEW tagged, NEW s, NEW answered, NEW present, NEW events, NEW more,
           events \subseteq more, Descends(tagged, s, answered, present, events)
    PROVE  Descends(tagged, s, answered, present, more)
<1>1. /\ "drop" \notin more => "drop" \notin events
      /\ "import" \notin more => "import" \notin events
  OBVIOUS
<1>2. more \cap {"import", "write"} = {} => events \cap {"import", "write"} = {}
  OBVIOUS
<1> QED
  BY <1>1, <1>2 DEF Descends

\* A write of today, a removal, an import: after the answer.
LEMMA ChangedAfter ==
    ASSUME NEW tagged \in Rows, NEW s \in Nat, NEW answered \in Rows, NEW present \in Rows,
           NEW events, Descends(tagged, s, answered, present, events), NEW k \in Entries, NEW fresh,
           \/ fresh \in Nat /\ fresh > s /\ UpTo(answered, fresh)
           \/ fresh = Nothing /\ "drop" \in events
           \/ fresh = 0 /\ "import" \in events /\ present[k] = Nothing
    PROVE  Descends(tagged, s, answered, [present EXCEPT ![k] = fresh], events)
<1> DEFINE then == [present EXCEPT ![k] = fresh]
<1>1. /\ then[k] = fresh /\ \A j \in Entries : j # k => then[j] = present[j]
      /\ Nothing \notin Nat /\ Stamps \subseteq Nat
  BY DashboardAssumption DEF Rows, Stamps
<1> HIDE DEF then
<1>2. ASSUME "drop" \notin events, NEW j \in Entries
      PROVE  /\ answered[j] # Nothing => then[j] # Nothing /\ then[j] >= answered[j]
             /\ tagged[j] # Nothing => /\ answered[j] # Nothing
                                       /\ answered[j] = tagged[j] \/ answered[j] > s
                                       /\ then[j] = tagged[j] \/ then[j] > s
  <2>1. /\ answered[j] # Nothing => present[j] # Nothing /\ present[j] >= answered[j]
        /\ tagged[j] # Nothing => /\ answered[j] # Nothing
                                  /\ answered[j] = tagged[j] \/ answered[j] > s
                                  /\ present[j] = tagged[j] \/ present[j] > s
    BY <1>2 DEF Descends
  <2>2. CASE j # k
    BY <1>1, <2>1, <2>2
  <2>3. CASE j = k
    <3>1. CASE fresh \in Nat /\ fresh > s /\ UpTo(answered, fresh)
      BY <1>1, <2>1, <2>3, <3>1 DEF UpTo, Rows
    <3>2. CASE fresh = 0 /\ present[k] = Nothing
      BY <1>1, <2>1, <2>3, <3>2
    <3> QED
      BY <1>2, <3>1, <3>2
  <2> QED
    BY <2>2, <2>3
<1>3. ASSUME events \cap {"import", "write"} = {}, NEW j \in Entries
      PROVE  /\ answered[j] \in {tagged[j], Nothing}
             /\ then[j] \in {answered[j], Nothing} \/ then[j] > s
  <2>1. /\ answered[j] \in {tagged[j], Nothing}
        /\ present[j] \in {answered[j], Nothing} \/ present[j] > s
    BY <1>3 DEF Descends
  <2>2. then[k] = Nothing \/ then[k] > s
    BY <1>1, <1>3
  <2> QED
    BY <1>1, <2>1, <2>2
<1>4. ASSUME "import" \notin events, NEW j \in Entries
      PROVE  then[j] \in {tagged[j], Nothing} \/ then[j] > s
  <2>1. present[j] \in {tagged[j], Nothing} \/ present[j] > s
    BY <1>4 DEF Descends
  <2> QED
    BY <1>1, <1>4, <2>1
<1> QED
  BY <1>2, <1>3, <1>4 DEF Descends, then

\* The same before the answer is read.
LEMMA ChangedBefore ==
    ASSUME NEW tagged \in Rows, NEW s \in Nat, NEW present \in Rows,
           NEW events, Descends(tagged, s, present, present, events), NEW k \in Entries, NEW fresh,
           \/ fresh \in Nat /\ fresh > s /\ "write" \in events
           \/ fresh = Nothing /\ "drop" \in events
           \/ fresh = 0 /\ "import" \in events /\ present[k] = Nothing
    PROVE  LET then == [present EXCEPT ![k] = fresh] IN Descends(tagged, s, then, then, events)
<1> DEFINE then == [present EXCEPT ![k] = fresh]
<1>1. /\ then[k] = fresh /\ \A j \in Entries : j # k => then[j] = present[j]
      /\ Nothing \notin Nat /\ Stamps \subseteq Nat
  BY DashboardAssumption DEF Rows, Stamps
<1> HIDE DEF then
<1>2. ASSUME "drop" \notin events, NEW j \in Entries
      PROVE  /\ then[j] # Nothing => then[j] >= then[j]
             /\ tagged[j] # Nothing => then[j] # Nothing /\ (then[j] = tagged[j] \/ then[j] > s)
  <2>1. /\ present[j] # Nothing => present[j] >= present[j]
        /\ tagged[j] # Nothing => present[j] # Nothing /\ (present[j] = tagged[j] \/ present[j] > s)
    BY <1>2 DEF Descends
  <2>2. CASE j # k
    BY <1>1, <2>1, <2>2
  <2>3. CASE j = k
    BY <1>1, <1>2, <2>1, <2>3
  <2> QED
    BY <2>2, <2>3
<1>3. ASSUME events \cap {"import", "write"} = {}, NEW j \in Entries
      PROVE  then[j] \in {tagged[j], Nothing}
  <2>1. present[j] \in {tagged[j], Nothing}
    BY <1>3 DEF Descends
  <2>2. then[k] = Nothing
    BY <1>1, <1>3
  <2> QED
    BY <1>1, <2>1, <2>2
<1>4. ASSUME "import" \notin events, NEW j \in Entries
      PROVE  then[j] \in {tagged[j], Nothing} \/ then[j] > s
  <2>1. present[j] \in {tagged[j], Nothing} \/ present[j] > s
    BY <1>4 DEF Descends
  <2> QED
    BY <1>1, <1>4, <2>1
<1> QED
  BY <1>2, <1>3, <1>4 DEF Descends, then

\* The tag of the grades was taken at some stamp up to now, of rows from which
\* those answered and those of now descend.
GradesSince(tag, answered, present, gone, n, events) ==
    \E tagged \in Rows, was \in SUBSET Earlier, s \in 0..n :
        /\ tag = Watermark(Live(tagged, was)) /\ UpTo(tagged, s)
        /\ Unstamped(tagged, was) /\ Grows(was, gone, events)
        /\ Descends(tagged, s, answered, present, events)

Later(before, fresh) == fresh = before \/ Watermark(before).newest < Watermark(fresh).newest

\* A time of day d and part h.
NotAfter(d, h, e, i) == d < e \/ (d = e /\ h <= i)
BucketAt(d, h) == <<d, IF h <= 1 THEN 0 ELSE h>>
ServerDayAt(d, h) == IF ServerIsUtc /\ h = 0 THEN d - 1 ELSE d
Shown(q, p, f, d, h) ==
    [quarters |-> q, profile |-> p, face |-> f, day |-> d, period |-> ServerDayAt(d, h)]

\* The same of the rest: the tag, then the answer, then now.
OthersSince(tag, answered, q, d, h, events) ==
    \E tagged \in QuarterRows, d0 \in Nat, h0 \in 0..4, d1 \in Nat, h1 \in 0..4 :
        /\ tag.quarters = Watermark(tagged) /\ tag.bucket = BucketAt(d0, h0)
        /\ answered.day = d1 /\ answered.period = ServerDayAt(d1, h1)
        /\ NotAfter(d0, h0, d1, h1) /\ NotAfter(d1, h1, d, h)
        /\ answered.quarters \in QuarterRows
        /\ "overlap" \notin events
              => Later(tagged, answered.quarters) /\ Later(answered.quarters, q)
        /\ "profile" \notin events => answered.profile = tag.profile

LEMMA GrowsMore ==
    ASSUME NEW was, NEW gone, NEW fresh, NEW events, NEW more, events \subseteq more,
           Grows(was, gone, events), Grows(gone, fresh, more)
    PROVE  Grows(was, fresh, more)
  BY DEF Grows

LEMMA GradesSinceMore ==
    ASSUME NEW tag, NEW answered, NEW present, NEW n \in Nat, NEW m \in Nat, n <= m,
           NEW events, NEW more, events \subseteq more,
           NEW gone, NEW fresh, Grows(gone, fresh, more),
           GradesSince(tag, answered, present, gone, n, events)
    PROVE  GradesSince(tag, answered, present, fresh, m, more)
<1>1. PICK tagged \in Rows, was \in SUBSET Earlier, s \in 0..n :
         /\ tag = Watermark(Live(tagged, was)) /\ UpTo(tagged, s)
         /\ Unstamped(tagged, was) /\ Grows(was, gone, events)
         /\ Descends(tagged, s, answered, present, events)
  BY DEF GradesSince
<1>2. s \in 0..m
  OBVIOUS
<1>3. Descends(tagged, s, answered, present, more)
  BY <1>1, DescendsMore
<1>4. Grows(was, fresh, more)
  BY <1>1, GrowsMore
<1> QED
  BY <1>1, <1>2, <1>3, <1>4 DEF GradesSince

LEMMA GradesChangedAfter ==
    ASSUME NEW tag, NEW answered \in Rows, NEW present \in Rows, NEW n \in Nat, NEW m \in Nat,
           n <= m, NEW events, NEW more, events \subseteq more, UpTo(answered, n), NEW gone,
           GradesSince(tag, answered, present, gone, n, events), NEW k \in Entries, NEW fresh,
           \/ fresh = n + 1 /\ m = n + 1
           \/ fresh = Nothing /\ "drop" \in more
           \/ fresh = 0 /\ "import" \in more /\ present[k] = Nothing
    PROVE  GradesSince(tag, answered, [present EXCEPT ![k] = fresh], gone, m, more)
<1>1. PICK tagged \in Rows, was \in SUBSET Earlier, s \in 0..n :
         /\ tag = Watermark(Live(tagged, was)) /\ UpTo(tagged, s)
         /\ Unstamped(tagged, was) /\ Grows(was, gone, events)
         /\ Descends(tagged, s, answered, present, events)
  BY DEF GradesSince
<1>2. s \in 0..m /\ s \in Nat
  OBVIOUS
<1>3. Descends(tagged, s, answered, present, more) /\ Grows(was, gone, more)
  BY <1>1, DescendsMore DEF Grows
<1>4. \/ fresh \in Nat /\ fresh > s /\ UpTo(answered, fresh)
      \/ fresh = Nothing /\ "drop" \in more
      \/ fresh = 0 /\ "import" \in more /\ present[k] = Nothing
  <2>1. CASE fresh = n + 1
    <3>1. \A j \in Entries : answered[j] # Nothing => answered[j] \in Nat /\ answered[j] <= n
      BY DashboardAssumption DEF UpTo, Rows, Stamps
    <3>2. UpTo(answered, fresh)
      BY <2>1, <3>1 DEF UpTo
    <3> QED
      BY <2>1, <3>2
  <2> QED
    BY <2>1
<1> DEFINE then == [present EXCEPT ![k] = fresh]
<1>5. Descends(tagged, s, answered, then, more)
  BY <1>2, <1>3, <1>4, ChangedAfter
<1> HIDE DEF then
<1>6. GradesSince(tag, answered, then, gone, m, more)
  BY <1>1, <1>2, <1>3, <1>5 DEF GradesSince
<1> QED
  BY <1>6 DEF then

LEMMA GradesChangedBefore ==
    ASSUME NEW tag, NEW present \in Rows, NEW n \in Nat, NEW m \in Nat, n <= m,
           NEW events, NEW more, events \subseteq more, NEW gone,
           GradesSince(tag, present, present, gone, n, events), NEW k \in Entries, NEW fresh,
           \/ fresh = n + 1 /\ "write" \in more
           \/ fresh = Nothing /\ "drop" \in more
           \/ fresh = 0 /\ "import" \in more /\ present[k] = Nothing
    PROVE  LET then == [present EXCEPT ![k] = fresh]
           IN  GradesSince(tag, then, then, gone, m, more)
<1>1. PICK tagged \in Rows, was \in SUBSET Earlier, s \in 0..n :
         /\ tag = Watermark(Live(tagged, was)) /\ UpTo(tagged, s)
         /\ Unstamped(tagged, was) /\ Grows(was, gone, events)
         /\ Descends(tagged, s, present, present, events)
  BY DEF GradesSince
<1>2. s \in 0..m /\ s \in Nat
  OBVIOUS
<1>3. Descends(tagged, s, present, present, more) /\ Grows(was, gone, more)
  BY <1>1, DescendsMore DEF Grows
<1> DEFINE then == [present EXCEPT ![k] = fresh]
<1>4. Descends(tagged, s, then, then, more)
  BY <1>2, <1>3, ChangedBefore
<1> HIDE DEF then
<1>5. GradesSince(tag, then, then, gone, m, more)
  BY <1>1, <1>2, <1>3, <1>4 DEF GradesSince
<1> QED
  BY <1>5 DEF then

LEMMA LaterIsTransitive ==
    ASSUME NEW a \in QuarterRows, NEW b \in QuarterRows, NEW c \in QuarterRows,
           Later(a, b), Later(b, c)
    PROVE  Later(a, c)
<1>1. \A t \in QuarterRows : Watermark(t).newest \in Nat
  BY NewestStamp DEF QuarterRows, Stamps
<1> QED
  BY <1>1 DEF Later

LEMMA OthersChangedAfter ==
    ASSUME NEW tag, NEW answered, NEW q \in QuarterRows, NEW q2 \in QuarterRows,
           NEW d \in Nat, NEW h \in 0..4, NEW d2 \in Nat, NEW h2 \in 0..4, NotAfter(d, h, d2, h2),
           NEW events, NEW more, events \subseteq more,
           OthersSince(tag, answered, q, d, h, events),
           "overlap" \notin more => Later(q, q2)
    PROVE  OthersSince(tag, answered, q2, d2, h2, more)
<1>1. PICK tagged \in QuarterRows, d0 \in Nat, h0 \in 0..4, d1 \in Nat, h1 \in 0..4 :
         /\ tag.quarters = Watermark(tagged) /\ tag.bucket = BucketAt(d0, h0)
         /\ answered.day = d1 /\ answered.period = ServerDayAt(d1, h1)
         /\ NotAfter(d0, h0, d1, h1) /\ NotAfter(d1, h1, d, h)
         /\ answered.quarters \in QuarterRows
         /\ "overlap" \notin events
               => Later(tagged, answered.quarters) /\ Later(answered.quarters, q)
         /\ "profile" \notin events => answered.profile = tag.profile
  BY DEF OthersSince
<1>2. NotAfter(d1, h1, d2, h2)
  BY <1>1 DEF NotAfter
<1>3. "overlap" \notin more => Later(tagged, answered.quarters) /\ Later(answered.quarters, q2)
  BY <1>1, LaterIsTransitive
<1>4. "profile" \notin more => answered.profile = tag.profile
  BY <1>1
<1> QED
  BY <1>1, <1>2, <1>3, <1>4 DEF OthersSince

LEMMA OthersChangedBefore ==
    ASSUME NEW tag, NEW q \in QuarterRows, NEW q2 \in QuarterRows, NEW p, NEW p2, NEW f, NEW f2,
           NEW d \in Nat, NEW h \in 0..4, NEW d2 \in Nat, NEW h2 \in 0..4, NotAfter(d, h, d2, h2),
           NEW events, NEW more, events \subseteq more,
           OthersSince(tag, Shown(q, p, f, d, h), q, d, h, events),
           "overlap" \notin more => Later(q, q2),
           p2 = p \/ "profile" \in more
    PROVE  OthersSince(tag, Shown(q2, p2, f2, d2, h2), q2, d2, h2, more)
<1> DEFINE present == Shown(q, p, f, d, h)
           then == Shown(q2, p2, f2, d2, h2)
<1>0. /\ present.quarters = q /\ present.profile = p /\ present.day = d
      /\ then.quarters = q2 /\ then.profile = p2
      /\ then.day = d2 /\ then.period = ServerDayAt(d2, h2)
  BY DEF Shown
<1> HIDE DEF present, then
<1>1. PICK tagged \in QuarterRows, d0 \in Nat, h0 \in 0..4, d1 \in Nat, h1 \in 0..4 :
         /\ tag.quarters = Watermark(tagged) /\ tag.bucket = BucketAt(d0, h0)
         /\ NotAfter(d0, h0, d1, h1) /\ NotAfter(d1, h1, d, h)
         /\ "overlap" \notin events => Later(tagged, present.quarters)
         /\ "profile" \notin events => present.profile = tag.profile
  BY DEF OthersSince, present
<1>2. NotAfter(d0, h0, d2, h2) /\ NotAfter(d2, h2, d2, h2)
  BY <1>1 DEF NotAfter
<1>3. "overlap" \notin more => Later(tagged, q2) /\ Later(q2, q2)
  BY <1>0, <1>1, LaterIsTransitive DEF Later
<1>4. "profile" \notin more => then.profile = tag.profile
  BY <1>0, <1>1
<1>5. OthersSince(tag, then, q2, d2, h2, more)
  BY <1>0, <1>1, <1>2, <1>3, <1>4, Zenon DEF OthersSince
<1> QED
  BY <1>5 DEF then

\* The same mark of the rest, with what excuses each part of it.
LEMMA SameMarkSameOthers ==
    ASSUME NEW tag, NEW answered, NEW q \in QuarterRows, NEW d \in Nat, NEW h \in 0..4,
           NEW events, OthersSince(tag, answered, q, d, h, events),
           tag.quarters = Watermark(q), tag.bucket = BucketAt(d, h)
    PROVE  /\ "overlap" \notin events => answered.quarters = q
           /\ "profile" \notin events => answered.profile = tag.profile
           /\ answered.day = d
           /\ answered.period = ServerDayAt(d, h) \/ (ServerIsUtc /\ h = 1)
<1>1. PICK tagged \in QuarterRows, d0 \in Nat, h0 \in 0..4, d1 \in Nat, h1 \in 0..4 :
         /\ tag.quarters = Watermark(tagged) /\ tag.bucket = BucketAt(d0, h0)
         /\ answered.day = d1 /\ answered.period = ServerDayAt(d1, h1)
         /\ NotAfter(d0, h0, d1, h1) /\ NotAfter(d1, h1, d, h)
         /\ answered.quarters \in QuarterRows
         /\ "overlap" \notin events
               => Later(tagged, answered.quarters) /\ Later(answered.quarters, q)
         /\ "profile" \notin events => answered.profile = tag.profile
  BY DEF OthersSince
<1>2. d0 = d /\ (IF h0 <= 1 THEN 0 ELSE h0) = (IF h <= 1 THEN 0 ELSE h)
  BY <1>1 DEF BucketAt
<1>3. d1 = d /\ h0 <= h1 /\ h1 <= h
  BY <1>1, <1>2 DEF NotAfter
<1>4. ServerDayAt(d1, h1) = ServerDayAt(d, h) \/ (ServerIsUtc /\ h = 1)
  <2>1. CASE h = 0
    BY <1>3, <2>1 DEF ServerDayAt
  <2>2. CASE h = 1
    BY <1>3, <2>2 DEF ServerDayAt
  <2>3. CASE h > 1
    BY <1>2, <1>3, <2>3 DEF ServerDayAt
  <2> QED
    BY <2>1, <2>2, <2>3
<1>5. ASSUME "overlap" \notin events PROVE answered.quarters = q
  <2>0. Later(tagged, answered.quarters) /\ Later(answered.quarters, q)
    BY <1>1, <1>5
  <2>1. /\ Watermark(q).newest \in Nat /\ Watermark(tagged).newest = Watermark(q).newest
        /\ Watermark(answered.quarters).newest \in Nat
    BY <1>1, NewestStamp DEF QuarterRows, Stamps
  <2>2. Watermark(tagged).newest <= Watermark(answered.quarters).newest
    <3>1. CASE answered.quarters = tagged
      BY <2>1, <3>1
    <3>2. CASE answered.quarters # tagged
      BY <2>0, <2>1, <3>2 DEF Later
    <3> QED
      BY <3>1, <3>2
  <2>3. ~ (Watermark(answered.quarters).newest < Watermark(q).newest)
    BY <2>1, <2>2
  <2> QED
    BY <2>0, <2>3 DEF Later
<1> QED
  BY <1>1, <1>3, <1>4, <1>5
-----------------------------------------------------------------------------
(* The dashboard's invariant.  NotModifiedIsTrue speaks of a page and of a  *)
(* tag that coincide; PageInv says how the rows of now came from those the  *)
(* tag and the page were made of, RequestInv the same of an answer that is  *)
(* under way, and TableInv that a stamp is never used twice and that rows   *)
(* of earlier days, which alone the archive takes, bear none.               *)

StoringInv ==
    /\ storing \in [Storers -> [cell : QuarterCells, stamp : Stamps] \cup {Nothing}]
    /\ \A s \in Storers : storing[s] # Nothing =>
          /\ storing[s].stamp \in 1..serial
          /\ \A c \in QuarterCells : quarters[c] # storing[s].stamp
          /\ \A r \in Storers : storing[r] # Nothing /\ storing[r].stamp = storing[s].stamp => r = s

TableInv ==
    /\ grades \in Rows /\ quarters \in QuarterRows
    /\ \A k \in Earlier : grades[k] \in {0, Nothing}
    /\ Unstamped(grades, shelved) /\ shelved \subseteq Aged
    /\ serial \in Stamps /\ today \in Nat /\ hours \in 0..4
    /\ profile \in Profiles /\ face \in Faces
    /\ UpTo(grades, serial)
    /\ \A c \in QuarterCells : quarters[c] # Nothing => quarters[c] <= serial
    /\ StoringInv

PageInv ==
    page # Nothing =>
        /\ page.body.grades \in Rows /\ UpTo(page.body.grades, serial)
        /\ GradesSince(page.tag.grades, page.body.grades, grades, shelved, serial, happened)
        /\ OthersSince(page.tag.others, page.body.others, quarters, today, hours, happened)
        /\ "face" \notin happened => page.body.others.face = face

RequestInv ==
    /\ request.at = "idle" => pending = {}
    /\ "face" \notin pending
    /\ request.at = "tag" => GradesSince(request.grades, grades, grades, shelved, serial, pending)
    /\ request.at \in {"body", "rest"} =>
          OthersSince(request.tag.others, Shown(quarters, profile, face, today, hours),
                      quarters, today, hours, pending)
    /\ request.at = "body" =>
          GradesSince(request.tag.grades, grades, grades, shelved, serial, pending)
    /\ request.at = "rest" =>
          /\ request.body \in Rows /\ UpTo(request.body, serial)
          /\ GradesSince(request.tag.grades, request.body, grades, shelved, serial, pending)

PageTold == TableInv /\ PageInv /\ RequestInv

LEMMA PageStart == ASSUME DashboardInit PROVE PageTold
<1> USE DashboardAssumption
<1>1. TableInv
  <2>1. 0 \in Stamps
    BY DEF Stamps
  <2>2. grades \in Rows /\ UpTo(grades, serial) /\ \A k \in Earlier : grades[k] \in {0, Nothing}
    BY <2>1 DEF DashboardInit, Rows, UpTo, Entries
  <2>3. quarters \in QuarterRows /\ \A c \in QuarterCells : quarters[c] = 0
    BY <2>1 DEF DashboardInit, QuarterRows
  <2>4. StoringInv
    BY DEF DashboardInit, StoringInv
  <2> QED
    BY <2>1, <2>2, <2>3, <2>4 DEF DashboardInit, TableInv, Unstamped
<1>2. PageInv
  BY DEF DashboardInit, PageInv
<1>3. RequestInv
  BY DEF DashboardInit, RequestInv
<1> QED
  BY <1>1, <1>2, <1>3 DEF PageTold

LEMMA UpToMore ==
    ASSUME NEW lines \in Rows, NEW m \in Nat, NEW n \in Nat, m <= n, UpTo(lines, m)
    PROVE  UpTo(lines, n)
<1>1. ASSUME NEW k \in Entries, lines[k] # Nothing PROVE lines[k] <= n
  <2>1. lines[k] \in Stamps /\ lines[k] <= m
    BY <1>1 DEF UpTo, Rows
  <2>2. lines[k] \in Nat
    BY <2>1, DashboardAssumption DEF Stamps
  <2> QED
    BY <2>1, <2>2
<1> QED
  BY <1>1 DEF UpTo

LEMMA Noted ==
    ASSUME NEW event, Note(event)
    PROVE  /\ page # Nothing => /\ happened \subseteq happened'
                                /\ event \notin {"write", "profile"} => event \in happened'
           /\ request.at # "idle" => /\ pending \subseteq pending'
                                     /\ event # "face" => event \in pending'
           /\ request.at = "idle" => pending' = {}
           /\ "face" \notin pending => "face" \notin pending'
  BY DEF Note

\* A row of the grades changes: one of today, or one of before that was missing.
LEMMA GradeStep ==
    ASSUME PageTold, NEW k \in Entries, NEW event, Note(event), NEW fresh,
           grades' = [grades EXCEPT ![k] = fresh],
           UNCHANGED <<shelved, quarters, storing, profile, face, today, hours, page, request>>,
           \/ /\ event = "write" /\ fresh = serial + 1 /\ serial' = serial + 1
              /\ serial' \in Stamps /\ k \in Todays
           \/ event = "drop" /\ fresh = Nothing /\ serial' = serial /\ k \in Todays
           \/ event = "import" /\ fresh = 0 /\ serial' = serial /\ grades[k] = Nothing
    PROVE  PageTold'
<1>0. /\ TableInv /\ PageInv /\ RequestInv
      /\ grades \in Rows /\ UpTo(grades, serial) /\ serial \in Nat /\ serial' \in Nat
      /\ quarters \in QuarterRows /\ today \in Nat /\ hours \in 0..4
      /\ serial <= serial' /\ Nothing \notin Nat /\ Stamps \subseteq Nat
  BY DashboardAssumption DEF PageTold, TableInv, Stamps
<1>1. /\ grades'[k] = fresh /\ \A j \in Entries : j # k => grades'[j] = grades[j]
      /\ grades' \in Rows
  <2>1. fresh \in Stamps \cup {Nothing}
    BY DashboardAssumption DEF Stamps
  <2> QED
    BY <1>0, <2>1 DEF Rows
<1>2. UpTo(grades, serial)'
  <2>1. ASSUME NEW j \in Entries, grades'[j] # Nothing PROVE grades'[j] <= serial'
    <3>1. CASE j = k
      BY <1>0, <1>1, <2>1, <3>1
    <3>2. CASE j # k
      <4>1. grades'[j] = grades[j] /\ grades[j] <= serial /\ grades[j] \in Nat
        BY <1>0, <1>1, <2>1, <3>2 DEF UpTo, Rows
      <4> QED
        BY <1>0, <4>1
    <3> QED
      BY <3>1, <3>2
  <2> QED
    BY <2>1 DEF UpTo
<1>3. TableInv'
  <2>1. serial' \in Stamps /\ 1..serial \subseteq 1..serial'
    BY <1>0 DEF TableInv
  <2>2. \A c \in QuarterCells : quarters[c] # Nothing => quarters[c] <= serial'
    <3>1. ASSUME NEW c \in QuarterCells, quarters[c] # Nothing PROVE quarters[c] <= serial'
      <4>1. quarters[c] \in Stamps /\ quarters[c] <= serial
        BY <1>0, <3>1 DEF TableInv, QuarterRows
      <4>2. quarters[c] \in Nat
        BY <1>0, <4>1
      <4> QED
        BY <1>0, <4>1, <4>2
    <3> QED
      BY <3>1
  <2>3. \A j \in Earlier : grades'[j] \in {0, Nothing}
    <3>1. ASSUME NEW j \in Earlier PROVE grades'[j] \in {0, Nothing}
      <4>1. CASE j = k
        <5>1. j \notin Todays
          BY DashboardAssumption
        <5> QED
          BY <1>1, <4>1, <5>1
      <4>2. CASE j # k
        BY <1>0, <1>1, <4>2 DEF TableInv, Entries
      <4> QED
        BY <4>1, <4>2
    <3> QED
      BY <3>1
  <2>4. Unstamped(grades', shelved)
    <3>1. shelved \subseteq Earlier /\ \A j \in shelved : grades[j] = 0
      BY <1>0 DEF TableInv, Unstamped
    <3>2. k \notin shelved
      BY <1>0, <3>1, DashboardAssumption
    <3> QED
      BY <1>1, <3>1, <3>2 DEF Unstamped, Entries
  <2>5. StoringInv'
    BY <1>0, <2>1 DEF TableInv, StoringInv
  <2> QED
    BY <1>0, <1>1, <1>2, <2>1, <2>2, <2>3, <2>4, <2>5 DEF TableInv
<1>4. /\ page # Nothing => happened \subseteq happened'
                           /\ (event # "write" => event \in happened')
      /\ request.at # "idle" => pending \subseteq pending' /\ event \in pending'
      /\ request.at = "idle" => pending' = {}
      /\ "face" \notin pending'
  BY <1>0, Noted DEF RequestInv
<1>5. ASSUME NEW tag, NEW answered \in Rows, UpTo(answered, serial), NEW events, NEW more,
             GradesSince(tag, answered, grades, shelved, serial, events),
             events \subseteq more, event # "write" => event \in more
      PROVE  GradesSince(tag, answered, grades', shelved, serial', more)
  <2>1. GradesSince(tag, answered, [grades EXCEPT ![k] = fresh], shelved, serial', more)
    BY <1>0, <1>5, GradesChangedAfter
  <2> QED
    BY <2>1
<1>6. ASSUME NEW tag, NEW events, NEW more,
             GradesSince(tag, grades, grades, shelved, serial, events),
             events \subseteq more, event \in more
      PROVE  GradesSince(tag, grades', grades', shelved, serial', more)
  <2> DEFINE then == [grades EXCEPT ![k] = fresh]
  <2>1. GradesSince(tag, then, then, shelved, serial', more)
    BY <1>0, <1>6, GradesChangedBefore
  <2> QED
    BY <2>1
<1>7. ASSUME NEW answered \in Rows, UpTo(answered, serial) PROVE UpTo(answered, serial')
  BY <1>0, <1>7, UpToMore
<1>0a. NotAfter(today, hours, today, hours)
  BY <1>0 DEF NotAfter
<1>8. PageInv'
  <2> SUFFICES ASSUME page # Nothing
               PROVE  /\ page.body.grades \in Rows /\ UpTo(page.body.grades, serial')
                      /\ GradesSince(page.tag.grades, page.body.grades, grades', shelved, serial',
                                     happened')
                      /\ OthersSince(page.tag.others, page.body.others, quarters, today, hours,
                                     happened')
                      /\ "face" \notin happened' => page.body.others.face = face
    BY DEF PageInv
  <2>1. /\ page.body.grades \in Rows /\ UpTo(page.body.grades, serial)
        /\ GradesSince(page.tag.grades, page.body.grades, grades, shelved, serial, happened)
        /\ OthersSince(page.tag.others, page.body.others, quarters, today, hours, happened)
        /\ "face" \notin happened => page.body.others.face = face
    BY <1>0 DEF PageInv
  <2>2. GradesSince(page.tag.grades, page.body.grades, grades', shelved, serial', happened')
    BY <1>4, <1>5, <2>1
  <2>3. OthersSince(page.tag.others, page.body.others, quarters, today, hours, happened')
    BY <1>0, <1>0a, <1>4, <2>1, OthersChangedAfter DEF Later
  <2> QED
    BY <1>4, <1>7, <2>1, <2>2, <2>3
<1>9. RequestInv'
  <2>1. request.at = "tag"
           => GradesSince(request.grades, grades', grades', shelved, serial', pending')
    BY <1>0, <1>4, <1>6 DEF RequestInv
  <2>2. request.at = "body"
           => GradesSince(request.tag.grades, grades', grades', shelved, serial', pending')
    BY <1>0, <1>4, <1>6 DEF RequestInv
  <2>3. request.at = "rest"
           => /\ request.body \in Rows /\ UpTo(request.body, serial')
              /\ GradesSince(request.tag.grades, request.body, grades', shelved, serial', pending')
    BY <1>0, <1>4, <1>5, <1>7 DEF RequestInv
  <2>4. request.at \in {"body", "rest"}
           => OthersSince(request.tag.others, Shown(quarters, profile, face, today, hours),
                          quarters, today, hours, pending')
    BY <1>0, <1>0a, <1>4, OthersChangedBefore DEF RequestInv, Later
  <2> QED
    BY <1>4, <2>1, <2>2, <2>3, <2>4 DEF RequestInv
<1> QED
  BY <1>3, <1>8, <1>9 DEF PageTold

\* Anything else in the database changes, or time passes.
LEMMA OtherStep ==
    ASSUME PageTold, TableInv', UNCHANGED <<grades, page, request>>,
           serial <= serial', NotAfter(today, hours, today', hours'),
           page # Nothing => /\ happened \subseteq happened'
                             /\ "overlap" \notin happened' => Later(quarters, quarters')
                             /\ Grows(shelved, shelved', happened')
                             /\ face' = face \/ "face" \in happened',
           request.at # "idle" => /\ pending \subseteq pending'
                                  /\ "overlap" \notin pending' => Later(quarters, quarters')
                                  /\ Grows(shelved, shelved', pending')
                                  /\ profile' = profile \/ "profile" \in pending',
           request.at = "idle" => pending' = {},
           "face" \notin pending'
    PROVE  PageTold'
<1>0. /\ TableInv /\ PageInv /\ RequestInv
      /\ grades \in Rows /\ serial \in Nat /\ serial' \in Nat
      /\ quarters \in QuarterRows /\ today \in Nat /\ hours \in 0..4
      /\ quarters' \in QuarterRows /\ today' \in Nat /\ hours' \in 0..4
      /\ Nothing \notin Nat /\ Stamps \subseteq Nat
  BY DashboardAssumption DEF PageTold, TableInv, Stamps
<1>1. ASSUME NEW answered \in Rows, UpTo(answered, serial) PROVE UpTo(answered, serial')
  BY <1>0, <1>1, UpToMore
<1>2. PageInv'
  <2> SUFFICES ASSUME page # Nothing
               PROVE  /\ page.body.grades \in Rows /\ UpTo(page.body.grades, serial')
                      /\ GradesSince(page.tag.grades, page.body.grades, grades, shelved', serial',
                                     happened')
                      /\ OthersSince(page.tag.others, page.body.others, quarters', today',
                                     hours', happened')
                      /\ "face" \notin happened' => page.body.others.face = face'
    BY DEF PageInv
  <2>1. /\ page.body.grades \in Rows /\ UpTo(page.body.grades, serial)
        /\ GradesSince(page.tag.grades, page.body.grades, grades, shelved, serial, happened)
        /\ OthersSince(page.tag.others, page.body.others, quarters, today, hours, happened)
        /\ "face" \notin happened => page.body.others.face = face
    BY <1>0 DEF PageInv
  <2>2. GradesSince(page.tag.grades, page.body.grades, grades, shelved', serial', happened')
    <3>1. happened \subseteq happened' /\ Grows(shelved, shelved', happened') /\ serial <= serial'
      OBVIOUS
    <3> QED
      BY <1>0, <2>1, <3>1, GradesSinceMore
  <2>3. OthersSince(page.tag.others, page.body.others, quarters', today', hours', happened')
    <3>1. /\ happened \subseteq happened' /\ NotAfter(today, hours, today', hours')
          /\ "overlap" \notin happened' => Later(quarters, quarters')
      OBVIOUS
    <3> DEFINE tag == page.tag.others
               answered == page.body.others
    <3> HIDE DEF tag, answered
    <3>2. OthersSince(tag, answered, quarters, today, hours, happened)
      BY <2>1 DEF tag, answered
    <3>3. OthersSince(tag, answered, quarters', today', hours', happened')
      BY <1>0, <3>1, <3>2, OthersChangedAfter
    <3> QED
      BY <3>3 DEF tag, answered
  <2> QED
    BY <1>1, <2>1, <2>2, <2>3
<1>3. RequestInv'
  <2>1. request.at = "tag"
           => GradesSince(request.grades, grades, grades, shelved', serial', pending')
    BY <1>0, GradesSinceMore DEF RequestInv
  <2>2. request.at = "body"
           => GradesSince(request.tag.grades, grades, grades, shelved', serial', pending')
    BY <1>0, GradesSinceMore DEF RequestInv
  <2>3. request.at = "rest"
           => /\ request.body \in Rows /\ UpTo(request.body, serial')
              /\ GradesSince(request.tag.grades, request.body, grades, shelved', serial', pending')
    BY <1>0, <1>1, GradesSinceMore DEF RequestInv
  <2>4. request.at \in {"body", "rest"}
           => OthersSince(request.tag.others, Shown(quarters', profile', face', today', hours'),
                          quarters', today', hours', pending')
    BY <1>0, OthersChangedBefore DEF RequestInv
  <2> QED
    BY <2>1, <2>2, <2>3, <2>4 DEF RequestInv
<1> QED
  BY <1>2, <1>3 DEF PageTold

\* A quarter grade is taken up, stored, the archive takes rows, the rest changes,
\* time passes.
LEMMA OpenedStep ==
    ASSUME PageTold, NEW s \in Storers, NEW c \in QuarterCells, QuarterBegins(s, c)
    PROVE  PageTold'
<1>0. /\ TableInv /\ RequestInv /\ serial \in Nat /\ serial' = serial + 1 /\ serial' \in Stamps
      /\ Nothing \notin Nat /\ Stamps \subseteq Nat /\ serial' \in 1..serial'
  BY DashboardAssumption DEF PageTold, TableInv, Stamps, QuarterBegins, NextSerial
<1>1. /\ storing' = [storing EXCEPT ![s] = [cell |-> c, stamp |-> serial']]
      /\ storing \in [Storers -> [cell : QuarterCells, stamp : Stamps] \cup {Nothing}]
  BY <1>0 DEF QuarterBegins, TableInv, StoringInv
<1>2. /\ storing'[s].stamp = serial' /\ \A r \in Storers : r # s => storing'[r] = storing[r]
      /\ storing' \in [Storers -> [cell : QuarterCells, stamp : Stamps] \cup {Nothing}]
  BY <1>0, <1>1
<1>3. UNCHANGED <<grades, shelved, quarters, profile, face, today, hours, page, request,
                  happened, pending>>
  BY DEF QuarterBegins, Server, Excuses
<1>4. ASSUME NEW d \in QuarterCells, quarters[d] # Nothing
      PROVE  quarters[d] \in Nat /\ quarters[d] <= serial
  BY <1>0, <1>4 DEF TableInv, QuarterRows
<1>5. ASSUME NEW r \in Storers, storing[r] # Nothing
      PROVE  /\ storing[r].stamp \in 1..serial
             /\ \A d \in QuarterCells : quarters[d] # storing[r].stamp
             /\ \A q \in Storers :
                   storing[q] # Nothing /\ storing[q].stamp = storing[r].stamp => q = r
  BY <1>0, <1>5 DEF TableInv, StoringInv
<1>6. ASSUME NEW r \in Storers, storing'[r] # Nothing
      PROVE  /\ storing'[r].stamp \in 1..serial'
             /\ \A d \in QuarterCells : quarters[d] # storing'[r].stamp
             /\ \A q \in Storers :
                   storing'[q] # Nothing /\ storing'[q].stamp = storing'[r].stamp => q = r
  <2>1. \A q \in Storers : q # s /\ storing'[q] # Nothing => storing'[q].stamp \in 1..serial
    BY <1>2, <1>5
  <2>2. CASE r = s
    BY <1>0, <1>2, <1>4, <2>1, <2>2
  <2>3. CASE r # s
    BY <1>0, <1>2, <1>5, <1>6, <2>1, <2>3
  <2> QED
    BY <2>2, <2>3
<1>7. StoringInv'
  BY <1>2, <1>3, <1>6 DEF StoringInv
<1>8. TableInv'
  <2>1. UpTo(grades, serial') /\ \A d \in QuarterCells : quarters[d] # Nothing => quarters[d] <= serial'
    BY <1>0, <1>4, UpToMore DEF TableInv
  <2> QED
    BY <1>0, <1>3, <1>7, <2>1 DEF TableInv
<1> QED
  <2>1. NotAfter(today, hours, today', hours') /\ serial <= serial'
    BY <1>0, <1>3 DEF TableInv, NotAfter
  <2>2. (request.at = "idle" => pending' = {}) /\ "face" \notin pending'
    BY <1>0, <1>3 DEF RequestInv
  <2> QED
    BY <1>3, <1>8, <2>1, <2>2, OtherStep DEF Later, Grows

LEMMA StoredStep ==
    ASSUME PageTold, NEW s \in Storers, QuarterCommits(s)
    PROVE  PageTold'
<1> DEFINE cell == storing[s].cell
           stamp == storing[s].stamp
<1>0. /\ TableInv /\ RequestInv /\ serial \in Nat /\ Nothing \notin Nat /\ Stamps \subseteq Nat
      /\ quarters \in QuarterRows
  BY DashboardAssumption DEF PageTold, TableInv, Stamps
<1>1. /\ storing[s] # Nothing /\ storing' = [storing EXCEPT ![s] = Nothing]
      /\ quarters' = [quarters EXCEPT ![cell] = stamp]
      /\ UNCHANGED <<grades, shelved, profile, face, serial, today, hours, page, request>>
      /\ IF stamp < Watermark(quarters).newest THEN Note("overlap")
         ELSE UNCHANGED <<happened, pending>>
  BY DEF QuarterCommits, Server, Excuses
<1>2. /\ storing \in [Storers -> [cell : QuarterCells, stamp : Stamps] \cup {Nothing}]
      /\ cell \in QuarterCells /\ stamp \in Stamps /\ stamp \in 1..serial
      /\ \A d \in QuarterCells : quarters[d] # stamp
      /\ \A q \in Storers : storing[q] # Nothing /\ storing[q].stamp = stamp => q = s
  BY <1>0, <1>1 DEF TableInv, StoringInv
<1> HIDE DEF cell, stamp
<1>3. /\ quarters'[cell] = stamp /\ quarters' \in QuarterRows
      /\ \A d \in QuarterCells : d # cell => quarters'[d] = quarters[d]
  BY <1>0, <1>1, <1>2 DEF QuarterRows
<1>4. /\ storing' \in [Storers -> [cell : QuarterCells, stamp : Stamps] \cup {Nothing}]
      /\ storing'[s] = Nothing /\ \A r \in Storers : r # s => storing'[r] = storing[r]
  BY <1>1, <1>2
<1>5. \A d \in QuarterCells : quarters'[d] # Nothing => quarters'[d] <= serial
  <2>1. stamp <= serial
    BY <1>0, <1>2
  <2> QED
    BY <1>0, <1>3, <2>1 DEF TableInv
<1>6. ASSUME NEW r \in Storers, storing'[r] # Nothing
      PROVE  /\ storing'[r].stamp \in 1..serial
             /\ \A d \in QuarterCells : quarters'[d] # storing'[r].stamp
             /\ \A q \in Storers :
                   storing'[q] # Nothing /\ storing'[q].stamp = storing'[r].stamp => q = r
  <2>1. r # s /\ storing'[r] = storing[r]
    BY <1>4, <1>6
  <2>2. /\ storing[r].stamp \in 1..serial
        /\ \A d \in QuarterCells : quarters[d] # storing[r].stamp
        /\ \A q \in Storers :
              storing[q] # Nothing /\ storing[q].stamp = storing[r].stamp => q = r
    BY <1>0, <1>6, <2>1 DEF TableInv, StoringInv
  <2>3. storing[r].stamp # stamp
    BY <1>2, <1>6, <2>1
  <2> QED
    BY <1>3, <1>4, <2>1, <2>2, <2>3
<1>7. TableInv'
  <2>1. StoringInv'
    BY <1>1, <1>4, <1>6 DEF StoringInv
  <2> QED
    BY <1>0, <1>1, <1>3, <1>5, <2>1 DEF TableInv
<1>8. ~ (stamp < Watermark(quarters).newest) => Later(quarters, quarters')
  <2>1. /\ Watermark(quarters).newest \in Stamps
        /\ Stored(quarters) = {c \in QuarterCells : quarters[c] # Nothing}
        /\ Watermark(quarters).newest = 0
           \/ \E c \in Stored(quarters) : quarters[c] = Watermark(quarters).newest
    BY <1>0, NewestStamp DEF QuarterRows
  <2>2. /\ Watermark(quarters').newest \in Stamps
        /\ \A c \in QuarterCells :
              quarters'[c] # Nothing => quarters'[c] <= Watermark(quarters').newest
    BY <1>3, NewestStamp DEF QuarterRows
  <2>3. /\ stamp \in Nat /\ stamp # 0 /\ stamp # Nothing
        /\ Watermark(quarters).newest \in Nat /\ Watermark(quarters').newest \in Nat
    <3>1. stamp \in Nat /\ stamp # 0
      BY <1>0, <1>2
    <3>2. stamp # Nothing
      BY <1>0, <3>1
    <3>3. Watermark(quarters).newest \in Nat
      BY <1>0, <2>1
    <3>4. Watermark(quarters').newest \in Nat
      BY <1>0, <2>2
    <3> QED
      BY <3>1, <3>2, <3>3, <3>4
  <2>4. stamp # Watermark(quarters).newest
    <3>1. CASE Watermark(quarters).newest = 0
      BY <2>3, <3>1
    <3>2. CASE \E c \in QuarterCells : quarters[c] = Watermark(quarters).newest
      BY <1>2, <3>2
    <3> QED
      BY <2>1, <3>1, <3>2
  <2>5. stamp <= Watermark(quarters').newest
    BY <1>2, <1>3, <2>2, <2>3
  <2> QED
    BY <2>3, <2>4, <2>5 DEF Later
<1> QED
  <2>1. /\ serial <= serial' /\ NotAfter(today, hours, today', hours')
        /\ \A events : Grows(shelved, shelved', events)
    BY <1>0, <1>1 DEF TableInv, NotAfter, Grows
  <2>2. CASE stamp < Watermark(quarters).newest
    <3>1. /\ page # Nothing => happened \subseteq happened' /\ "overlap" \in happened'
          /\ request.at # "idle" => pending \subseteq pending' /\ "overlap" \in pending'
          /\ request.at = "idle" => pending' = {}
          /\ "face" \notin pending'
      BY <1>0, <1>1, <2>2, Noted DEF RequestInv
    <3> QED
      BY <1>1, <1>7, <2>1, <3>1, OtherStep
  <2>3. CASE ~ (stamp < Watermark(quarters).newest)
    <3>1. happened' = happened /\ pending' = pending /\ Later(quarters, quarters')
      BY <1>1, <1>8, <2>3
    <3>2. (request.at = "idle" => pending' = {}) /\ "face" \notin pending'
      BY <1>0, <3>1 DEF RequestInv
    <3> QED
      BY <1>1, <1>7, <2>1, <3>1, <3>2, OtherStep
  <2> QED
    BY <2>2, <2>3

\* The archive takes what it finds, which bears no stamp.
LEMMA ArchivedStep == ASSUME PageTold, ArchiveMoves PROVE PageTold'
<1>0. /\ TableInv /\ RequestInv /\ serial \in Nat /\ grades \in Rows
      /\ today \in Nat /\ hours \in 0..4
  BY DashboardAssumption DEF PageTold, TableInv, Stamps
<1>1. /\ shelved = {} /\ shelved' = Aged \cap Stored(grades) /\ Note("archive")
      /\ UNCHANGED <<grades, quarters, storing, profile, face, serial, today, hours, page, request>>
  BY DEF ArchiveMoves, Others, Server
<1>2. Unstamped(grades, shelved') /\ shelved' \subseteq Aged
  <2>1. Aged \subseteq Earlier /\ \A k \in Stored(grades) : grades[k] # Nothing
    BY DashboardAssumption DEF Stored
  <2> QED
    BY <1>0, <1>1, <2>1 DEF Unstamped, TableInv
<1>3. TableInv'
  <2>1. StoringInv'
    BY <1>0, <1>1 DEF TableInv, StoringInv
  <2> QED
    BY <1>0, <1>1, <1>2, <2>1 DEF TableInv
<1>4. /\ page # Nothing => happened \subseteq happened' /\ "archive" \in happened'
      /\ request.at # "idle" => pending \subseteq pending' /\ "archive" \in pending'
      /\ request.at = "idle" => pending' = {}
      /\ "face" \notin pending'
  BY <1>0, <1>1, Noted DEF RequestInv
<1>5. serial <= serial' /\ NotAfter(today, hours, today', hours')
  BY <1>0, <1>1 DEF NotAfter
<1> QED
  BY <1>1, <1>3, <1>4, <1>5, OtherStep DEF Later, Grows

LEMMA AroundStep ==
    ASSUME PageTold, ProfileChanges \/ FaceChanges \/ TimePasses
    PROVE  PageTold'
<1>0. /\ TableInv /\ RequestInv /\ serial \in Nat /\ today \in Nat /\ hours \in 0..4
      /\ profile \in Profiles /\ face \in Faces
  BY DashboardAssumption DEF PageTold, TableInv, Stamps
<1>1. /\ UNCHANGED <<grades, shelved, quarters, storing, serial, page, request>>
      /\ profile' \in Profiles /\ face' \in Faces /\ today' \in Nat /\ hours' \in 0..4
      /\ NotAfter(today, hours, today', hours')
  <2>1. CASE ProfileChanges
    BY <1>0, <2>1 DEF ProfileChanges, Server, NotAfter
  <2>2. CASE FaceChanges
    BY <1>0, <2>2 DEF FaceChanges, Server, NotAfter
  <2>3. CASE TimePasses
    BY <1>0, <2>3 DEF TimePasses, Server, NotAfter
  <2> QED
    BY <2>1, <2>2, <2>3
<1>2. /\ page # Nothing => /\ happened \subseteq happened'
                           /\ face' = face \/ "face" \in happened'
      /\ request.at # "idle" => /\ pending \subseteq pending'
                                /\ profile' = profile \/ "profile" \in pending'
      /\ request.at = "idle" => pending' = {}
      /\ "face" \notin pending'
  <2>0. "face" \notin pending /\ (request.at = "idle" => pending = {})
    BY <1>0 DEF RequestInv
  <2>1. CASE ProfileChanges
    <3>1. Note("profile") /\ face' = face
      BY <2>1 DEF ProfileChanges
    <3> QED
      BY <2>0, <3>1, Noted
  <2>2. CASE FaceChanges
    <3>1. Note("face") /\ profile' = profile
      BY <2>2 DEF FaceChanges
    <3> QED
      BY <2>0, <3>1, Noted
  <2>3. CASE TimePasses
    BY <2>0, <2>3 DEF TimePasses, Excuses
  <2> QED
    BY <2>1, <2>2, <2>3
<1>3. TableInv'
  <2>1. StoringInv'
    BY <1>0, <1>1 DEF TableInv, StoringInv
  <2> QED
    BY <1>0, <1>1, <2>1 DEF TableInv
<1>4. serial <= serial' /\ Later(quarters, quarters') /\ \A events : Grows(shelved, shelved', events)
  BY <1>0, <1>1 DEF Later, Grows
<1> QED
  BY <1>1, <1>2, <1>3, <1>4, OtherStep

\* The monitor and the importer.
LEMMA WrittenStep ==
    ASSUME PageTold, NEW k \in Entries, MonitorWrites(k) \/ MonitorDrops(k) \/ ImporterAdds(k)
    PROVE  PageTold'
<1>0. serial \in Nat /\ serial \in Stamps /\ Stored(grades) = {j \in Entries : grades[j] # Nothing}
  BY DashboardAssumption DEF PageTold, TableInv, Stamps, Stored, Rows
<1>1. CASE MonitorWrites(k)
  <2>1. /\ serial' = serial + 1 /\ serial' \in Stamps /\ k \in Todays
        /\ grades' = [grades EXCEPT ![k] = serial + 1] /\ Note("write")
        /\ UNCHANGED <<shelved, quarters, storing, profile, face, today, hours, page, request>>
    BY <1>0, <1>1, DashboardAssumption DEF MonitorWrites, NextSerial, Others, Server, Stamps
  <2> QED
    BY <2>1, GradeStep
<1>2. CASE MonitorDrops(k)
  <2>1. /\ serial' = serial /\ grades' = [grades EXCEPT ![k] = Nothing] /\ Note("drop")
        /\ k \in Todays
        /\ UNCHANGED <<shelved, quarters, storing, profile, face, today, hours, page, request>>
    BY <1>2 DEF MonitorDrops, Others, Server
  <2> QED
    BY <2>1, GradeStep
<1>3. CASE ImporterAdds(k)
  <2>1. /\ serial' = serial /\ grades' = [grades EXCEPT ![k] = 0] /\ Note("import")
        /\ grades[k] = Nothing
        /\ UNCHANGED <<shelved, quarters, storing, profile, face, today, hours, page, request>>
    BY <1>0, <1>3 DEF ImporterAdds, Others, Server
  <2> QED
    BY <2>1, GradeStep
<1> QED
  BY <1>1, <1>2, <1>3

LEMMA LiveIsLiveRows == LiveRows = Live(grades, shelved)
  BY DEF LiveRows, Live

\* A request leaves the database alone.
LEMMA TableKept ==
    ASSUME TableInv, UNCHANGED Database
    PROVE  /\ TableInv'
           /\ UNCHANGED <<grades, shelved, quarters, storing, profile, face, serial, today, hours>>
<1>1. UNCHANGED <<grades, shelved, quarters, storing, profile, face, serial, today, hours>>
  BY DEF Database, Others
<1> QED
  BY <1>1 DEF TableInv, StoringInv

\* The steps of a request.
LEMMA OpensStep == ASSUME PageTold, Opens PROVE PageTold'
<1>0. /\ TableInv /\ PageInv /\ RequestInv /\ serial \in Nat /\ grades \in Rows
      /\ UpTo(grades, serial) /\ Stamps \subseteq Nat /\ Unstamped(grades, shelved)
  BY DashboardAssumption DEF PageTold, TableInv, Stamps
<1>1. /\ request.at = "idle" /\ request' = [at |-> "tag", grades |-> Watermark(LiveRows)]
      /\ UNCHANGED Database /\ UNCHANGED <<page, happened, pending>>
  BY DEF Opens, Excuses
<1>2. /\ TableInv'
      /\ UNCHANGED <<grades, shelved, quarters, storing, profile, face, serial, today, hours>>
  BY <1>0, <1>1, TableKept
<1>3. pending' = {} /\ request'.at = "tag" /\ request'.grades = Watermark(Live(grades, shelved))
  BY <1>0, <1>1, LiveIsLiveRows DEF RequestInv
<1>4. GradesSince(Watermark(Live(grades, shelved)), grades, grades, shelved, serial, {})
  <2>1. \A k \in Entries : grades[k] # Nothing => grades[k] >= grades[k]
    <3>1. ASSUME NEW k \in Entries, grades[k] # Nothing PROVE grades[k] >= grades[k]
      <4>1. grades[k] \in Stamps
        BY <1>0, <3>1 DEF Rows
      <4>2. grades[k] \in Nat
        BY <1>0, <4>1
      <4> QED
        BY <4>2
    <3> QED
      BY <3>1
  <2>2. Descends(grades, serial, grades, grades, {})
    BY <2>1 DEF Descends
  <2>3. serial \in 0..serial /\ shelved \in SUBSET Earlier /\ Grows(shelved, shelved, {})
    BY <1>0 DEF Unstamped, Grows
  <2> QED
    BY <1>0, <2>2, <2>3 DEF GradesSince
<1>5. PageInv'
  BY <1>0, <1>1, <1>2 DEF PageInv
<1>6. RequestInv'
  BY <1>2, <1>3, <1>4 DEF RequestInv
<1> QED
  BY <1>2, <1>5, <1>6 DEF PageTold

LEMMA NotModifiedStep == ASSUME PageTold, NotModified PROVE PageTold'
<1>1. /\ request' = [at |-> "idle"] /\ pending' = {}
      /\ UNCHANGED Database /\ UNCHANGED <<page, happened>>
  BY DEF NotModified
<1>2. /\ TableInv'
      /\ UNCHANGED <<grades, shelved, quarters, storing, profile, face, serial, today, hours>>
  BY <1>1, TableKept DEF PageTold
<1>3. PageInv'
  BY <1>1, <1>2 DEF PageTold, PageInv
<1>4. RequestInv'
  BY <1>1 DEF RequestInv
<1> QED
  BY <1>2, <1>3, <1>4 DEF PageTold

LEMMA ModifiedStep == ASSUME PageTold, Modified PROVE PageTold'
<1>0. /\ TableInv /\ PageInv /\ RequestInv /\ quarters \in QuarterRows
      /\ today \in Nat /\ hours \in 0..4
  BY DEF PageTold, TableInv
<1>1. /\ request.at = "tag" /\ request' = [at |-> "body", tag |-> TagComputed]
      /\ UNCHANGED Database /\ UNCHANGED <<page, happened, pending>>
  BY DEF Modified, Excuses
<1>2. /\ TableInv'
      /\ UNCHANGED <<grades, shelved, quarters, storing, profile, face, serial, today, hours>>
  BY <1>0, <1>1, TableKept
<1>3. /\ request'.at = "body" /\ request'.tag.grades = request.grades
      /\ request'.tag.others = OthersMark
  BY <1>1 DEF TagComputed
<1>4. GradesSince(request.grades, grades, grades, shelved, serial, pending)
  BY <1>0, <1>1 DEF RequestInv
<1>5. OthersSince(OthersMark, Shown(quarters, profile, face, today, hours), quarters,
                  today, hours, pending)
  <2> DEFINE mark == OthersMark
             shown == Shown(quarters, profile, face, today, hours)
  <2>1. /\ mark.quarters = Watermark(quarters) /\ mark.profile = profile
        /\ mark.bucket = BucketAt(today, hours)
        /\ shown.quarters = quarters /\ shown.profile = profile /\ shown.day = today
        /\ shown.period = ServerDayAt(today, hours)
    BY DEF OthersMark, Bucket, BucketAt, Shown
  <2> HIDE DEF mark, shown
  <2>2. OthersSince(mark, shown, quarters, today, hours, pending)
    <3>1. /\ Later(quarters, shown.quarters) /\ Later(shown.quarters, quarters)
          /\ NotAfter(today, hours, today, hours) /\ shown.profile = mark.profile
      BY <1>0, <2>1 DEF Later, NotAfter
    <3> QED
      BY <1>0, <2>1, <3>1 DEF OthersSince
  <2> QED
    BY <2>2 DEF mark, shown
<1>6. PageInv'
  BY <1>0, <1>1, <1>2 DEF PageInv
<1>7. RequestInv'
  <2>1. "face" \notin pending
    BY <1>0 DEF RequestInv
  <2> QED
    BY <1>1, <1>2, <1>3, <1>4, <1>5, <2>1 DEF RequestInv
<1> QED
  BY <1>2, <1>6, <1>7 DEF PageTold

LEMMA ReadStep == ASSUME PageTold, ReadGrades PROVE PageTold'
<1>1. /\ request.at = "body"
      /\ request' = [at |-> "rest", tag |-> request.tag, body |-> grades]
      /\ UNCHANGED Database /\ UNCHANGED <<page, happened, pending>>
  BY DEF ReadGrades, Excuses
<1>2. /\ TableInv'
      /\ UNCHANGED <<grades, shelved, quarters, storing, profile, face, serial, today, hours>>
  BY <1>1, TableKept DEF PageTold
<1>3. request'.at = "rest" /\ request'.tag = request.tag /\ request'.body = grades
  BY <1>1
<1>4. PageInv'
  BY <1>1, <1>2 DEF PageTold, PageInv
<1>5. /\ grades \in Rows /\ UpTo(grades, serial) /\ "face" \notin pending
      /\ GradesSince(request.tag.grades, grades, grades, shelved, serial, pending)
      /\ OthersSince(request.tag.others, Shown(quarters, profile, face, today, hours),
                     quarters, today, hours, pending)
  BY <1>1 DEF PageTold, TableInv, RequestInv
<1>6. RequestInv'
  BY <1>1, <1>2, <1>3, <1>5 DEF RequestInv
<1> QED
  BY <1>2, <1>4, <1>6 DEF PageTold

LEMMA AnswersStep == ASSUME PageTold, Answers PROVE PageTold'
<1>1. /\ request.at = "rest" /\ request' = [at |-> "idle"]
      /\ page' = [tag |-> request.tag, body |-> [grades |-> request.body, others |-> OthersShown]]
      /\ happened' = pending /\ pending' = {} /\ UNCHANGED Database
  BY DEF Answers
<1>2. /\ TableInv'
      /\ UNCHANGED <<grades, shelved, quarters, storing, profile, face, serial, today, hours>>
  BY <1>1, TableKept DEF PageTold
<1>3. /\ request.body \in Rows /\ UpTo(request.body, serial)
      /\ GradesSince(request.tag.grades, request.body, grades, shelved, serial, pending)
      /\ OthersSince(request.tag.others, Shown(quarters, profile, face, today, hours),
                     quarters, today, hours, pending)
  BY <1>1 DEF PageTold, RequestInv
<1>4. /\ page'.tag = request.tag /\ page'.body.grades = request.body
      /\ page'.body.others = Shown(quarters, profile, face, today, hours)
      /\ page'.body.others.face = face
  BY <1>1 DEF OthersShown, Shown, ServerDay, ServerDayAt
<1>5. PageInv'
  BY <1>1, <1>2, <1>3, <1>4 DEF PageInv
<1>6. RequestInv'
  BY <1>1 DEF RequestInv
<1> QED
  BY <1>2, <1>5, <1>6 DEF PageTold

\* Every step keeps the invariant.
LEMMA PageStep == PageTold /\ [DashboardNext]_dashboardVars => PageTold'
<1> SUFFICES ASSUME PageTold, [DashboardNext]_dashboardVars PROVE PageTold'
  OBVIOUS
<1>1. ASSUME NEW k \in Entries, MonitorWrites(k) \/ MonitorDrops(k) \/ ImporterAdds(k)
      PROVE  PageTold'
  BY <1>1, WrittenStep
<1>2. ASSUME NEW s \in Storers, QuarterCommits(s) PROVE PageTold'
  BY <1>2, StoredStep
<1>3. ASSUME NEW s \in Storers, NEW c \in QuarterCells, QuarterBegins(s, c) PROVE PageTold'
  BY <1>3, OpenedStep
<1>4. CASE ProfileChanges \/ FaceChanges \/ TimePasses
  BY <1>4, AroundStep
<1>5. CASE Opens
  BY <1>5, OpensStep
<1>6. CASE NotModified
  BY <1>6, NotModifiedStep
<1>7. CASE Modified
  BY <1>7, ModifiedStep
<1>8. CASE ReadGrades
  BY <1>8, ReadStep
<1>9. CASE Answers
  BY <1>9, AnswersStep
<1>10. CASE ArchiveMoves
  BY <1>10, ArchivedStep
<1>11. CASE UNCHANGED dashboardVars
  <2>1. UNCHANGED <<grades, shelved, quarters, storing, profile, face, serial, today, hours,
                    page, request, happened, pending>>
    BY <1>11 DEF dashboardVars
  <2> QED
    BY <2>1 DEF PageTold, TableInv, StoringInv, PageInv, RequestInv
<1> QED
  BY <1>1, <1>2, <1>3, <1>4, <1>5, <1>6, <1>7, <1>8, <1>9, <1>10, <1>11 DEF DashboardNext

\* "Not modified" is true (app 712-776, 796-803): while the tag the server would
\* compute now is the page's, each part of the page shows what the server would
\* answer now, with the exception NotModifiedIsTrue names for that part.
THEOREM NotModifiedTold == DashboardSpec => []NotModifiedIsTrue
<1>1. PageTold => NotModifiedIsTrue
  <2> SUFFICES ASSUME PageTold, page # Nothing, page.tag = TagNow
               PROVE  /\ page.body.grades = grades \/ Undone
                      /\ page.body.others.quarters = quarters \/ "overlap" \in happened
                      /\ page.body.others.profile = profile \/ "profile" \in happened
                      /\ page.body.others.face = face \/ "face" \in happened
                      /\ page.body.others.day = today
                      /\ page.body.others.period = ServerDay \/ (ServerIsUtc /\ hours = 1)
    BY DEF NotModifiedIsTrue
  <2>1. /\ page.body.grades \in Rows
        /\ GradesSince(page.tag.grades, page.body.grades, grades, shelved, serial, happened)
        /\ OthersSince(page.tag.others, page.body.others, quarters, today, hours, happened)
        /\ "face" \notin happened => page.body.others.face = face
        /\ grades \in Rows /\ Unstamped(grades, shelved) /\ quarters \in QuarterRows
        /\ today \in Nat /\ hours \in 0..4 /\ serial \in Stamps /\ serial \in Nat
    BY DashboardAssumption DEF PageTold, PageInv, TableInv, Stamps
  <2>2. /\ page.tag.grades = Watermark(Live(grades, shelved))
        /\ page.tag.others.quarters = Watermark(quarters)
        /\ page.tag.others.profile = profile /\ page.tag.others.bucket = BucketAt(today, hours)
    BY LiveIsLiveRows DEF TagNow, OthersMark, Bucket, BucketAt
  <2>3. ASSUME ~ Undone PROVE grades = page.body.grades
    <3>1. PICK tagged \in Rows, was \in SUBSET Earlier, s \in 0..serial :
             /\ page.tag.grades = Watermark(Live(tagged, was)) /\ UpTo(tagged, s)
             /\ Unstamped(tagged, was) /\ Grows(was, shelved, happened)
             /\ Descends(tagged, s, page.body.grades, grades, happened)
      BY <2>1 DEF GradesSince
    <3>2. s \in Stamps
      BY <2>1, DashboardAssumption DEF Stamps
    <3>3. /\ ~ ("drop" \in happened /\ happened \cap {"import", "write"} # {})
          /\ ~ ("archive" \in happened /\ "import" \in happened)
      BY <2>3 DEF Undone
    <3>4. Watermark(Live(grades, shelved)) = Watermark(Live(tagged, was))
      BY <2>2, <3>1
    <3> QED
      BY <2>1, <3>1, <3>2, <3>3, <3>4, SameMarkSameRows
  <2>4. /\ "overlap" \notin happened => page.body.others.quarters = quarters
        /\ "profile" \notin happened => page.body.others.profile = page.tag.others.profile
        /\ page.body.others.day = today
        /\ page.body.others.period = ServerDay \/ (ServerIsUtc /\ hours = 1)
    BY <2>1, <2>2, SameMarkSameOthers DEF ServerDay, ServerDayAt
  <2> QED
    BY <2>1, <2>2, <2>3, <2>4
<1> QED
  BY PageStart, PageStep, <1>1, PTL DEF DashboardSpec
-----------------------------------------------------------------------------
(* The types of the dashboard. *)

LEMMA WatermarkTypes ==
    ASSUME NEW K, IsFiniteSet(K), NEW t \in [K -> Stamps \cup {Nothing}]
    PROVE  Watermark(t) \in Watermarks
<1>1. /\ Watermark(t).newest \in Stamps /\ Stored(t) \in SUBSET K
      /\ Watermark(t).count = Cardinality(Stored(t))
  BY NewestStamp
<1>2. Watermark(t).count \in Nat
  BY <1>1, FS_Subset, FS_CardinalityType
<1> QED
  BY <1>1, <1>2 DEF Watermark, Watermarks

\* What the page and the request carry is a tag; events are those of the model.
TagInv ==
    /\ 5 * today + hours <= MaxUnits
    /\ page # Nothing => page.tag \in Tags
    /\ request.at \in {"idle", "tag", "body", "rest"}
    /\ request.at = "tag" => request.grades \in Watermarks
    /\ request.at \in {"body", "rest"} => request.tag \in Tags
    /\ happened \subseteq Events /\ pending \subseteq Events

LEMMA TagStart == ASSUME DashboardInit PROVE TagInv
  BY DashboardAssumption DEF DashboardInit, TagInv, Events

LEMMA TagStep == ASSUME TableInv, TagInv, [DashboardNext]_dashboardVars PROVE TagInv'
<1>0. /\ 5 * today + hours <= MaxUnits /\ today \in Nat /\ hours \in 0..4
      /\ happened \subseteq Events /\ pending \subseteq Events
      /\ MaxUnits \in Nat /\ grades \in Rows /\ quarters \in QuarterRows /\ profile \in Profiles
  BY DashboardAssumption DEF TagInv, TableInv
<1>1. Watermark(LiveRows) \in Watermarks /\ OthersMark \in
         [quarters : Watermarks, profile : Profiles, bucket : Buckets]
  <2>1. LiveRows \in Rows
    BY <1>0 DEF LiveRows, Rows
  <2>2. Watermark(LiveRows) \in Watermarks /\ Watermark(quarters) \in Watermarks
    BY <1>0, <2>1, DashboardAssumption, WatermarkTypes DEF Rows, QuarterRows, Entries
  <2>3. Bucket \in Buckets
    BY <1>0 DEF Bucket, Buckets
  <2> QED
    BY <1>0, <2>2, <2>3 DEF OthersMark
<1>2. ASSUME NEW event \in Events, Note(event)
      PROVE  happened' \subseteq Events /\ pending' \subseteq Events
  BY <1>0, <1>2 DEF Note
<1>3. ASSUME UNCHANGED <<today, hours, page, request>>,
             happened' \subseteq Events /\ pending' \subseteq Events
      PROVE  TagInv'
  BY <1>3 DEF TagInv
<1>4. ASSUME NEW k \in Entries, MonitorWrites(k) \/ MonitorDrops(k) \/ ImporterAdds(k)
      PROVE  TagInv'
  <2>1. /\ UNCHANGED <<today, hours, page, request>>
        /\ \E event \in {"write", "drop", "import"} : Note(event)
    BY <1>4 DEF MonitorWrites, MonitorDrops, ImporterAdds, Others, Server
  <2> QED
    BY <1>2, <1>3, <2>1 DEF Events
<1>5. ASSUME NEW s \in Storers, QuarterCommits(s) PROVE TagInv'
  <2>1. /\ UNCHANGED <<today, hours, page, request>>
        /\ Note("overlap") \/ UNCHANGED <<happened, pending>>
    BY <1>5 DEF QuarterCommits, Server, Excuses
  <2> QED
    BY <1>0, <1>2, <1>3, <2>1 DEF Events
<1>6. ASSUME NEW s \in Storers, NEW c \in QuarterCells, QuarterBegins(s, c) PROVE TagInv'
  BY <1>0, <1>3, <1>6 DEF QuarterBegins, Server, Excuses
<1>7. CASE ProfileChanges \/ FaceChanges \/ ArchiveMoves
  <2>1. /\ UNCHANGED <<today, hours, page, request>>
        /\ \E event \in {"profile", "face", "archive"} : Note(event)
    BY <1>7 DEF ProfileChanges, FaceChanges, ArchiveMoves, Others, Server
  <2> QED
    BY <1>2, <1>3, <2>1 DEF Events
<1>8. CASE TimePasses
  <2>1. 5 * today' + hours' <= MaxUnits
    BY <1>0, <1>8 DEF TimePasses
  <2>2. UNCHANGED <<page, request, happened, pending>>
    BY <1>8 DEF TimePasses, Server, Excuses
  <2> QED
    BY <2>1, <2>2 DEF TagInv
<1>9. CASE Opens
  <2>1. /\ request' = [at |-> "tag", grades |-> Watermark(LiveRows)]
        /\ UNCHANGED <<today, hours, page, happened, pending>>
    BY <1>9 DEF Opens, Database, Others, Excuses
  <2> QED
    BY <1>1, <2>1 DEF TagInv
<1>10. CASE NotModified
  <2>1. /\ request' = [at |-> "idle"] /\ pending' = {}
        /\ UNCHANGED <<today, hours, page, happened>>
    BY <1>10 DEF NotModified, Database, Others
  <2> QED
    BY <2>1 DEF TagInv
<1>11. CASE Modified
  <2>1. TagComputed \in Tags
    BY <1>1, <1>11 DEF Modified, TagInv, TagComputed, Tags
  <2>2. /\ request' = [at |-> "body", tag |-> TagComputed]
        /\ UNCHANGED <<today, hours, page, happened, pending>>
    BY <1>11 DEF Modified, Database, Others, Excuses
  <2> QED
    BY <2>1, <2>2 DEF TagInv
<1>12. CASE ReadGrades
  <2>1. /\ request' = [at |-> "rest", tag |-> request.tag, body |-> grades]
        /\ request.tag \in Tags /\ UNCHANGED <<today, hours, page, happened, pending>>
    BY <1>12 DEF ReadGrades, Database, Others, Excuses, TagInv
  <2> QED
    BY <2>1 DEF TagInv
<1>13. CASE Answers
  <2>1. /\ page'.tag = request.tag /\ request.tag \in Tags
        /\ request' = [at |-> "idle"] /\ happened' = pending /\ pending' = {}
        /\ UNCHANGED <<today, hours>>
    BY <1>13 DEF Answers, Database, Others, TagInv
  <2> QED
    BY <1>0, <2>1 DEF TagInv
<1>14. CASE UNCHANGED dashboardVars
  BY <1>0, <1>3, <1>14 DEF dashboardVars
<1> QED
  BY <1>4, <1>5, <1>6, <1>7, <1>8, <1>9, <1>10, <1>11, <1>12, <1>13, <1>14 DEF DashboardNext

LEMMA DashboardShape == ASSUME TableInv, TagInv PROVE DashboardTypeOK
<1>1. happened \cup pending \subseteq Events
  BY DEF TagInv
<1>2. shelved \subseteq Aged \cap Stored(grades)
  <2>1. Stored(grades) = {k \in Entries : grades[k] # Nothing} /\ 0 # Nothing
    BY DashboardAssumption DEF Stored, TableInv, Rows
  <2> QED
    BY <2>1 DEF TableInv, Unstamped, Entries
<1> QED
  BY <1>1, <1>2, Zenon DEF TableInv, StoringInv, TagInv, DashboardTypeOK, Rows, QuarterRows

\* The tables, the tag of the page and that of the request under way keep their types,
\* and no row is stamped ahead of the database (app 712-907).
THEOREM DashboardTypes == DashboardSpec => []DashboardTypeOK
<1>1. PageTold /\ TagInv /\ [DashboardNext]_dashboardVars => (PageTold /\ TagInv)'
  BY PageStep, TagStep DEF PageTold
<1>2. PageTold /\ TagInv => DashboardTypeOK
  BY DashboardShape DEF PageTold
<1> QED
  BY PageStart, TagStart, <1>1, <1>2, PTL DEF DashboardSpec
-----------------------------------------------------------------------------
(* The blocks of the dashboard.  What they say to each other follows from  *)
(* the types of the history and of the quarter table alone, by arithmetic  *)
(* on sums of grades: Total adds up over parts, a rounded average keeps    *)
(* the order of the exact ones, and the average of a whole lies between    *)
(* those of its parts.                                                     *)

\* Induction over the naturals, for sets of them.
LEMMA SetInduction ==
    ASSUME NEW T, 0 \in T, \A n \in Nat : n \in T => n + 1 \in T
    PROVE  Nat \subseteq T
<1> SUFFICES ASSUME Nat \ T # {} PROVE FALSE
  OBVIOUS
<1> DEFINE L == OpToRel(<, Nat)
<1>1. IsWellFoundedOn(L, Nat)
  BY NatLessThanWellFounded
<1>2. \A x, y \in Nat : x < y => <<x, y>> \in L
  BY DEF OpToRel
<1> HIDE DEF L
<1>3. PICK x \in Nat \ T : \A y \in Nat \ T : ~ (<<y, x>> \in L)
  BY <1>1, WFMin
<1>4. x \in Nat /\ x # 0 /\ x - 1 \in Nat /\ x - 1 < x /\ (x - 1) + 1 = x
  OBVIOUS
<1>5. <<x - 1, x>> \in L
  BY <1>2, <1>4
<1>6. x - 1 \in T
  BY <1>3, <1>4, <1>5
<1> QED
  BY <1>3, <1>4, <1>6

\* The elements of sets that have none in common.
LEMMA TwoParts ==
    ASSUME NEW S, NEW T, IsFiniteSet(S), IsFiniteSet(T), S \cap T = {}
    PROVE  /\ IsFiniteSet(S \cup T) /\ Cardinality(S \cup T) = Cardinality(S) + Cardinality(T)
           /\ Cardinality(S) \in Nat /\ Cardinality(T) \in Nat
<1>1. Cardinality(S \cap T) = 0
  BY FS_EmptySet
<1>2. Cardinality(S) \in Nat /\ Cardinality(T) \in Nat
  BY FS_CardinalityType
<1>3. /\ IsFiniteSet(S \cup T)
      /\ Cardinality(S \cup T) = Cardinality(S) + Cardinality(T) - Cardinality(S \cap T)
  BY FS_Union
<1> QED
  BY <1>1, <1>2, <1>3

LEMMA FiveParts ==
    ASSUME NEW P,
           \A v \in 1..5 : IsFiniteSet(P[v]),
           \A v, w \in 1..5 : v # w => P[v] \cap P[w] = {}
    PROVE  Cardinality(P[1] \cup P[2] \cup P[3] \cup P[4] \cup P[5])
             = Cardinality(P[1]) + Cardinality(P[2]) + Cardinality(P[3])
               + Cardinality(P[4]) + Cardinality(P[5])
<1>0. IsFiniteSet(P[3]) /\ IsFiniteSet(P[4])
  OBVIOUS
<1>1. PICK A : A = P[1] \cup P[2]
  OBVIOUS
<1>2. IsFiniteSet(A) /\ Cardinality(A) = Cardinality(P[1]) + Cardinality(P[2])
  BY <1>1, TwoParts
<1>3. PICK B : B = A \cup P[3]
  OBVIOUS
<1>4. IsFiniteSet(B) /\ Cardinality(B) = Cardinality(A) + Cardinality(P[3])
  <2>1. A \cap P[3] = {}
    BY <1>1
  <2>2. IsFiniteSet(A \cup P[3]) /\ Cardinality(A \cup P[3]) = Cardinality(A) + Cardinality(P[3])
    BY <1>2, <2>1, TwoParts
  <2> QED
    BY <1>3, <2>2
<1>5. PICK C : C = B \cup P[4]
  OBVIOUS
<1>6. IsFiniteSet(C) /\ Cardinality(C) = Cardinality(B) + Cardinality(P[4])
  <2>1. B \cap P[4] = {}
    BY <1>1, <1>3
  <2>2. IsFiniteSet(B \cup P[4]) /\ Cardinality(B \cup P[4]) = Cardinality(B) + Cardinality(P[4])
    BY <1>0, <1>4, <2>1, TwoParts
  <2> QED
    BY <1>5, <2>2
<1>7. Cardinality(C \cup P[5]) = Cardinality(C) + Cardinality(P[5])
  <2>1. C \cap P[5] = {}
    BY <1>1, <1>3, <1>5
  <2> QED
    BY <1>6, <2>1, TwoParts
<1>8. P[1] \cup P[2] \cup P[3] \cup P[4] \cup P[5] = C \cup P[5]
  BY <1>1, <1>3, <1>5
<1> QED
  BY <1>2, <1>4, <1>6, <1>7, <1>8

LEMMA ElementOf == ASSUME NEW S, NEW s \in Seq(S), NEW i \in 1..Len(s) PROVE s[i] \in S
  OBVIOUS

\* The history and its numeric part.
LEMMA Positions ==
    ASSUME SummaryTypeOK
    PROVE  /\ Len(records) \in Nat /\ DOMAIN records = 1..Len(records)
           /\ \A i \in DOMAIN records :
                 /\ records[i].value \in Points \cup {Text} /\ records[i].current \in BOOLEAN
                 /\ records[i].subject \in Subjects
           /\ \A i \in Numeric : records[i].value \in 1..5
           /\ Numeric \subseteq 1..Len(records) /\ IsFiniteSet(Numeric)
<1>1. Len(records) \in Nat /\ DOMAIN records = 1..Len(records)
  BY DEF SummaryTypeOK
<1>2. IsFiniteSet(1..Len(records))
  BY <1>1, FS_Interval
<1>3. Numeric \subseteq 1..Len(records)
  BY <1>1 DEF Numeric
<1>4. IsFiniteSet(Numeric)
  BY <1>2, <1>3, FS_Subset
<1>5. \A i \in DOMAIN records :
         /\ records[i].value \in Points \cup {Text} /\ records[i].current \in BOOLEAN
         /\ records[i].subject \in Subjects
  <2> TAKE i \in DOMAIN records
  <2>0. i \in 1..Len(records)
    BY <1>1
  <2>1. records[i] \in [subject : Subjects, value : Points \cup {Text}, day : 0..2,
                        current : BOOLEAN, month : 0..1]
    BY <2>0, ElementOf DEF SummaryTypeOK
  <2> QED
    BY <2>1
<1>6. \A i \in Numeric : records[i].value \in 1..5
  BY <1>5, SummaryAssumption DEF SummaryAssumption, Numeric
<1> QED
  BY <1>1, <1>3, <1>4, <1>5, <1>6, Zenon

\* The number of some grades and their sum.
LEMMA Counted ==
    ASSUME SummaryTypeOK, NEW I \in SUBSET Numeric
    PROVE  /\ IsFiniteSet(I) /\ Cardinality(I) \in Nat /\ (I = {} <=> Cardinality(I) = 0)
           /\ \A v \in 1..5 : Times(I, v) \in Nat /\ (Times(I, v) # 0 => \E i \in I : records[i].value = v)
           /\ Cardinality(I) = Times(I, 1) + Times(I, 2) + Times(I, 3) + Times(I, 4) + Times(I, 5)
           /\ Total(I) \in Nat
<1> DEFINE Those == [v \in 1..5 |-> {i \in I : records[i].value = v}]
<1>1. IsFiniteSet(I)
  BY Positions, FS_Subset
<1>2. Cardinality(I) \in Nat /\ (I = {} <=> Cardinality(I) = 0)
  BY <1>1, FS_CardinalityType, FS_EmptySet
<1>3. \A v \in 1..5 : /\ Those[v] \subseteq I /\ \A i \in Those[v] : records[i].value = v
                      /\ Times(I, v) = Cardinality(Those[v])
  BY DEF Times
<1>4. I = Those[1] \cup Those[2] \cup Those[3] \cup Those[4] \cup Those[5]
  <2>1. \A i \in I : records[i].value \in 1..5
    BY Positions
  <2> QED
    BY <2>1
<1> HIDE DEF Those
<1>5. ASSUME NEW v \in 1..5
      PROVE  /\ IsFiniteSet(Those[v]) /\ Cardinality(Those[v]) \in Nat
             /\ (Cardinality(Those[v]) # 0 => Those[v] # {})
  <2>1. IsFiniteSet(Those[v])
    BY <1>1, <1>3, FS_Subset
  <2> QED
    BY <2>1, FS_CardinalityType, FS_EmptySet
<1>6. \A v \in 1..5 : Times(I, v) \in Nat /\ (Times(I, v) # 0 => \E i \in I : records[i].value = v)
  <2> TAKE v \in 1..5
  <2>1. Those[v] # {} => \E i \in Those[v] : i \in I /\ records[i].value = v
    BY <1>3
  <2> QED
    BY <1>3, <1>5, <2>1
<1>7. \A v, w \in 1..5 : v # w => Those[v] \cap Those[w] = {}
  BY <1>3
<1>8. Cardinality(I) = Times(I, 1) + Times(I, 2) + Times(I, 3) + Times(I, 4) + Times(I, 5)
  <2>1. Cardinality(I) = Cardinality(Those[1]) + Cardinality(Those[2]) + Cardinality(Those[3])
                         + Cardinality(Those[4]) + Cardinality(Those[5])
    BY <1>4, <1>5, <1>7, FiveParts
  <2> QED
    BY <1>3, <2>1
<1>9. Total(I) \in Nat
  BY <1>6 DEF Total
<1> QED
  BY <1>1, <1>2, <1>6, <1>8, <1>9

\* The sum of grades none of which is above m, or below it.
LEMMA TotalBounds ==
    ASSUME SummaryTypeOK, NEW I \in SUBSET Numeric, NEW m \in 1..5
    PROVE  /\ (\A i \in I : records[i].value <= m) => Total(I) <= m * Cardinality(I)
           /\ (\A i \in I : records[i].value >= m) => Total(I) >= m * Cardinality(I)
<1>1. \A v \in 1..5 : Times(I, v) \in Nat /\ (Times(I, v) # 0 => \E i \in I : records[i].value = v)
  BY Counted
<1>2. PICK n \in [1..5 -> Nat] : \A v \in 1..5 : n[v] = Times(I, v)
  <2>1. [v \in 1..5 |-> Times(I, v)] \in [1..5 -> Nat]
    BY <1>1
  <2> QED
    BY <2>1
<1>3. /\ Cardinality(I) = n[1] + n[2] + n[3] + n[4] + n[5]
      /\ Total(I) = n[1] + 2 * n[2] + 3 * n[3] + 4 * n[4] + 5 * n[5]
  BY <1>2, Counted DEF Total
<1>4. /\ n[1] \in Nat /\ n[2] \in Nat /\ n[3] \in Nat /\ n[4] \in Nat /\ n[5] \in Nat
      /\ m \in 1..5
  OBVIOUS
<1>5. ASSUME \A i \in I : records[i].value <= m
      PROVE  n[1] + 2 * n[2] + 3 * n[3] + 4 * n[4] + 5 * n[5]
                <= m * (n[1] + n[2] + n[3] + n[4] + n[5])
  <2>1. \A v \in 1..5 : v > m => n[v] = 0
    BY <1>1, <1>2, <1>5, Positions
  <2>2. /\ m < 2 => n[2] = 0
        /\ m < 3 => n[3] = 0
        /\ m < 4 => n[4] = 0
        /\ m < 5 => n[5] = 0
    BY <2>1
  <2>3. CASE m = 1
    BY <1>4, <2>2, <2>3
  <2>4. CASE m = 2
    BY <1>4, <2>2, <2>4
  <2>5. CASE m = 3
    BY <1>4, <2>2, <2>5
  <2>6. CASE m = 4
    BY <1>4, <2>2, <2>6
  <2>7. CASE m = 5
    BY <1>4, <2>2, <2>7
  <2> QED
    BY <2>3, <2>4, <2>5, <2>6, <2>7
<1>6. ASSUME \A i \in I : records[i].value >= m
      PROVE  n[1] + 2 * n[2] + 3 * n[3] + 4 * n[4] + 5 * n[5]
                >= m * (n[1] + n[2] + n[3] + n[4] + n[5])
  <2>1. \A v \in 1..5 : v < m => n[v] = 0
    BY <1>1, <1>2, <1>6, Positions
  <2>2. /\ m > 1 => n[1] = 0
        /\ m > 2 => n[2] = 0
        /\ m > 3 => n[3] = 0
        /\ m > 4 => n[4] = 0
    BY <2>1
  <2>3. CASE m = 1
    BY <1>4, <2>2, <2>3
  <2>4. CASE m = 2
    BY <1>4, <2>2, <2>4
  <2>5. CASE m = 3
    BY <1>4, <2>2, <2>5
  <2>6. CASE m = 4
    BY <1>4, <2>2, <2>6
  <2>7. CASE m = 5
    BY <1>4, <2>2, <2>7
  <2> QED
    BY <2>3, <2>4, <2>5, <2>6, <2>7
<1> QED
  BY <1>3, <1>5, <1>6

\* The sum of two parts.
LEMMA TotalAdds ==
    ASSUME SummaryTypeOK, NEW I \in SUBSET Numeric, NEW J \in SUBSET Numeric, I \cap J = {}
    PROVE  /\ Total(I \cup J) = Total(I) + Total(J)
           /\ Cardinality(I \cup J) = Cardinality(I) + Cardinality(J)
<1>0. IsFiniteSet(I) /\ IsFiniteSet(J)
  BY Counted
<1>1. ASSUME NEW v \in 1..5 PROVE Times(I \cup J, v) = Times(I, v) + Times(J, v)
  <2>1. PICK A \in SUBSET I : A = {i \in I : records[i].value = v}
    OBVIOUS
  <2>2. PICK B \in SUBSET J : B = {i \in J : records[i].value = v}
    OBVIOUS
  <2>3. A \cup B = {i \in I \cup J : records[i].value = v} /\ A \cap B = {}
    BY <2>1, <2>2
  <2>4. IsFiniteSet(A) /\ IsFiniteSet(B)
    BY <1>0, FS_Subset
  <2>5. Cardinality(A \cup B) = Cardinality(A) + Cardinality(B)
    BY <2>3, <2>4, TwoParts
  <2> QED
    BY <2>1, <2>2, <2>3, <2>5 DEF Times
<1>2. \A v \in 1..5 : Times(I, v) \in Nat /\ Times(J, v) \in Nat
  BY Counted
<1>3. Cardinality(I \cup J) = Cardinality(I) + Cardinality(J)
  BY <1>0, TwoParts
<1> QED
  BY <1>1, <1>2, <1>3 DEF Total
-----------------------------------------------------------------------------
(* Rounded averages. *)

LEMMA Times2 ==
    ASSUME NEW a \in Int, NEW b \in Int, NEW c \in Nat, a <= b
    PROVE  a * c <= b * c /\ a * c \in Int /\ b * c \in Int
  BY SMT

\* The rounded quotient, by the two multiples it lies between.
LEMMA Rounded ==
    ASSUME NEW t \in Int, NEW n \in Nat \ {0}
    PROVE  /\ Round2(t, n) \in Int
           /\ 2 * n * Round2(t, n) <= 200 * t + n
           /\ 200 * t + n < 2 * n * (Round2(t, n) + 1)
<1>1. PICK d \in Nat \ {0} : d = 2 * n
  BY SMT
<1>2. PICK a \in Int : a = 200 * t + n
  BY SMT
<1>3. (a \div d) \in Int /\ d * (a \div d) <= a /\ a < d * ((a \div d) + 1)
  BY SMT
<1> QED
  BY <1>1, <1>2, <1>3 DEF Round2

\* Rounding keeps the order.
LEMMA RoundKeepsOrder ==
    ASSUME NEW t1 \in Int, NEW n1 \in Nat \ {0}, NEW t2 \in Int, NEW n2 \in Nat \ {0},
           t1 * n2 <= t2 * n1
    PROVE  Round2(t1, n1) <= Round2(t2, n2)
<1>1. PICK q1 \in Int : q1 = Round2(t1, n1) /\ 2 * n1 * q1 <= 200 * t1 + n1
  BY Rounded
<1>2. PICK q2 \in Int : q2 = Round2(t2, n2) /\ 200 * t2 + n2 < 2 * n2 * (q2 + 1)
  BY Rounded
<1>3. SUFFICES ASSUME q2 + 1 <= q1 PROVE FALSE
  BY <1>1, <1>2
<1>4. (2 * n1 * q1) * n2 <= (200 * t1 + n1) * n2
  BY <1>1, Times2
<1>5. (200 * t2 + n2 + 1) * n1 <= (2 * n2 * (q2 + 1)) * n1
  BY <1>2, Times2
<1>6. (q2 + 1) * (n1 * n2) <= q1 * (n1 * n2)
  BY <1>3, Times2
<1>7. /\ (2 * n1 * q1) * n2 = 2 * (q1 * (n1 * n2))
      /\ (2 * n2 * (q2 + 1)) * n1 = 2 * ((q2 + 1) * (n1 * n2))
      /\ (200 * t1 + n1) * n2 = 200 * (t1 * n2) + n1 * n2
      /\ (200 * t2 + n2 + 1) * n1 = 200 * (t2 * n1) + n1 * n2 + n1
  BY SMT
<1>8. /\ t1 * n2 \in Int /\ t2 * n1 \in Int /\ n1 * n2 \in Int
      /\ q1 * (n1 * n2) \in Int /\ (q2 + 1) * (n1 * n2) \in Int
  BY SMT
<1> QED
  BY <1>4, <1>5, <1>6, <1>7, <1>8

\* A quotient that lies between whole numbers does so rounded.
LEMMA RoundWithin ==
    ASSUME NEW t \in Int, NEW n \in Nat \ {0}, NEW k \in Int
    PROVE  /\ t <= k * n => Round2(t, n) <= 100 * k
           /\ t >= k * n => Round2(t, n) >= 100 * k
<1>1. Round2(k, 1) = 100 * k
  <2>1. PICK one \in Nat \ {0} : one = 1
    OBVIOUS
  <2>2. PICK q \in Int : /\ q = Round2(k, one)
                         /\ 2 * one * q <= 200 * k + one /\ 200 * k + one < 2 * one * (q + 1)
    BY Rounded
  <2>3. q = 100 * k
    BY <2>1, <2>2
  <2> QED
    BY <2>1, <2>2, <2>3
<1>2. t * 1 = t /\ k * n \in Int
  BY SMT
<1>3. t <= k * n => t * 1 <= k * n
  BY <1>2
<1>4. t >= k * n => k * n <= t * 1
  BY <1>2
<1>5. t <= k * n => Round2(t, n) <= Round2(k, 1)
  BY <1>3, RoundKeepsOrder
<1>6. t >= k * n => Round2(k, 1) <= Round2(t, n)
  BY <1>4, RoundKeepsOrder
<1>7. Round2(t, n) \in Int
  BY Rounded
<1> QED
  BY <1>1, <1>5, <1>6, <1>7

\* The average of some grades.
LEMMA Averaged ==
    ASSUME SummaryTypeOK, NEW I \in SUBSET Numeric, I # {}
    PROVE  /\ Average(I) = Round2(Total(I), Cardinality(I)) /\ Average(I) \in 100..500
           /\ Cardinality(I) \in Nat \ {0} /\ Total(I) \in Nat
<1>1. Cardinality(I) \in Nat \ {0} /\ Total(I) \in Nat
  BY Counted
<1>2. Total(I) <= 5 * Cardinality(I) /\ Total(I) >= 1 * Cardinality(I)
  <2>1. \A i \in I : records[i].value \in 1..5
    BY Positions
  <2>2. \A i \in I : records[i].value <= 5 /\ records[i].value >= 1
    BY <2>1
  <2> QED
    BY <2>2, TotalBounds
<1>3. Round2(Total(I), Cardinality(I)) <= 100 * 5 /\ Round2(Total(I), Cardinality(I)) >= 100 * 1
  BY <1>1, <1>2, RoundWithin
<1>4. Round2(Total(I), Cardinality(I)) \in Int
  BY <1>1, Rounded
<1> QED
  BY <1>1, <1>3, <1>4 DEF Average
-----------------------------------------------------------------------------
(* An average and those of its parts. *)

\* The grades of I that share the key of the one at i.
Part(I, key, i) == {j \in I : key[j] = key[i]}

\* What holds of the weighted sum of every part holds of the whole.
LEMMA PartsAddUp ==
    ASSUME SummaryTypeOK, NEW I \in SUBSET Numeric, I # {}, NEW key, NEW a \in Int, NEW b \in Int,
           \A i \in I : a * Total(Part(I, key, i)) + b * Cardinality(Part(I, key, i)) > 0
    PROVE  a * Total(I) + b * Cardinality(I) > 0
<1> DEFINE Closed(J) == \A i \in J : Part(I, key, i) \subseteq J
           T == {n \in Nat : \A J \in SUBSET I : J # {} /\ Closed(J) /\ Cardinality(J) <= n
                                => a * Total(J) + b * Cardinality(J) > 0}
<1>1. 0 \in T
  BY Counted DEF Closed
<1>2. ASSUME NEW n \in Nat, n \in T PROVE n + 1 \in T
  <2> SUFFICES ASSUME NEW J \in SUBSET I, J # {}, Closed(J), Cardinality(J) <= n + 1
               PROVE  a * Total(J) + b * Cardinality(J) > 0
    OBVIOUS
  <2>1. PICK i \in J : TRUE
    OBVIOUS
  <2>2. PICK P \in SUBSET J : P = Part(I, key, i) /\ i \in P
    BY <2>1 DEF Part
  <2>3. a * Total(P) + b * Cardinality(P) > 0
    BY <2>1, <2>2
  <2>4. PICK K \in SUBSET J : K = J \ P
    OBVIOUS
  <2>5. /\ P \in SUBSET Numeric /\ K \in SUBSET Numeric /\ J \in SUBSET Numeric
        /\ K \cap P = {} /\ J = K \cup P /\ K \in SUBSET I
    BY <2>4
  <2>6. /\ Cardinality(P) \in Nat \ {0} /\ Cardinality(K) \in Nat /\ Cardinality(J) \in Nat
        /\ Total(P) \in Nat /\ Total(K) \in Nat
    BY <2>2, <2>5, Counted
  <2>7. Total(J) = Total(K) + Total(P) /\ Cardinality(J) = Cardinality(K) + Cardinality(P)
    BY <2>5, TotalAdds
  <2>8. CASE K = {}
    BY <2>3, <2>5, <2>8
  <2>9. CASE K # {}
    <3>1. Closed(K)
      BY <2>2, <2>4 DEF Part
    <3>2. Cardinality(K) <= n
      BY <2>6, <2>7
    <3>3. a * Total(K) + b * Cardinality(K) > 0
      BY <1>2, <2>5, <2>9, <3>1, <3>2
    <3>4. /\ a * Total(J) = a * Total(K) + a * Total(P)
          /\ b * Cardinality(J) = b * Cardinality(K) + b * Cardinality(P)
          /\ a * Total(K) \in Int /\ a * Total(P) \in Int
          /\ b * Cardinality(K) \in Int /\ b * Cardinality(P) \in Int
      BY <2>6, <2>7
    <3> QED
      BY <2>3, <3>3, <3>4
  <2> QED
    BY <2>8, <2>9
<1> HIDE DEF T
<1>3. Nat \subseteq T
  BY <1>1, <1>2, SetInduction
<1>4. Cardinality(I) \in T
  BY <1>3, Counted
<1>5. Closed(I)
  BY DEF Part
<1> QED
  BY <1>4, <1>5, Counted DEF T

\* Some part's average is no higher than that of the whole, and some no lower.
LEMMA PartsAround ==
    ASSUME SummaryTypeOK, NEW I \in SUBSET Numeric, I # {}, NEW key
    PROVE  /\ \E i \in I : Average(Part(I, key, i)) <= Average(I)
           /\ \E i \in I : Average(Part(I, key, i)) >= Average(I)
<1>1. PICK s \in Nat, n \in Nat \ {0} :
         s = Total(I) /\ n = Cardinality(I) /\ Average(I) = Round2(s, n)
  BY Averaged
<1>2. ASSUME NEW i \in I
      PROVE  /\ Part(I, key, i) \in SUBSET Numeric /\ Part(I, key, i) # {}
             /\ Total(Part(I, key, i)) \in Nat /\ Cardinality(Part(I, key, i)) \in Nat \ {0}
             /\ Average(Part(I, key, i))
                   = Round2(Total(Part(I, key, i)), Cardinality(Part(I, key, i)))
  <2>1. Part(I, key, i) \in SUBSET Numeric /\ Part(I, key, i) # {}
    BY DEF Part
  <2> QED
    BY <2>1, Averaged
<1>3. \E i \in I : Total(Part(I, key, i)) * n <= s * Cardinality(Part(I, key, i))
  <2> SUFFICES ASSUME \A i \in I : ~ (Total(Part(I, key, i)) * n <= s * Cardinality(Part(I, key, i)))
               PROVE  FALSE
    OBVIOUS
  <2>1. ASSUME NEW i \in I
        PROVE  n * Total(Part(I, key, i)) + (-s) * Cardinality(Part(I, key, i)) > 0
    <3>1. PICK t \in Nat, c \in Nat : t = Total(Part(I, key, i)) /\ c = Cardinality(Part(I, key, i))
      BY <1>2
    <3>2. ~ (t * n <= s * c)
      BY <3>1
    <3>3. n * t + (-s) * c = t * n - s * c /\ t * n \in Int /\ s * c \in Int
      OBVIOUS
    <3>4. n * t + (-s) * c > 0
      BY <3>2, <3>3
    <3> QED
      BY <3>1, <3>4
  <2>2. n * s + (-s) * n > 0
    BY <1>1, <2>1, PartsAddUp
  <2>3. n * s + (-s) * n = 0
    OBVIOUS
  <2> QED
    BY <2>2, <2>3
<1>4. \E i \in I : s * Cardinality(Part(I, key, i)) <= Total(Part(I, key, i)) * n
  <2> SUFFICES ASSUME \A i \in I : ~ (s * Cardinality(Part(I, key, i)) <= Total(Part(I, key, i)) * n)
               PROVE  FALSE
    OBVIOUS
  <2>1. ASSUME NEW i \in I
        PROVE  (-n) * Total(Part(I, key, i)) + s * Cardinality(Part(I, key, i)) > 0
    <3>1. PICK t \in Nat, c \in Nat : t = Total(Part(I, key, i)) /\ c = Cardinality(Part(I, key, i))
      BY <1>2
    <3>2. ~ (s * c <= t * n)
      BY <3>1
    <3>3. (-n) * t + s * c = s * c - t * n /\ t * n \in Int /\ s * c \in Int
      OBVIOUS
    <3>4. (-n) * t + s * c > 0
      BY <3>2, <3>3
    <3> QED
      BY <3>1, <3>4
  <2>2. (-n) * s + s * n > 0
    BY <1>1, <2>1, PartsAddUp
  <2>3. (-n) * s + s * n = 0
    OBVIOUS
  <2> QED
    BY <2>2, <2>3
<1>5. \E i \in I : Average(Part(I, key, i)) <= Average(I)
  BY <1>1, <1>2, <1>3, RoundKeepsOrder
<1>6. \E i \in I : Average(I) <= Average(Part(I, key, i))
  BY <1>1, <1>2, <1>4, RoundKeepsOrder
<1>7. Average(I) \in Int /\ \A i \in I : Average(Part(I, key, i)) \in Int
  BY <1>2, Averaged
<1> QED
  BY <1>5, <1>6, <1>7

\* Something has the least value there is, and something the greatest.
LEMMA Extremes ==
    ASSUME NEW n \in Nat, NEW K, K # {}, NEW f, \A q \in K : f[q] \in 0..n
    PROVE  /\ \E q \in K : \A r \in K : f[q] <= f[r]
           /\ \E q \in K : \A r \in K : f[q] >= f[r]
<1>1. \E q \in K : \A r \in K : f[q] >= f[r]
  <2> DEFINE S == {f[q] : q \in K}
  <2>1. S \in SUBSET (0..n) /\ S # {} /\ \A q \in K : f[q] \in S
    OBVIOUS
  <2>2. \A x \in S : \E q \in K : x = f[q]
    OBVIOUS
  <2> HIDE DEF S
  <2>3. Max(S) \in S /\ \A k \in S : k <= Max(S)
    BY <2>1, Greatest
  <2>4. PICK q \in K : Max(S) = f[q]
    BY <2>2, <2>3
  <2>5. \A r \in K : f[r] <= f[q]
    BY <2>1, <2>3, <2>4
  <2> QED
    BY <2>5
<1>2. \E q \in K : \A r \in K : f[q] <= f[r]
  <2> DEFINE S == {n - f[q] : q \in K}
  <2>1. \A q \in K : n - f[q] \in S /\ n - f[q] \in 0..n
    OBVIOUS
  <2>2. \A x \in S : \E q \in K : x = n - f[q]
    OBVIOUS
  <2> HIDE DEF S
  <2>3. S \in SUBSET (0..n) /\ S # {}
    BY <2>1, <2>2
  <2>4. Max(S) \in S /\ \A k \in S : k <= Max(S)
    BY <2>3, Greatest
  <2>5. PICK q \in K : Max(S) = n - f[q]
    BY <2>2, <2>4
  <2>6. \A r \in K : f[q] <= f[r]
    <3> TAKE r \in K
    <3>1. n - f[r] <= n - f[q]
      BY <2>1, <2>4, <2>5
    <3> QED
      BY <3>1
  <2> QED
    BY <2>6
<1> QED
  BY <1>1, <1>2

\* The averages of the months, of the subjects and of the weeks.
LEMMA AveragesOfParts ==
    ASSUME SummaryTypeOK
    PROVE  /\ YearGrades # {} =>
                 /\ Between(Average(YearGrades), MonthAverages)
                 /\ Between(Average(YearGrades), {s.avg : s \in SubjectStats(YearGrades)})
           /\ \A s \in SubjectStats(Current) : Between(s.avg, WeekAverages(s.name))
<1>0. YearGrades \in SUBSET Numeric /\ Current \in SUBSET Numeric
  BY DEF YearGrades, Current
<1>1. ASSUME YearGrades # {} PROVE Between(Average(YearGrades), MonthAverages)
  <2> DEFINE key == [i \in Numeric |-> records[i].month]
  <2>1. \A i \in YearGrades : Average(Part(YearGrades, key, i)) \in MonthAverages
    <3> TAKE i \in YearGrades
    <3>1. OfMonth(records[i].month) = Part(YearGrades, key, i)
      BY <1>0 DEF OfMonth, Part
    <3> QED
      BY <3>1 DEF MonthAverages
  <2> HIDE DEF key
  <2> QED
    BY <1>0, <1>1, <2>1, PartsAround DEF Between
<1>2. ASSUME YearGrades # {}
      PROVE  Between(Average(YearGrades), {s.avg : s \in SubjectStats(YearGrades)})
  <2> DEFINE key == [i \in Numeric |-> records[i].subject]
             averages == {s.avg : s \in SubjectStats(YearGrades)}
  <2>1. \A i \in YearGrades : Average(Part(YearGrades, key, i)) \in averages
    <3> TAKE i \in YearGrades
    <3>1. OfSubject(YearGrades, records[i].subject) = Part(YearGrades, key, i)
      BY <1>0 DEF OfSubject, Part
    <3>2. \E s \in SubjectStats(YearGrades) : s.avg = Average(OfSubject(YearGrades, records[i].subject))
      <4> DEFINE st == [name |-> records[i].subject,
                        avg |-> Average(OfSubject(YearGrades, records[i].subject)),
                        count |-> Cardinality(OfSubject(YearGrades, records[i].subject)),
                        at |-> Max(OfSubject(YearGrades, records[i].subject))]
      <4>1. st \in SubjectStats(YearGrades)
        BY DEF SubjectStats
      <4> QED
        BY <4>1
    <3> QED
      BY <3>1, <3>2
  <2> HIDE DEF key, averages
  <2>2. Between(Average(YearGrades), averages)
    BY <1>0, <1>2, <2>1, PartsAround DEF Between
  <2> QED
    BY <2>2 DEF averages
<1>3. ASSUME NEW s \in SubjectStats(Current) PROVE Between(s.avg, WeekAverages(s.name))
  <2> DEFINE key == [i \in Numeric |-> records[i].day]
  <2>1. PICK k \in Current : s.name = records[k].subject /\ s.avg = Average(OfSubject(Current, s.name))
    BY DEF SubjectStats
  <2>2. PICK own \in SUBSET Numeric : own = OfSubject(Current, s.name) /\ own # {}
    BY <1>0, <2>1 DEF OfSubject
  <2>3. \A i \in own : Average(Part(own, key, i)) \in WeekAverages(s.name)
    <3> TAKE i \in own
    <3>1. OfDay(own, records[i].day) = Part(own, key, i)
      BY DEF OfDay, Part
    <3> QED
      BY <2>2, <3>1 DEF WeekAverages
  <2> HIDE DEF key
  <2> QED
    BY <2>1, <2>2, <2>3, PartsAround DEF Between
<1> QED
  BY <1>1, <1>2, <1>3

\* The forecast of a year's grade, which is the average of the known quarters.
LEMMA ForecastWithin ==
    ASSUME SummaryTypeOK, NEW s \in Subjects, Known(s) # {}
    PROVE  Between(Forecast(s), {100 * quarterly[s][q] : q \in Known(s)})
<1> DEFINE K == Known(s)
           v == [q \in 1..4 |-> Share(s, q)]
<1>1. \A q \in 1..5 : quarterly[s][q] \in Points \cup {Text, None}
  BY DEF SummaryTypeOK
<1>2. /\ K \subseteq 1..4 /\ v \in [1..4 -> 0..5] /\ Share(s, 1) = v[1] /\ Share(s, 2) = v[2]
      /\ Share(s, 3) = v[3] /\ Share(s, 4) = v[4]
      /\ \A q \in K : v[q] = quarterly[s][q]
      /\ \A q \in 1..4 : q \notin K => v[q] = 0
  <2>1. \A q \in Known(s) : quarterly[s][q] \in 1..5
    <3> TAKE q \in Known(s)
    <3>1. q \in 1..5 /\ quarterly[s][q] # None /\ quarterly[s][q] # Text
      BY DEF Known
    <3>2. quarterly[s][q] \in Points
      BY <1>1, <3>1
    <3> QED
      BY <3>2, SummaryAssumption DEF SummaryAssumption
  <2> QED
    BY <2>1 DEF Known, Share
<1> HIDE DEF v
<1>3. PICK e \in [1..4 -> {0, 1}] :
         /\ \A q \in 1..4 : e[q] = 1 <=> q \in K
         /\ Cardinality(K) = e[1] + e[2] + e[3] + e[4]
  <2> DEFINE P == [q \in 1..5 |-> IF q \in K THEN {q} ELSE {}]
             f == [q \in 1..4 |-> IF q \in K THEN 1 ELSE 0]
  <2>1. K = P[1] \cup P[2] \cup P[3] \cup P[4] \cup P[5]
    BY <1>2
  <2>2. \A q \in 1..5 : IsFiniteSet(P[q]) /\ (q \in K => Cardinality(P[q]) = 1)
                        /\ (q \notin K => Cardinality(P[q]) = 0)
    BY FS_Singleton, FS_EmptySet
  <2>3. \A p, q \in 1..5 : p # q => P[p] \cap P[q] = {}
    OBVIOUS
  <2>4. 5 \notin K
    BY <1>2
  <2> HIDE DEF P, K
  <2>5. Cardinality(K) = Cardinality(P[1]) + Cardinality(P[2]) + Cardinality(P[3])
                         + Cardinality(P[4]) + Cardinality(P[5])
    BY <2>1, <2>2, <2>3, FiveParts
  <2>6. \A q \in 1..4 : Cardinality(P[q]) = f[q]
    BY <2>2
  <2>7. Cardinality(P[5]) = 0
    BY <2>2, <2>4
  <2>8. f \in [1..4 -> {0, 1}] /\ \A q \in 1..4 : f[q] = 1 <=> q \in K
    OBVIOUS
  <2> HIDE DEF f
  <2> QED
    BY <2>5, <2>6, <2>7, <2>8
<1> HIDE DEF K
<1>4. K # {}
  BY DEF K
<1>5. PICK n \in Nat \ {0}, t \in Int :
         /\ n = e[1] + e[2] + e[3] + e[4] /\ t = v[1] + v[2] + v[3] + v[4]
         /\ Forecast(s) = Round2(t, n)
  <2>1. Forecast(s) = Round2(v[1] + v[2] + v[3] + v[4], e[1] + e[2] + e[3] + e[4])
    BY <1>2, <1>3 DEF Forecast, K
  <2>2. e[1] + e[2] + e[3] + e[4] \in Nat \ {0}
    <3>1. e[1] = 1 \/ e[2] = 1 \/ e[3] = 1 \/ e[4] = 1
      <4>1. PICK q \in K : q \in 1..4 /\ e[q] = 1
        BY <1>2, <1>3, <1>4
      <4> QED
        BY <4>1
    <3> QED
      BY <3>1
  <2>3. v[1] + v[2] + v[3] + v[4] \in Int
    BY <1>2
  <2> QED
    BY <2>1, <2>2, <2>3
<1>0. \A q \in K : v[q] \in 0..5
  BY <1>2
<1>6. \E q \in K : \A r \in K : v[q] <= v[r]
  BY <1>0, <1>4, Extremes
<1>7. \E q \in K : \A r \in K : v[q] >= v[r]
  BY <1>0, <1>4, Extremes
<1>8. ASSUME NEW q \in K, \A r \in K : v[q] <= v[r] PROVE 100 * quarterly[s][q] <= Forecast(s)
  <2>1. PICK m \in Int : m = v[q] /\ m = quarterly[s][q]
    BY <1>2, <1>8
  <2>2. \A r \in 1..4 : v[r] >= m * e[r]
    BY <1>2, <1>3, <1>8, <2>1
  <2>3. t >= m * n
    BY <1>2, <1>5, <2>2
  <2> QED
    BY <1>5, <2>1, <2>3, RoundWithin
<1>9. ASSUME NEW q \in K, \A r \in K : v[q] >= v[r] PROVE 100 * quarterly[s][q] >= Forecast(s)
  <2>1. PICK m \in Int : m = v[q] /\ m = quarterly[s][q]
    BY <1>2, <1>9
  <2>2. \A r \in 1..4 : v[r] <= m * e[r]
    BY <1>2, <1>3, <1>9, <2>1
  <2>3. t <= m * n
    BY <1>2, <1>5, <2>2
  <2> QED
    BY <1>5, <2>1, <2>3, RoundWithin
<1> QED
  BY <1>6, <1>7, <1>8, <1>9 DEF Between, K

LEMMA AveragesBetween == ASSUME SummaryTypeOK PROVE AveragesLieBetween
<1>1. ASSUME NEW s \in Subjects, IsForecast(s)
      PROVE  Between(YearValue(s), {100 * quarterly[s][q] : q \in Known(s)})
  BY <1>1, ForecastWithin DEF IsForecast, YearValue
<1> QED
  BY <1>1, AveragesOfParts DEF AveragesLieBetween
-----------------------------------------------------------------------------
(* The lists of subjects and the cards. *)

\* No two subjects are met at one place, so that Worse and Better order them.
LEMMA StatsOf ==
    ASSUME SummaryTypeOK
    PROVE  /\ \A s \in SubjectStats(Current) : /\ s.avg \in 100..500 /\ s.at \in 1..Len(records)
                                               /\ s.avg \in Int /\ s.at \in Int
           /\ \A s, t \in SubjectStats(Current) : s.at = t.at => s = t
<1> DEFINE Stat(n) == [name |-> n, avg |-> Average(OfSubject(Current, n)),
                       count |-> Cardinality(OfSubject(Current, n)), at |-> Max(OfSubject(Current, n))]
<1>1. ASSUME NEW s \in SubjectStats(Current)
      PROVE  /\ s.avg \in 100..500 /\ s.at \in 1..Len(records) /\ s.avg \in Int /\ s.at \in Int
             /\ records[s.at].subject = s.name /\ s = Stat(s.name)
  <2>1. PICK k \in Current : s = Stat(records[k].subject)
    BY DEF SubjectStats
  <2>2. s.name = records[k].subject /\ s = Stat(s.name)
    BY <2>1
  <2>3. PICK own \in SUBSET Numeric : own = OfSubject(Current, s.name) /\ own # {}
    BY <2>2 DEF OfSubject, Current
  <2>4. s.avg \in 100..500
    BY <2>2, <2>3, Averaged
  <2>5. own \in SUBSET (0..Len(records)) /\ own \subseteq 1..Len(records) /\ Len(records) \in Nat
    BY Positions
  <2>6. Max(own) \in own
    BY <2>3, <2>5, Greatest
  <2>7. s.at = Max(own)
    BY <2>2, <2>3
  <2>8. records[s.at].subject = s.name
    BY <2>3, <2>6, <2>7 DEF OfSubject
  <2> QED
    BY <2>2, <2>4, <2>5, <2>6, <2>7, <2>8
<1>2. ASSUME NEW s \in SubjectStats(Current), NEW t \in SubjectStats(Current), s.at = t.at
      PROVE  s = t
  <2>1. s.name = t.name
    BY <1>1, <1>2
  <2> HIDE DEF Stat
  <2> QED
    BY <1>1, <2>1
<1> QED
  BY <1>1, <1>2

\* Of some subjects there is one before all the others, in either order.
LEMMA OneIsFirst ==
    ASSUME SummaryTypeOK, NEW E \in SUBSET SubjectStats(Current), E # {}
    PROVE  /\ \E m \in E : \A t \in E : t # m => Worse(m, t)
           /\ \E m \in E : \A t \in E : t # m => Better(m, t)
<1> DEFINE avg == [s \in SubjectStats(Current) |-> s.avg]
           at == [s \in SubjectStats(Current) |-> s.at]
<1>0. PICK top \in Nat : top = 500
  OBVIOUS
<1>1. \A s \in E : avg[s] = s.avg /\ at[s] = s.at /\ avg[s] \in 0..top /\ at[s] \in 0..Len(records)
  BY <1>0, StatsOf
<1>2. \A s, t \in E : at[s] = at[t] => s = t
  BY StatsOf
<1>3. Len(records) \in Nat
  BY Positions
<1> HIDE DEF avg, at
<1>4. ASSUME NEW best \in E
      PROVE  \E m \in E : avg[m] = avg[best] /\ \A t \in E : avg[t] = avg[best] /\ t # m => at[m] > at[t]
  <2> DEFINE K == {s \in E : avg[s] = avg[best]}
  <2>1. K # {} /\ \A s \in K : at[s] \in 0..Len(records)
    BY <1>1
  <2>2. PICK m \in K : \A t \in K : at[m] >= at[t]
    BY <1>3, <2>1, Extremes
  <2>3. \A t \in K : t # m => at[m] # at[t]
    BY <1>2
  <2> QED
    BY <1>1, <2>2, <2>3
<1>5. PICK low \in E : \A t \in E : avg[low] <= avg[t]
  BY <1>1, Extremes
<1>6. PICK high \in E : \A t \in E : avg[high] >= avg[t]
  BY <1>1, Extremes
<1>7. \E m \in E : \A t \in E : t # m => Worse(m, t)
  <2>1. PICK m \in E : avg[m] = avg[low] /\ \A t \in E : avg[t] = avg[low] /\ t # m => at[m] > at[t]
    BY <1>4
  <2>2. ASSUME NEW t \in E, t # m PROVE Worse(m, t)
    <3>1. avg[m] <= avg[t] /\ (avg[m] = avg[t] => at[m] > at[t]) /\ avg[m] \in Int /\ avg[t] \in Int
      BY <1>1, <1>5, <2>1, <2>2
    <3> QED
      BY <1>1, <3>1 DEF Worse
  <2> QED
    BY <2>2
<1>8. \E m \in E : \A t \in E : t # m => Better(m, t)
  <2>1. PICK m \in E : avg[m] = avg[high] /\ \A t \in E : avg[t] = avg[high] /\ t # m => at[m] > at[t]
    BY <1>4
  <2>2. ASSUME NEW t \in E, t # m PROVE Better(m, t)
    <3>1. avg[m] >= avg[t] /\ (avg[m] = avg[t] => at[m] > at[t]) /\ avg[m] \in Int /\ avg[t] \in Int
      BY <1>1, <1>6, <2>1, <2>2
    <3> QED
      BY <1>1, <3>1 DEF Better
  <2> QED
    BY <2>2
<1> QED
  BY <1>7, <1>8

\* A list shows the first, and the first of it is the first.
LEMMA FirstIsListed ==
    ASSUME SummaryTypeOK, NEW E \in SUBSET SubjectStats(Current), NEW m \in E
    PROVE  /\ (\A t \in E : t # m => Worse(m, t)) =>
                 m \in Listed(E, Worse) /\ FirstOf(Listed(E, Worse), Worse) = m
           /\ (\A t \in E : t # m => Better(m, t)) =>
                 m \in Listed(E, Better) /\ FirstOf(Listed(E, Better), Better) = m
<1>0. /\ \A s \in E : s.avg \in Int /\ s.at \in Int
      /\ 0 < ListLimit /\ Cardinality({}) = 0
  <2>1. \A s \in E : s.avg \in Int /\ s.at \in Int
    BY StatsOf
  <2>2. ListLimit \in Nat \ {0}
    BY SummaryAssumption DEF SummaryAssumption
  <2> QED
    BY <2>1, <2>2, FS_EmptySet
<1>1. ASSUME \A t \in E : t # m => Worse(m, t)
      PROVE  m \in Listed(E, Worse) /\ FirstOf(Listed(E, Worse), Worse) = m
  <2>1. \A t \in E : ~ Worse(t, m)
    BY <1>0, <1>1 DEF Worse
  <2>2. {t \in E : Worse(t, m)} = {}
    BY <2>1
  <2>3. m \in Listed(E, Worse)
    BY <1>0, <2>2 DEF Listed
  <2>4. Listed(E, Worse) \subseteq E
    BY DEF Listed
  <2> DEFINE L == Listed(E, Worse)
  <2> HIDE DEF L
  <2>5. m \in L /\ L \subseteq E
    BY <2>3, <2>4 DEF L
  <2>6. (CHOOSE s \in L : \A t \in L : ~ Worse(t, s)) = m
    <3>1. \A t \in L : ~ Worse(t, m)
      BY <2>1, <2>5
    <3>2. \A s \in L : (\A t \in L : ~ Worse(t, s)) => s = m
      BY <1>1, <2>5
    <3> QED
      BY <2>5, <3>1, <3>2
  <2> QED
    BY <2>3, <2>6 DEF FirstOf, L
<1>2. ASSUME \A t \in E : t # m => Better(m, t)
      PROVE  m \in Listed(E, Better) /\ FirstOf(Listed(E, Better), Better) = m
  <2>1. \A t \in E : ~ Better(t, m)
    BY <1>0, <1>2 DEF Better
  <2>2. {t \in E : Better(t, m)} = {}
    BY <2>1
  <2>3. m \in Listed(E, Better)
    BY <1>0, <2>2 DEF Listed
  <2>4. Listed(E, Better) \subseteq E
    BY DEF Listed
  <2> DEFINE L == Listed(E, Better)
  <2> HIDE DEF L
  <2>5. m \in L /\ L \subseteq E
    BY <2>3, <2>4 DEF L
  <2>6. (CHOOSE s \in L : \A t \in L : ~ Better(t, s)) = m
    <3>1. \A t \in L : ~ Better(t, m)
      BY <2>1, <2>5
    <3>2. \A s \in L : (\A t \in L : ~ Better(t, s)) => s = m
      BY <1>2, <2>5
    <3> QED
      BY <2>5, <3>1, <3>2
  <2> QED
    BY <2>3, <2>6 DEF FirstOf, L
<1> QED
  BY <1>1, <1>2

\* The status line and the lists, with the cards.
LEMMA StatusFits == ASSUME SummaryTypeOK PROVE StatusFitsCards
<1> DEFINE Low == {s \in SubjectStats(Current) : s.avg <= Problem /\ s.count >= MinSample}
           High == {s \in SubjectStats(Current) : s.avg >= Good /\ s.count >= MinSample}
<1>0. \A s \in SubjectStats(Current) : s.avg \in Int /\ s.at \in Int
  BY StatsOf
<1>1. /\ Eligible \subseteq SubjectStats(Current)
      /\ Low = {s \in Eligible : s.avg <= Problem} /\ High = {s \in Eligible : s.avg >= Good}
  BY DEF Eligible
<1>2. /\ ProblemSubjects(Current) = Listed(Low, Worse) /\ TopSubjects(Current) = Listed(High, Better)
      /\ Listed(Low, Worse) \subseteq Low /\ Listed(High, Better) \subseteq High
  BY DEF ProblemSubjects, TopSubjects, Listed
<1>3. Status = "concern" <=> ProblemSubjects(Current) # {}
  BY DEF Status, Trend
<1> HIDE DEF Low, High
<1>4. TopSubjects(Current) \cap ProblemSubjects(Current) = {}
  BY <1>0, <1>1, <1>2 DEF Problem, Good
<1>5. CASE Eligible = {}
  <2>1. WorstCard = {} /\ ProblemSubjects(Current) = {} /\ TopSubjects(Current) = {}
    BY <1>1, <1>2, <1>5 DEF WorstCard
  <2> QED
    BY <1>3, <2>1 DEF StatusFitsCards
<1>6. CASE Eligible # {}
  <2>1. PICK m \in Eligible : \A t \in Eligible : t # m => Worse(m, t)
    BY <1>1, <1>6, OneIsFirst
  <2>2. PICK b \in Eligible : \A t \in Eligible : t # b => Better(b, t)
    BY <1>1, <1>6, OneIsFirst
  <2>3. \A t \in Eligible : m.avg <= t.avg /\ b.avg >= t.avg /\ t.avg \in Int /\ t.at \in Int
    BY <1>0, <1>1, <2>1, <2>2 DEF Worse, Better
  <2>4. WorstCard = {m}
    <3>1. m \in WorstCard
      BY <2>1, <2>3 DEF WorstCard, FirstOfEqual, Worse, Better
    <3>2. ASSUME NEW s \in WorstCard, s # m PROVE FALSE
      <4>1. /\ s \in Eligible /\ s.avg <= m.avg
            /\ \A t \in Eligible \ {s} : t.avg = s.avg => Better(s, t)
        BY <3>2 DEF WorstCard, FirstOfEqual
      <4>2. s.avg = m.avg /\ m.at > s.at
        BY <2>1, <2>3, <3>2, <4>1 DEF Worse
      <4>3. Better(s, m)
        BY <3>2, <4>1, <4>2
      <4> QED
        BY <2>3, <4>1, <4>2, <4>3 DEF Better
    <3> QED
      BY <3>1, <3>2
  <2>5. TopCard = {b}
    <3>1. b \in TopCard
      BY <2>2, <2>3 DEF TopCard, FirstOfEqual, Better
    <3>2. ASSUME NEW s \in TopCard, s # b PROVE FALSE
      <4>1. /\ s \in Eligible /\ b.avg <= s.avg
            /\ \A t \in Eligible \ {s} : t.avg = s.avg => Better(s, t)
        BY <3>2 DEF TopCard, FirstOfEqual
      <4>2. s.avg = b.avg /\ b.at > s.at
        BY <2>2, <2>3, <3>2, <4>1 DEF Better
      <4>3. Better(s, b)
        BY <3>2, <4>1, <4>2
      <4> QED
        BY <2>3, <4>1, <4>2, <4>3 DEF Better
    <3> QED
      BY <3>1, <3>2
  <2>6. ASSUME Low # {}
        PROVE  m \in ProblemSubjects(Current) /\ FirstOf(ProblemSubjects(Current), Worse) = m
    <3>1. m \in Low
      <4>1. PICK s \in Low : s \in Eligible /\ s.avg <= Problem
        BY <1>1, <2>6
      <4> QED
        BY <1>1, <2>3, <4>1 DEF Problem
    <3>2. \A t \in Low : t # m => Worse(m, t)
      BY <1>1, <2>1
    <3>3. Low \in SUBSET SubjectStats(Current)
      BY <1>1
    <3>4. m \in Listed(Low, Worse) /\ FirstOf(Listed(Low, Worse), Worse) = m
      BY <3>1, <3>2, <3>3, FirstIsListed
    <3> QED
      BY <1>2, <3>4
  <2>7. ASSUME High # {} PROVE FirstOf(TopSubjects(Current), Better) = b
    <3>1. b \in High
      <4>1. PICK s \in High : s \in Eligible /\ s.avg >= Good
        BY <1>1, <2>7
      <4> QED
        BY <1>1, <2>3, <4>1 DEF Good
    <3>2. \A t \in High : t # b => Better(b, t)
      BY <1>1, <2>2
    <3>3. High \in SUBSET SubjectStats(Current)
      BY <1>1
    <3>4. FirstOf(Listed(High, Better), Better) = b
      BY <3>1, <3>2, <3>3, FirstIsListed
    <3> QED
      BY <1>2, <3>4
  <2>8. Status = "concern" <=> m.avg <= Problem
    <3>1. Status = "concern" => Low # {}
      BY <1>2, <1>3
    <3>2. Low # {} <=> m.avg <= Problem
      BY <1>1, <2>3, <2>6, <1>2 DEF Problem
    <3> QED
      BY <1>3, <2>6, <3>1, <3>2
  <2>9. Status = "concern" => Low # {}
    BY <1>2, <1>3
  <2>10. TopSubjects(Current) # {} => High # {}
    BY <1>2
  <2> QED
    BY <1>4, <2>4, <2>5, <2>6, <2>7, <2>8, <2>9, <2>10 DEF StatusFitsCards
<1> QED
  BY <1>5, <1>6

\* The year's report, with the summary.
LEMMA YearFits == ASSUME SummaryTypeOK PROVE YearFitsPeriod
<1> SUFFICES ASSUME Previous = {} PROVE YearGrades = Current
  BY DEF YearFitsPeriod
<1> QED
  BY DEF Previous, Current, YearGrades
-----------------------------------------------------------------------------
(* The trends and the growth. *)

\* The oldest of some grades come before the rest of them.
LEMMA OldestFirst ==
    ASSUME SummaryTypeOK, NEW I \in SUBSET Numeric, NEW k \in Nat
    PROVE  /\ \A i \in Oldest(I, k), j \in I \ Oldest(I, k) : i < j
           /\ k >= 1 /\ I # {} => Oldest(I, k) # {}
           /\ k < Cardinality(I) => I \ Oldest(I, k) # {}
<1> DEFINE Until(i) == {j \in I : j <= i}
<1>1. IsFiniteSet(I) /\ I \subseteq 1..Len(records) /\ Len(records) \in Nat
      /\ \A i \in I : i \in Int
  <2>1. IsFiniteSet(I) /\ I \subseteq 1..Len(records) /\ Len(records) \in Nat
    BY Counted, Positions
  <2> QED
    BY <2>1
<1>2. \A i \in I : IsFiniteSet(Until(i)) /\ Cardinality(Until(i)) \in Nat
  BY <1>1, FS_Subset, FS_CardinalityType
<1>3. ASSUME NEW i \in Oldest(I, k), NEW j \in I \ Oldest(I, k), ~ (i < j) PROVE FALSE
  <2>1. /\ i \in I /\ j \in I /\ j <= i
        /\ Cardinality(Until(i)) <= k /\ ~ (Cardinality(Until(j)) <= k)
    BY <1>1, <1>3 DEF Oldest
  <2>2. Until(j) \in SUBSET Until(i)
    <3>1. \A x \in I : x <= j => x <= i
      BY <1>1, <2>1
    <3> QED
      BY <3>1
  <2>3. Cardinality(Until(j)) <= Cardinality(Until(i))
    BY <1>2, <2>1, <2>2, FS_Subset
  <2>4. Cardinality(Until(j)) \in Nat /\ Cardinality(Until(i)) \in Nat
    BY <1>2, <2>1
  <2> QED
    BY <2>1, <2>3, <2>4
<1>4. ASSUME k >= 1, I # {} PROVE Oldest(I, k) # {}
  <2> DEFINE place == [i \in I |-> i]
  <2>1. \A i \in I : place[i] \in 0..Len(records)
    BY <1>1
  <2>2. PICK i \in I : \A j \in I : place[i] <= place[j]
    BY <1>1, <1>4, <2>1, Extremes
  <2>3. Until(i) = {i}
    <3>1. \A j \in I : j <= i <=> j = i
      BY <1>1, <2>2
    <3> QED
      BY <3>1
  <2>4. Cardinality(Until(i)) = 1
    BY <2>3, FS_Singleton
  <2> QED
    BY <1>4, <2>4 DEF Oldest
<1>5. ASSUME k < Cardinality(I) PROVE I \ Oldest(I, k) # {}
  <2>1. I # {}
    BY <1>5, FS_EmptySet
  <2> DEFINE place == [i \in I |-> i]
  <2>2. \A i \in I : place[i] \in 0..Len(records)
    BY <1>1
  <2>3. PICK i \in I : \A j \in I : place[i] >= place[j]
    BY <1>1, <2>1, <2>2, Extremes
  <2>4. Until(i) = I
    BY <1>1, <2>3
  <2>5. ~ (Cardinality(Until(i)) <= k)
    <3>1. PICK n \in Nat : n = Cardinality(I)
      BY Counted
    <3>2. Cardinality(Until(i)) = n /\ k < n
      BY <1>5, <2>4, <3>1
    <3> QED
      BY <3>2
  <2> QED
    BY <2>3, <2>5 DEF Oldest
<1> QED
  BY <1>3, <1>4, <1>5

\* Where no later grade is better there is no rise, where none is worse no fall.
LEMMA RiseIsEarned ==
    ASSUME SummaryTypeOK, NEW E \in SUBSET Numeric, NEW L \in SUBSET Numeric, E # {}, L # {}
    PROVE  /\ (\A i \in E, j \in L : records[i].value >= records[j].value) =>
                 Total(L) * Cardinality(E) <= Total(E) * Cardinality(L)
           /\ (\A i \in E, j \in L : records[i].value <= records[j].value) =>
                 Total(L) * Cardinality(E) >= Total(E) * Cardinality(L)
<1> DEFINE value == [i \in Numeric |-> records[i].value]
<1>0. PICK five \in Nat : five = 5
  OBVIOUS
<1>1. \A i \in Numeric : value[i] = records[i].value /\ value[i] \in 0..five /\ value[i] \in 1..5
  BY <1>0, Positions
<1>2. /\ Cardinality(E) \in Nat /\ Cardinality(L) \in Nat /\ Total(E) \in Nat /\ Total(L) \in Nat
  BY Counted
<1> HIDE DEF value
<1>3. ASSUME \A i \in E, j \in L : records[i].value >= records[j].value
      PROVE  Total(L) * Cardinality(E) <= Total(E) * Cardinality(L)
  <2>1. PICK k \in L : \A j \in L : value[k] >= value[j]
    BY <1>1, Extremes
  <2>2. PICK m \in 1..5 : m = value[k]
    BY <1>1
  <2>3. (\A i \in E : records[i].value >= m) /\ (\A j \in L : records[j].value <= m)
    BY <1>1, <1>3, <2>1, <2>2
  <2>4. Total(L) <= m * Cardinality(L) /\ m * Cardinality(E) <= Total(E)
    BY <1>2, <2>3, TotalBounds
  <2>5. /\ Total(L) * Cardinality(E) <= (m * Cardinality(L)) * Cardinality(E)
        /\ (m * Cardinality(E)) * Cardinality(L) <= Total(E) * Cardinality(L)
    <3>1. m * Cardinality(L) \in Int /\ m * Cardinality(E) \in Int
      BY <1>2
    <3> QED
      BY <1>2, <2>4, <3>1, Times2
  <2>6. (m * Cardinality(L)) * Cardinality(E) = (m * Cardinality(E)) * Cardinality(L)
    BY <1>2
  <2>7. Total(L) * Cardinality(E) \in Int /\ Total(E) * Cardinality(L) \in Int
        /\ (m * Cardinality(L)) * Cardinality(E) \in Int
    BY <1>2
  <2> QED
    BY <2>5, <2>6, <2>7
<1>4. ASSUME \A i \in E, j \in L : records[i].value <= records[j].value
      PROVE  Total(L) * Cardinality(E) >= Total(E) * Cardinality(L)
  <2>1. PICK k \in L : \A j \in L : value[k] <= value[j]
    BY <1>1, Extremes
  <2>2. PICK m \in 1..5 : m = value[k]
    BY <1>1
  <2>3. (\A i \in E : records[i].value <= m) /\ (\A j \in L : records[j].value >= m)
    BY <1>1, <1>4, <2>1, <2>2
  <2>4. m * Cardinality(L) <= Total(L) /\ Total(E) <= m * Cardinality(E)
    BY <1>2, <2>3, TotalBounds
  <2>5. /\ (m * Cardinality(L)) * Cardinality(E) <= Total(L) * Cardinality(E)
        /\ Total(E) * Cardinality(L) <= (m * Cardinality(E)) * Cardinality(L)
    <3>1. m * Cardinality(L) \in Int /\ m * Cardinality(E) \in Int
      BY <1>2
    <3> QED
      BY <1>2, <2>4, <3>1, Times2
  <2>6. (m * Cardinality(L)) * Cardinality(E) = (m * Cardinality(E)) * Cardinality(L)
    BY <1>2
  <2>7. Total(L) * Cardinality(E) \in Int /\ Total(E) * Cardinality(L) \in Int
        /\ (m * Cardinality(L)) * Cardinality(E) \in Int
    BY <1>2
  <2> QED
    BY <2>5, <2>6, <2>7
<1> QED
  BY <1>3, <1>4

\* The arrow of a subject.
LEMMA ArrowIsEarned ==
    ASSUME SummaryTypeOK, NEW s, NEW own, own = OfSubject(Current, s)
    PROVE  /\ SubjectTrend(s) = "up" =>
                 \E i, j \in own : i < j /\ records[i].value < records[j].value
           /\ SubjectTrend(s) = "down" =>
                 \E i, j \in own : i < j /\ records[i].value > records[j].value
<1>1. own \in SUBSET Numeric
  BY DEF OfSubject, Current
<1>2. PICK n \in Nat, half \in Nat : n = Cardinality(own) /\ half = n \div 2
  BY <1>1, Counted
<1>3. PICK early \in SUBSET own : early = Oldest(own, half)
  BY <1>2 DEF Oldest
<1>4. PICK late \in SUBSET own : late = own \ early
  OBVIOUS
<1>5. PICK e \in Nat, l \in Nat, te \in Nat, tl \in Nat :
         e = Cardinality(early) /\ l = Cardinality(late) /\ te = Total(early) /\ tl = Total(late)
  BY <1>1, Counted
<1>6. SubjectTrend(s) = IF n < 4 THEN "flat"
                        ELSE IF 10 * (tl * e - te * l) >= 3 * (e * l) THEN "up"
                        ELSE IF 10 * (tl * e - te * l) <= -3 * (e * l) THEN "down" ELSE "flat"
  BY <1>2, <1>3, <1>4, <1>5, Zenon DEF SubjectTrend
<1>7. CASE n < 4
  BY <1>6, <1>7
<1>8. CASE n >= 4
  <2>1. half >= 1 /\ half < n /\ own # {}
    <3>1. half >= 1 /\ half < n
      BY <1>2, <1>8
    <3>2. own # {}
      BY <1>2, <1>8, FS_EmptySet
    <3> QED
      BY <3>1, <3>2
  <2>2. early # {} /\ late # {} /\ \A i \in early, j \in late : i < j
    BY <1>1, <1>2, <1>3, <1>4, <2>1, OldestFirst
  <2>3. e > 0 /\ l > 0
    BY <1>1, <1>5, <2>2, Counted
  <2>4. e * l > 0 /\ e * l \in Int /\ tl * e \in Int /\ te * l \in Int
    BY <2>3
  <2>5. SubjectTrend(s) = "up" => tl * e > te * l
    BY <1>6, <1>8, <2>4
  <2>6. SubjectTrend(s) = "down" => tl * e < te * l
    BY <1>6, <1>8, <2>4
  <2>7. \A i \in own : records[i].value \in Int
    BY <1>1, Positions
  <2>8. (\A i \in early, j \in late : records[i].value >= records[j].value) => tl * e <= te * l
    BY <1>1, <1>5, <2>2, RiseIsEarned
  <2>9. (\A i \in early, j \in late : records[i].value <= records[j].value) => tl * e >= te * l
    BY <1>1, <1>5, <2>2, RiseIsEarned
  <2>10. ASSUME SubjectTrend(s) = "up"
         PROVE  \E i, j \in own : i < j /\ records[i].value < records[j].value
    BY <2>2, <2>4, <2>5, <2>7, <2>8, <2>10
  <2>11. ASSUME SubjectTrend(s) = "down"
         PROVE  \E i, j \in own : i < j /\ records[i].value > records[j].value
    BY <2>2, <2>4, <2>6, <2>7, <2>9, <2>11
  <2> QED
    BY <2>10, <2>11
<1> QED
  BY <1>2, <1>7, <1>8

\* The run of fives that ends at i, from the one that ends before it.
RunAfter(run, i) == IF i \notin YearGrades THEN run
                    ELSE IF records[i].value < 5 THEN 0 ELSE run + 1

\* The recursion defines the run at every place of the history.
LEMMA StreakRecursion ==
    ASSUME SummaryTypeOK
    PROVE  /\ StreakUpTo[0] = 0
           /\ \A i \in 1..Len(records) : StreakUpTo[i] = RunAfter(StreakUpTo[i - 1], i)
<1> DEFINE Runs(n, g) == g[0] = 0 /\ \A i \in 1..n : g[i] = RunAfter(g[i - 1], i)
           T == {n \in Nat : \E g : g = [i \in 0..n |-> g[i]] /\ Runs(n, g)}
           N == Len(records)
<1>0. N \in Nat
  BY Positions
<1>1. 0 \in T
  <2> DEFINE g == [i \in 0..0 |-> 0]
  <2>1. g = [i \in 0..0 |-> g[i]] /\ Runs(0, g)
    OBVIOUS
  <2> QED
    BY <2>1
<1>2. ASSUME NEW n \in Nat, n \in T PROVE n + 1 \in T
  <2>1. PICK g : Runs(n, g)
    BY <1>2
  <2> DEFINE h == [i \in 0..(n + 1) |-> IF i <= n THEN g[i] ELSE RunAfter(g[n], n + 1)]
  <2>2. h = [i \in 0..(n + 1) |-> h[i]]
    OBVIOUS
  <2>3. h[0] = g[0] /\ \A i \in 1..n : h[i] = g[i] /\ h[i - 1] = g[i - 1]
    OBVIOUS
  <2>4. h[n + 1] = RunAfter(g[n], n + 1) /\ h[n] = g[n]
    OBVIOUS
  <2> HIDE DEF h
  <2>5. \A i \in 1..(n + 1) : h[i] = RunAfter(h[i - 1], i)
    <3> TAKE i \in 1..(n + 1)
    <3>1. CASE i = n + 1
      <4>1. i - 1 = n
        BY <3>1
      <4> QED
        BY <2>4, <3>1, <4>1
    <3>2. CASE i \in 1..n
      BY <2>1, <2>3, <3>2
    <3> QED
      BY <3>1, <3>2
  <2>6. Runs(n + 1, h)
    BY <2>1, <2>3, <2>5
  <2>7. \E f : f = [i \in 0..(n + 1) |-> f[i]] /\ Runs(n + 1, f)
    <3> HIDE DEF Runs
    <3> QED
      BY <2>2, <2>6, Zenon
  <2>8. n + 1 \in Nat
    OBVIOUS
  <2> HIDE DEF Runs
  <2> QED
    BY <2>7, <2>8, Zenon
<1> HIDE DEF T
<1>3. N \in T
  BY <1>0, <1>1, <1>2, SetInduction
<1>4. PICK g : g = [i \in 0..N |-> g[i]] /\ Runs(N, g)
  BY <1>3 DEF T
<1>5. g = [i \in 0..N |-> IF i = 0 THEN 0
                          ELSE IF i \notin YearGrades THEN g[i - 1]
                          ELSE IF records[i].value < 5 THEN 0 ELSE g[i - 1] + 1]
  <2>1. \A i \in 0..N : g[i] = IF i = 0 THEN 0
                               ELSE IF i \notin YearGrades THEN g[i - 1]
                               ELSE IF records[i].value < 5 THEN 0 ELSE g[i - 1] + 1
    <3> TAKE i \in 0..N
    <3>1. i = 0 \/ i \in 1..N
      BY <1>0
    <3> QED
      BY <1>4, <3>1 DEF RunAfter
  <2> QED
    BY <1>4, <2>1
<1>6. StreakUpTo = [i \in 0..N |-> IF i = 0 THEN 0
                                   ELSE IF i \notin YearGrades THEN StreakUpTo[i - 1]
                                   ELSE IF records[i].value < 5 THEN 0 ELSE StreakUpTo[i - 1] + 1]
  BY <1>5 DEF StreakUpTo
<1>7. StreakUpTo[0] = 0
  BY <1>0, <1>6
<1>8. ASSUME NEW i \in 1..N PROVE StreakUpTo[i] = RunAfter(StreakUpTo[i - 1], i)
  <2>1. i \in 0..N /\ i # 0
    BY <1>0
  <2> QED
    BY <1>6, <2>1 DEF RunAfter
<1> QED
  BY <1>7, <1>8

\* The run that ends at i is of grades up to i, and it is of all of them only when
\* all of them are fives.
LEMMA StreakCounts ==
    ASSUME SummaryTypeOK, NEW i \in 0..Len(records),
           NEW before, before = {j \in YearGrades : j <= i}
    PROVE  /\ StreakUpTo[i] \in Nat /\ StreakUpTo[i] <= Cardinality(before)
           /\ StreakUpTo[i] = Cardinality(before) => \A j \in before : records[j].value = 5
<1> DEFINE Until(k) == {j \in YearGrades : j <= k}
           Fine(k) == /\ StreakUpTo[k] \in Nat /\ StreakUpTo[k] <= Cardinality(Until(k))
                      /\ StreakUpTo[k] = Cardinality(Until(k)) =>
                            \A j \in Until(k) : records[j].value = 5
           T == {k \in Nat : k <= Len(records) => Fine(k)}
<1>0. Len(records) \in Nat /\ YearGrades \subseteq 1..Len(records)
  BY Positions DEF YearGrades
<1>1. 0 \in T
  <2>1. Until(0) = {}
    <3>1. \A j \in YearGrades : ~ (j <= 0)
      BY <1>0
    <3> QED
      BY <3>1
  <2>2. Fine(0)
    <3>1. StreakUpTo[0] = 0 /\ Cardinality(Until(0)) = 0
      BY <2>1, StreakRecursion, FS_EmptySet
    <3> QED
      BY <2>1, <3>1
  <2> QED
    BY <2>2
<1>2. ASSUME NEW k \in Nat, k \in T PROVE k + 1 \in T
  <2> SUFFICES ASSUME k + 1 <= Len(records) PROVE Fine(k + 1)
    OBVIOUS
  <2>1. Fine(k)
    <3>1. k <= Len(records)
      BY <1>0
    <3> HIDE DEF Fine
    <3> QED
      BY <1>2, <3>1
  <2>2. PICK run \in Nat, n \in Nat :
           /\ run = StreakUpTo[k] /\ n = Cardinality(Until(k)) /\ run <= n
           /\ run = n => \A j \in Until(k) : records[j].value = 5
    <3>1. Until(k) \in SUBSET Numeric
      BY DEF YearGrades
    <3> QED
      BY <2>1, <3>1, Counted
  <2>3. StreakUpTo[k + 1] = RunAfter(run, k + 1)
    <3>1. PICK m \in 1..Len(records) : m = k + 1 /\ m - 1 = k
      BY <1>0
    <3>2. StreakUpTo[m] = RunAfter(StreakUpTo[m - 1], m)
      BY <3>1, StreakRecursion
    <3> QED
      BY <2>2, <3>1, <3>2
  <2>4. CASE k + 1 \notin YearGrades
    <3>1. Until(k + 1) = Until(k)
      <4>1. \A j \in YearGrades : j <= k + 1 <=> j <= k
        BY <1>0, <2>4
      <4> QED
        BY <4>1
    <3>2. StreakUpTo[k + 1] = run
      BY <2>3, <2>4 DEF RunAfter
    <3> QED
      BY <2>2, <3>1, <3>2
  <2>5. CASE k + 1 \in YearGrades
    <3>1. Until(k + 1) = Until(k) \cup {k + 1} /\ k + 1 \notin Until(k)
      <4>1. \A j \in YearGrades : j <= k + 1 <=> j <= k \/ j = k + 1
        BY <1>0
      <4>2. ~ (k + 1 <= k)
        OBVIOUS
      <4> QED
        BY <2>5, <4>1, <4>2
    <3>2. IsFiniteSet(Until(k))
      <4>1. Until(k) \in SUBSET Numeric
        BY DEF YearGrades
      <4> QED
        BY <4>1, Counted
    <3>3. Cardinality(Until(k + 1)) = n + 1
      BY <2>2, <3>1, <3>2, FS_AddElement
    <3>4. records[k + 1].value \in 1..5
      BY <2>5, Positions DEF YearGrades
    <3>5. CASE records[k + 1].value < 5
      BY <2>3, <2>5, <3>3, <3>5 DEF RunAfter
    <3>6. CASE records[k + 1].value = 5
      <4>1. StreakUpTo[k + 1] = run + 1
        BY <2>3, <2>5, <3>6 DEF RunAfter
      <4> QED
        BY <2>2, <3>1, <3>3, <3>6, <4>1
    <3> QED
      BY <3>4, <3>5, <3>6
  <2> QED
    BY <2>4, <2>5
<1>3. i \in T
  <2> HIDE DEF T
  <2> QED
    BY <1>0, <1>1, <1>2, SetInduction
<1>4. i <= Len(records)
  BY <1>0
<1> QED
  BY <1>3, <1>4

\* When the longest run is of all the year's grades they are fives, and a year of
\* fives shows no growth.
LEMMA FivesDoNotGrow ==
    ASSUME SummaryTypeOK, BestStreak = Cardinality(YearGrades), Growth # None
    PROVE  Growth = 0
<1>1. YearGrades \in SUBSET Numeric /\ YearGrades \subseteq 1..Len(records) /\ Len(records) \in Nat
  BY Positions DEF YearGrades
<1>2. PICK n \in Nat : n = Cardinality(YearGrades)
  BY <1>1, Counted
<1>3. \A i \in YearGrades : records[i].value = 5
  <2> DEFINE S == {StreakUpTo[i] : i \in 0..Len(records)}
  <2>1. \A i \in 0..Len(records) :
           /\ StreakUpTo[i] \in 0..n
           /\ StreakUpTo[i] = n => \A j \in YearGrades : records[j].value = 5
    <3> TAKE i \in 0..Len(records)
    <3>1. PICK before \in SUBSET YearGrades : before = {j \in YearGrades : j <= i}
      OBVIOUS
    <3>2. PICK c \in Nat : c = Cardinality(before)
      BY <1>1, Counted
    <3>3. c <= n /\ (c = n => before = YearGrades)
      <4>1. IsFiniteSet(YearGrades)
        BY <1>1, Counted
      <4> QED
        BY <1>2, <3>2, <4>1, FS_Subset
    <3>4. StreakUpTo[i] \in Nat /\ StreakUpTo[i] <= c
          /\ (StreakUpTo[i] = c => \A j \in before : records[j].value = 5)
      BY <3>1, <3>2, StreakCounts
    <3> QED
      BY <3>3, <3>4
  <2>2. S \in SUBSET (0..n) /\ S # {} /\ BestStreak = Max(S)
    BY <1>1, <2>1 DEF BestStreak
  <2>3. n \in S
    BY <1>2, <2>2, Greatest
  <2> QED
    BY <2>1, <2>3
<1>4. n >= GrowthSample /\ GrowthSample \in Nat /\ GrowthSample >= 3
  BY <1>2, SummaryAssumption DEF SummaryAssumption, Growth
<1>5. PICK third \in Nat, rest \in Nat : third = n \div 3 /\ rest = n - third /\ third >= 1 /\ rest < n
  <2>1. n >= 3
    BY <1>4
  <2>2. n \div 3 \in Nat /\ n \div 3 >= 1 /\ n \div 3 <= n /\ n - (n \div 3) \in Nat
        /\ n - (n \div 3) < n
    BY <2>1
  <2> QED
    BY <2>2
<1>6. PICK early \in SUBSET YearGrades, late \in SUBSET YearGrades :
         early = Oldest(YearGrades, third) /\ late = YearGrades \ Oldest(YearGrades, rest)
  BY DEF Oldest
<1>7. early # {} /\ late # {}
  <2>1. YearGrades # {}
    BY <1>2, <1>4, FS_EmptySet
  <2> QED
    BY <1>1, <1>2, <1>5, <1>6, <2>1, OldestFirst
<1>8. PICK e \in Nat \ {0}, l \in Nat \ {0}, te \in Nat, tl \in Nat :
         e = Cardinality(early) /\ l = Cardinality(late) /\ te = Total(early) /\ tl = Total(late)
  BY <1>1, <1>7, Counted
<1>9. Growth = Round2(tl * e - te * l, e * l)
  <2>1. Growth = IF n < GrowthSample THEN None ELSE Round2(tl * e - te * l, e * l)
    BY <1>2, <1>5, <1>6, <1>8, Zenon DEF Growth
  <2> QED
    BY <1>4, <2>1
<1>10. te = 5 * e /\ tl = 5 * l
  <2>1. (\A i \in early : records[i].value <= 5 /\ records[i].value >= 5)
        /\ (\A i \in late : records[i].value <= 5 /\ records[i].value >= 5)
    BY <1>3
  <2>2. te <= 5 * e /\ te >= 5 * e /\ tl <= 5 * l /\ tl >= 5 * l
    <3>1. PICK m \in 1..5 : m = 5
      OBVIOUS
    <3>2. te <= m * e /\ te >= m * e /\ tl <= m * l /\ tl >= m * l
      BY <1>1, <1>8, <2>1, <3>1, TotalBounds
    <3> QED
      BY <3>1, <3>2
  <2> QED
    BY <2>2
<1>11. PICK d \in Nat \ {0}, z \in Int : d = e * l /\ z = tl * e - te * l /\ z = 0
  <2>1. e * l \in Nat \ {0} /\ tl * e - te * l = 0
    BY <1>10
  <2> QED
    BY <2>1
<1>12. PICK q \in Int : q = Round2(z, d) /\ 2 * d * q <= 200 * z + d /\ 200 * z + d < 2 * d * (q + 1)
  BY Rounded
<1>13. q = 0
  <2>1. PICK k \in Int : k = 0
    OBVIOUS
  <2>2. z <= k * d /\ z >= k * d
    BY <1>11, <2>1
  <2>3. Round2(z, d) <= 100 * k /\ Round2(z, d) >= 100 * k
    BY <2>2, RoundWithin
  <2> QED
    BY <1>12, <2>1, <2>3
<1> QED
  BY <1>9, <1>11, <1>12, <1>13

LEMMA TrendsEarned == ASSUME SummaryTypeOK PROVE TrendsAreEarned
<1>1. Trend # "stable" => Cardinality(Current) >= MinSample /\ Cardinality(Previous) >= MinSample
  BY DEF Trend, Delta
<1>2. ASSUME NEW s \in Subjects PROVE QuarterTrend(s) # "flat" => Cardinality(Known(s)) >= 2
  <2>1. PICK n \in Nat : n = Cardinality(Known(s))
    <3>1. PICK four \in Int : four = 4
      OBVIOUS
    <3>2. IsFiniteSet(1..four)
      BY FS_Interval
    <3>3. Known(s) \in SUBSET (1..four)
      BY <3>1 DEF Known
    <3> QED
      BY <3>2, <3>3, FS_Subset, FS_CardinalityType
  <2>2. n < 2 => QuarterTrend(s) = "flat"
    BY <2>1 DEF QuarterTrend
  <2> QED
    BY <2>1, <2>2
<1>3. ASSUME NEW s \in Subjects, NEW own, own = OfSubject(Current, s)
      PROVE  /\ SubjectTrend(s) = "up" =>
                   \E i, j \in own : i < j /\ records[i].value < records[j].value
             /\ SubjectTrend(s) = "down" =>
                   \E i, j \in own : i < j /\ records[i].value > records[j].value
  BY <1>3, ArrowIsEarned
<1> QED
  BY <1>1, <1>2, <1>3, FivesDoNotGrow DEF TrendsAreEarned

\* The history and the quarter table keep their types.
LEMMA SummaryStart == ASSUME SummaryInit PROVE SummaryTypeOK
<1>1. Len(<<>>) = 0 /\ MaxRecords \in Nat
  BY SummaryAssumption DEF SummaryAssumption
<1> QED
  BY <1>1 DEF SummaryInit, SummaryTypeOK

LEMMA SummaryStep == SummaryTypeOK /\ [SummaryNext]_summaryVars => SummaryTypeOK'
<1> SUFFICES ASSUME SummaryTypeOK, [SummaryNext]_summaryVars PROVE SummaryTypeOK'
  OBVIOUS
<1>1. ASSUME NEW s \in Subjects, NEW v \in Points \cup {Text}, NEW day \in 0..2, Grade(s, v, day)
      PROVE  SummaryTypeOK'
  <2> DEFINE g == [subject |-> s, value |-> v, day |-> day, current |-> day >= 1, month |-> day \div 2]
  <2>1. day \div 2 \in 0..1 /\ (day >= 1) \in BOOLEAN
    OBVIOUS
  <2>2. g \in [subject : Subjects, value : Points \cup {Text}, day : 0..2,
               current : BOOLEAN, month : 0..1]
    BY <2>1
  <2>3. records' = Append(records, g) /\ Len(records) < MaxRecords /\ UNCHANGED quarterly
    BY <1>1 DEF Grade
  <2> HIDE DEF g
  <2> QED
    BY <2>2, <2>3, SummaryAssumption DEF SummaryTypeOK, SummaryAssumption
<1>2. ASSUME NEW s \in Subjects, NEW v \in Points \cup {Text}, NEW q \in 1..5, QuarterGrade(s, q, v)
      PROVE  SummaryTypeOK'
  BY <1>2 DEF QuarterGrade, SummaryTypeOK
<1>3. CASE UNCHANGED summaryVars
  BY <1>3 DEF summaryVars, SummaryTypeOK
<1> QED
  BY <1>1, <1>2, <1>3 DEF SummaryNext

\* The blocks of the dashboard agree on every history and quarter table.
LEMMA Agreement == SummaryTypeOK => ScreensAgree
  BY StatusFits, YearFits, AveragesBetween, TrendsEarned DEF ScreensAgree

\* The status line agrees with the cards, the year's report with the summary, every
\* average with its parts and the trends with their samples, for any subjects, any
\* history and any thresholds of the samples and of the lists (webapp/app.py 182-690).
THEOREM BlocksAgree == SummarySpec => []ScreensAgree
  BY SummaryStart, SummaryStep, Agreement, PTL DEF SummarySpec
-----------------------------------------------------------------------------
(* The records together, as their run explores them: a step is one component's *)
(* and leaves the others alone.                                                *)

\* The academic year, the quarter grades, the dashboard, its computations and the
\* archive keep their types side by side.
THEOREM RecordsTypes == RecordsSpec => []RecordsTypeOK
<1> DEFINE Inv == /\ TypeOK /\ NoneAhead /\ QuarterInv /\ PageTold /\ TagInv /\ ArchiveInv
                  /\ SummaryTypeOK
<1>1. RecordsInit => Inv
  BY CalendarStart, QuarterStart, PageStart, TagStart, ArchiveStart, SummaryStart DEF RecordsInit
<1>2. Inv /\ [RecordsNext]_allVars => Inv'
  <2> SUFFICES ASSUME Inv, [RecordsNext]_allVars PROVE Inv'
    OBVIOUS
  <2>1. /\ [Next]_vars /\ [QuarterNext]_quarterVars
        /\ [DashboardNext]_dashboardVars /\ [ArchiveNext]_archiveVars
        /\ [SummaryNext]_summaryVars
    BY Zenon DEF RecordsNext, allVars
  <2>2. TypeOK' /\ NoneAhead'
    BY <2>1, CalendarTypes, NoneAheadStep
  <2>3. PageTold' /\ TagInv'
    BY <2>1, PageStep, TagStep DEF PageTold
  <2> QED
    BY <2>1, <2>2, <2>3, QuarterStep, ArchiveStep, SummaryStep
<1>3. Inv => RecordsTypeOK
  BY DashboardShape DEF RecordsTypeOK, QuarterInv, ArchiveInv, PageTold
<1> HIDE DEF Inv
<1> QED
  BY <1>1, <1>2, <1>3, PTL DEF RecordsSpec

\* What the run explores is a behaviour of each component, however the others rest,
\* so that all that is proved of one of them holds in the run's specification.
THEOREM EachRecordIsItself ==
    RecordsSpec => Spec /\ QuarterSpec /\ DashboardSpec /\ SummarySpec /\ ArchiveSpec
<1>1. RecordsInit => Init /\ QuarterInit /\ DashboardInit /\ SummaryInit /\ ArchiveInit
  BY DEF RecordsInit
<1>2. [RecordsNext]_allVars => /\ [Next]_vars /\ [QuarterNext]_quarterVars
                               /\ [DashboardNext]_dashboardVars /\ [ArchiveNext]_archiveVars
                               /\ [SummaryNext]_summaryVars
  BY Zenon DEF RecordsNext, allVars
<1> QED
  BY <1>1, <1>2, PTL
     DEF RecordsSpec, Spec, QuarterSpec, DashboardSpec, SummarySpec, ArchiveSpec

\* The run's specification keeps every safety property it checks, for any sheets not
\* older than last year's and any days of one school year from its autumn on.
THEOREM RecordsAreSafe ==
    ASSUME OneSchoolYear, RecentSheets
    PROVE  RecordsSpec => [](/\ LastYearStaysQuiet /\ HistoryDatesAreTrue /\ QuartersAreKnown
                             /\ EachGradeOnce /\ NotModifiedIsTrue /\ ScreensAgree)
<1>1. (Spec => []LastYearStaysQuiet) /\ (Spec => []HistoryDatesAreTrue)
  BY OldGradesStayQuiet, HistoryIsDatedRight
<1> QED
  BY <1>1, EachRecordIsItself, QuartersKnown, GradesKept, NotModifiedTold, BlocksAgree, PTL
=============================================================================
