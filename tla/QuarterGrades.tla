--------------------------- MODULE QuarterGrades ---------------------------
(***************************************************************************)
(* Quarter grades of one student in one academic year (monitor_engine      *)
(* 943-1073, history_importer 480-549, db/grades 252-283).  Twice a day    *)
(* the scheduler reads the sheet "Chetverti", compares each cell with the  *)
(* table, stores what differs and tells the parents at once; there is no   *)
(* outbox.  The importer stores the same cells without telling anybody: in *)
(* a thread of its own when the bot starts, a child is added or a sheet is *)
(* linked anew.  Each works on the sheet as it read it, whatever the       *)
(* teacher and the other have done since.                                  *)
(***************************************************************************)
EXTENDS Naturals, FiniteSets

CONSTANTS
    Cells,        \* (subject, quarter)
    Values,
    Blank,        \* an empty cell, or no row
    Adults,       \* parents of the student
    MaxEdits,     \* bound: edits of the teacher
    MaxImports,   \* bound: imports
    MaxLosses     \* bound: failed calls and crashes

ASSUME QuarterAssumption ==
    /\ Blank \notin Values
    /\ MaxEdits \in Nat /\ MaxImports \in Nat /\ MaxLosses \in Nat

VARIABLES
    sheet,        \* the teacher's sheet
    table,        \* quarter_grades
    members,      \* get_parents_for_student
    readers,      \* for "check" and "import": phase, sheet as read, cells left, cell, old value
    toTell,        \* parents the check has still to tell of its cell
    edits, imports, losses,
    known,        \* ghost: the value each parent was last told, or found on joining
    unannounced        \* ghost: pairs of parent and cell that something excuses

quarterVars == <<sheet, table, members, readers, toTell, edits, imports, losses, known, unannounced>>

Contents == [Cells -> Values \cup {Blank}]
Off == [at |-> "off"]
Readers == {"check", "import"}
Busy(r) == readers[r] # Off
Reading(r, step) == readers[r].at = step
-----------------------------------------------------------------------------
QuarterInit ==
    /\ sheet = [c \in Cells |-> Blank] /\ table = [c \in Cells |-> Blank]
    /\ members = Adults
    /\ readers = [r \in Readers |-> Off] /\ toTell = {}
    /\ edits = 0 /\ imports = 0 /\ losses = 0
    /\ known = [a \in Adults |-> [c \in Cells |-> Blank]]
    /\ unannounced = {}

Loss == losses < MaxLosses /\ losses' = losses + 1

TeacherMarks(c) ==
    /\ edits < MaxEdits /\ edits' = edits + 1
    /\ \E v \in Values \cup {Blank} : sheet' = [sheet EXCEPT ![c] = v]
    /\ UNCHANGED <<table, members, readers, toTell, imports, losses, known, unannounced>>

\* Who joins finds the table as it is.
ParentComesOrGoes(a) ==
    /\ edits < MaxEdits /\ edits' = edits + 1
    /\ \/ a \in members /\ members' = members \ {a} /\ UNCHANGED <<known, unannounced>>
       \/ a \notin members /\ members' = members \cup {a}
          /\ known' = [known EXCEPT ![a] = table] /\ unannounced' = unannounced \ ({a} \X Cells)
    /\ UNCHANGED <<sheet, table, readers, toTell, imports, losses>>

\* The sheet is read once; a sheet that cannot be read ends the pass.
Reads(r) ==
    /\ ~ Busy(r)
    /\ readers' = [readers EXCEPT ![r] = [at |-> "next", data |-> sheet,
                                          left |-> {c \in Cells : sheet[c] # Blank},
                                          cell |-> Blank, old |-> Blank]]

CheckStarts ==
    /\ Reads("check")
    /\ UNCHANGED <<sheet, table, members, toTell, edits, imports, losses, known, unannounced>>

ImportStarts ==
    /\ imports < MaxImports /\ imports' = imports + 1
    /\ Reads("import")
    /\ UNCHANGED <<sheet, table, members, toTell, edits, losses, known, unannounced>>

\* The check looks at the old value before it stores the new one.
NextCell(r, c) ==
    /\ Reading(r, "next") /\ c \in readers[r].left
    /\ readers' = [readers EXCEPT ![r].at = "compare", ![r].left = @ \ {c}, ![r].cell = c,
                                  ![r].old = table[c]]
    /\ UNCHANGED <<sheet, table, members, toTell, edits, imports, losses, known, unannounced>>

\* upsert_quarter_grade: the value is compared, then written, in one transaction
\* that does not keep the other reader out.
Compare(r) ==
    /\ Reading(r, "compare")
    /\ LET same == table[readers[r].cell] = readers[r].data[readers[r].cell] IN
       readers' = [readers EXCEPT ![r].at = IF same THEN "next" ELSE "write"]
    /\ UNCHANGED <<sheet, table, members, toTell, edits, imports, losses, known, unannounced>>

Stores(r) ==
    /\ Reading(r, "write")
    /\ table' = [table EXCEPT ![readers[r].cell] = readers[r].data[readers[r].cell]]

\* Deviation: the check tells of first grades only, not of corrections.
CheckStoresFirstOnly ==
    /\ Stores("check")
    /\ LET first == readers["check"].old = Blank IN
       /\ toTell' = IF first THEN members ELSE {}
       /\ readers' = [readers EXCEPT !["check"].at = IF first THEN "tell" ELSE "next"]
    /\ UNCHANGED <<sheet, members, edits, imports, losses, known, unannounced>>

CheckStores ==
    /\ Stores("check")
    /\ toTell' = members
    /\ readers' = [readers EXCEPT !["check"].at = IF members = {} THEN "next" ELSE "tell"]
    /\ UNCHANGED <<sheet, members, edits, imports, losses, known, unannounced>>

ImportStores ==
    /\ Stores("import")
    /\ readers' = [readers EXCEPT !["import"].at = "next"]
    /\ unannounced' = unannounced \cup (Adults \X {readers["import"].cell})
    /\ UNCHANGED <<sheet, members, toTell, edits, imports, losses, known>>

\* Sent at any hour: force keeps the message out of the night queue.
Tell(a) ==
    LET c == readers["check"].cell IN
    /\ Reading("check", "tell") /\ a \in toTell
    /\ toTell' = toTell \ {a}
    /\ \/ /\ known' = [known EXCEPT ![a][c] = readers["check"].data[c]]
          /\ unannounced' = IF table[c] = readers["check"].data[c]
                       THEN unannounced \ {<<a, c>>} ELSE unannounced \cup {<<a, c>>}
          /\ UNCHANGED losses
       \/ Loss /\ unannounced' = unannounced \cup {<<a, c>>} /\ UNCHANGED known
    /\ UNCHANGED <<sheet, table, members, readers, edits, imports>>

CellDone ==
    /\ Reading("check", "tell") /\ toTell = {}
    /\ readers' = [readers EXCEPT !["check"].at = "next"]
    /\ UNCHANGED <<sheet, table, members, toTell, edits, imports, losses, known, unannounced>>

ReaderEnds(r) ==
    /\ Reading(r, "next") /\ readers[r].left = {}
    /\ readers' = [readers EXCEPT ![r] = Off]
    /\ UNCHANGED <<sheet, table, members, toTell, edits, imports, losses, known, unannounced>>

\* A call fails and ends the pass of one reader, or the process dies and ends both.
PassLost(lost) ==
    /\ \E r \in lost : Busy(r)
    /\ Loss
    /\ readers' = [r \in Readers |-> IF r \in lost THEN Off ELSE readers[r]]
    /\ toTell' = IF "check" \in lost THEN {} ELSE toTell
    /\ unannounced' = IF "check" \in lost /\ Busy("check") /\ Reading("check", "tell")
                 THEN unannounced \cup (toTell \X {readers["check"].cell}) ELSE unannounced
    /\ UNCHANGED <<sheet, table, members, edits, imports, known>>

QuarterNext ==
    \/ CheckStarts \/ ImportStarts \/ CheckStores \/ ImportStores \/ CellDone
    \/ \E c \in Cells : TeacherMarks(c) \/ (\E r \in Readers : NextCell(r, c))
    \/ \E a \in Adults : ParentComesOrGoes(a) \/ Tell(a)
    \/ \E r \in Readers : Compare(r) \/ ReaderEnds(r) \/ PassLost({r})
    \/ PassLost(Readers)

QuarterSpec == QuarterInit /\ [][QuarterNext]_quarterVars
-----------------------------------------------------------------------------
Passes == [at : {"next", "compare", "write", "tell"}, data : Contents, left : SUBSET Cells,
           cell : Cells \cup {Blank}, old : Values \cup {Blank}]

QuarterTypeOK ==
    /\ sheet \in Contents /\ table \in Contents /\ members \subseteq Adults
    /\ readers \in [Readers -> Passes \cup {Off}]
    /\ \A r \in Readers : readers[r].at \notin {"off", "next"} => readers[r].cell \in Cells
    /\ toTell \subseteq Adults /\ edits \in 0..MaxEdits /\ imports \in 0..MaxImports
    /\ losses \in 0..MaxLosses /\ known \in [Adults -> Contents]
    /\ unannounced \subseteq Adults \X Cells

\* Nobody is left with an old quarter grade (monitor_engine 1014-1071): between
\* two passes every parent has been told the stored value of every cell, or
\* found it on joining, unless the importer was the one to store it, a message
\* failed or the check was cut short before this parent's turn.
QuartersAreKnown ==
    ~ Busy("check") =>
        \A a \in members, c \in Cells : known[a][c] = table[c] \/ <<a, c>> \in unannounced
=============================================================================
