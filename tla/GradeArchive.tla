---------------------------- MODULE GradeArchive ----------------------------
(***************************************************************************)
(* Where a grade is kept.  The weekly cleanup moves grades older than 180  *)
(* days from grade_history to grade_history_archive (db/maintenance        *)
(* 15-76); the dashboard reads both tables with UNION ALL (db/grades       *)
(* 338-418) and so counts a grade that is in both twice.  The importers    *)
(* (history_importer 293-416) run in threads of their own, at the start,   *)
(* every hour and after a change of link.  Each fetches a sheet, reads in  *)
(* one query what both tables hold, and stores what it did not find there. *)
(*                                                                         *)
(* An entry is a content key: subject, date and text of one student, which *)
(* both tables hold once at most.  A step of a transaction is an action if *)
(* it reads; what it writes is seen when it commits.                       *)
(***************************************************************************)
EXTENDS Naturals

CONSTANTS
    Grades,         \* content keys
    Given,          \* their dates
    Importers,      \* threads that import
    ArchiveAfter,   \* GRADE_ARCHIVE_DAYS
    LastDate        \* bound: time

ASSUME ArchiveAssumption ==
    /\ Given \in [Grades -> Nat] /\ ArchiveAfter \in Nat /\ LastDate \in Nat

VARIABLES
    date,      \* today in Tashkent
    live,      \* grade_history
    archived,  \* grade_history_archive
    step,      \* of each importer: "idle", "fetched" or "writing"
    found,     \* the grades of its sheet dated before today; once it has looked,
               \* those that are in neither table
    moving,    \* the archive's transaction is open
    chosen,    \* the rows it selected
    missed,    \* ghost: what others stored since an importer looked
    twice,     \* ghost: stored again by an importer that had missed it
    kept       \* ghost: stored and not erased

archiveVars == <<date, live, archived, step, found, moving, chosen, missed, twice, kept>>
importing == <<step, found>>

Old(g) == Given[g] + ArchiveAfter < date
-----------------------------------------------------------------------------
ArchiveInit ==
    /\ date = 0 /\ live = {} /\ archived = {}
    /\ step = [i \in Importers |-> "idle"]
    /\ found = [i \in Importers |-> {}]
    /\ moving = FALSE /\ chosen = {}
    /\ missed = [i \in Importers |-> {}] /\ twice = {} /\ kept = {}

Midnight ==
    /\ date < LastDate /\ date' = date + 1
    /\ UNCHANGED <<live, archived, importing, moving, chosen, missed, twice, kept>>

\* The monitor stores and erases grades of today only.  An importer that has
\* looked already does not know of them.
MonitorStores(g) ==
    /\ Given[g] = date
    /\ live' = live \cup {g} /\ kept' = kept \cup {g}
    /\ missed' = [i \in Importers |-> IF step[i] = "writing" THEN missed[i] \cup {g}
                                                            ELSE missed[i]]
    /\ UNCHANGED <<date, archived, importing, moving, chosen, twice>>
MonitorErases(g) ==
    /\ Given[g] = date /\ live' = live \ {g} /\ kept' = kept \ {g}
    /\ UNCHANGED <<date, archived, importing, moving, chosen, missed, twice>>
-----------------------------------------------------------------------------
(* An importer.                                                            *)

\* The sheet may show any grades; today's and later ones are left to the monitor.
FetchSheet(i) ==
    /\ step[i] = "idle" /\ step' = [step EXCEPT ![i] = "fetched"]
    /\ \E sheet \in SUBSET Grades :
          found' = [found EXCEPT ![i] = {g \in sheet : Given[g] < date}]
    /\ UNCHANGED <<date, live, archived, moving, chosen, missed, twice, kept>>

\* Mutant: only grade_history is looked into.
LookIntoLive(i) ==
    /\ step[i] = "fetched" /\ step' = [step EXCEPT ![i] = "writing"]
    /\ found' = [found EXCEPT ![i] = @ \ live]
    /\ UNCHANGED <<date, live, archived, moving, chosen, missed, twice, kept>>

LookIntoBoth(i) ==
    /\ step[i] = "fetched" /\ step' = [step EXCEPT ![i] = "writing"]
    /\ found' = [found EXCEPT ![i] = @ \ (live \cup archived)]
    /\ UNCHANGED <<date, live, archived, moving, chosen, missed, twice, kept>>

ImportOver(i) ==
    /\ step' = [step EXCEPT ![i] = "idle"] /\ found' = [found EXCEPT ![i] = {}]

\* A row that is in grade_history by now is a conflict and stays as it is.
StoreFresh(i) ==
    /\ step[i] = "writing" /\ ImportOver(i)
    /\ live' = live \cup found[i] /\ kept' = kept \cup found[i]
    /\ missed' = [j \in Importers |-> IF j = i THEN {}
                                       ELSE IF step[j] = "writing" THEN missed[j] \cup found[i]
                                       ELSE missed[j]]
    /\ twice' = twice \cup (found[i] \cap missed[i])
    /\ UNCHANGED <<date, archived, moving, chosen>>

\* No sheet, no connection, or the process ends: nothing was committed.
ImportAborts(i) ==
    /\ step[i] # "idle" /\ ImportOver(i) /\ missed' = [missed EXCEPT ![i] = {}]
    /\ UNCHANGED <<date, live, archived, moving, chosen, twice, kept>>
-----------------------------------------------------------------------------
(* The archive.                                                            *)

ChooseOld ==
    /\ ~ moving /\ moving' = TRUE
    /\ chosen' = {g \in live : Old(g)}
    /\ UNCHANGED <<date, live, archived, importing, missed, twice, kept>>

\* Insert, unless the archive has it, and delete, by ids.
MoveChosen ==
    /\ moving /\ moving' = FALSE /\ chosen' = {}
    /\ archived' = archived \cup (live \cap chosen)
    /\ live' = live \ chosen /\ twice' = twice \ chosen
    /\ UNCHANGED <<date, importing, missed, kept>>

ArchiveFails ==
    /\ moving /\ moving' = FALSE /\ chosen' = {}
    /\ UNCHANGED <<date, live, archived, importing, missed, twice, kept>>

ArchiveNext ==
    \/ Midnight
    \/ \E g \in Grades : MonitorStores(g) \/ MonitorErases(g)
    \/ \E i \in Importers : FetchSheet(i) \/ LookIntoBoth(i) \/ StoreFresh(i) \/ ImportAborts(i)
    \/ ChooseOld \/ MoveChosen \/ ArchiveFails

ArchiveSpec == ArchiveInit /\ [][ArchiveNext]_archiveVars
-----------------------------------------------------------------------------
ArchiveTypeOK ==
    /\ date \in 0..LastDate
    /\ live \subseteq Grades /\ archived \subseteq Grades /\ chosen \subseteq Grades
    /\ twice \subseteq Grades /\ kept \subseteq Grades /\ moving \in BOOLEAN
    /\ step \in [Importers -> {"idle", "fetched", "writing"}]
    /\ found \in [Importers -> SUBSET Grades]
    /\ missed \in [Importers -> SUBSET Grades]

\* Every grade once (db/grades 349-350, maintenance 15-33, history_importer
\* 333-360): no grade that was stored and not erased gets lost between the two
\* tables, however imports and the archive interleave or fail; the archive holds
\* only old grades; and a grade is in both tables, and counted twice, only if an
\* importer stored it that had looked before another thread stored it, and only
\* until the archive next moves it.  Old grades do not circle between the two.
EachGradeOnce ==
    /\ kept \subseteq live \cup archived
    /\ \A g \in archived : Old(g)
    /\ live \cap archived \subseteq twice
=============================================================================
