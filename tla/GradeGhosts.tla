----------------------------- MODULE GradeGhosts -----------------------------
(***************************************************************************)
(* What the comment above _pending_grades promises of a grade that is      *)
(* entered and erased again: GradeMonitor with the keys whose unconfirmed  *)
(* value a later cycle no longer found.                                    *)
(***************************************************************************)
EXTENDS GradeMonitor

VARIABLE vanished  \* keys found blank since the value that is pending was read

GInit == Init /\ vanished = {}

\* A cycle read these cells and found them blank.
FoundBlank == {k \in Keys : k[1] \in polled' /\ column'[k] = Blank /\ pending[k].cell # Blank}

GNext ==
    /\ Next
    /\ vanished' = IF pc = "fetch" /\ pc' = "pick"
                   THEN vanished \cup FoundBlank
                   ELSE {k \in vanished : pending'[k].cell = pending[k].cell}

GSpec == GInit /\ [][GNext]_<<vars, vanished>>

OneCell == {<<5>>}

\* monitor_engine 50-55: a value that was changed or vanished before it was
\* confirmed is silently discarded, so that parents hear of no "ghost" grade.
\* The value a step confirms is then not one that vanished since it was read.
GhostsAreForgotten ==
    [][\A k \in Keys : AddsGrade(text[k], text'[k]) => k \notin vanished]_<<vars, vanished>>
=============================================================================
