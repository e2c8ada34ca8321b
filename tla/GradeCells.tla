----------------------------- MODULE GradeCells -----------------------------
(***************************************************************************)
(* A diary cell after data_cleaner.sanitize_cell: the sequence of marks    *)
(* written in it, "2/5" being <<"2", "5">>.  The empty sequence stands for *)
(* a blank cell in the sheet and for an absent row in grade_history.       *)
(***************************************************************************)
EXTENDS Naturals, Sequences, FiniteSets

Blank == <<>>

\* How many times the mark m is written in the cell.
Copies(cell, m) == Cardinality({i \in DOMAIN cell : cell[i] = m})

\* _compute_added_grades returns something: the multiset difference new - old
\* is not empty.  Order inside the cell does not matter to it.
AddsGrade(old, new) ==
    \E i \in DOMAIN new : Copies(new, new[i]) > Copies(old, new[i])
=============================================================================
