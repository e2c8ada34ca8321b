---------------------------- MODULE MCHouseholds ----------------------------
(* Small instances of Households for TLC. *)
EXTENDS Households, TLC

\* Parents, students and worker threads are interchangeable.
Symmetry == Permutations(Parents) \cup Permutations(Students) \cup Permutations(Workers)
=============================================================================
