---------------------------- MODULE MCNightQueue ----------------------------
(* Small instances of NightQueue for TLC. *)
EXTENDS NightQueue, TLC

EitherParent == Permutations(Parents)
=============================================================================
