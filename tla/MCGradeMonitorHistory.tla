------------------------ MODULE MCGradeMonitorHistory -----------------------
(* Small instances of GradeMonitorHistory for TLC. *)
EXTENDS GradeMonitorHistory, TLC

ShortCells == {<<5>>, <<5, 2>>}
OneCell == {<<5>>}
=============================================================================
