------------------------- MODULE MCExerciseCluster -------------------------
(* The search reaches seven tables, so that the range, of up to six, moves   *)
(* up several times before it is out of reach.                              *)
EXTENDS ExerciseCluster

SevenTables == 8
=============================================================================
