---------------------------- MODULE MCTrainingRun ----------------------------
(* TLC instances of TrainingRun: the constants are given in the .cfg files. *)
EXTENDS TrainingRun
=============================================================================
