---------------------------- MODULE MCWindowWalk ----------------------------
(* TLC instance of WindowWalk: the constants are given in the .cfg files.  *)
EXTENDS WindowWalk
=============================================================================
