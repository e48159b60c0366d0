---------------------------- MODULE MCGpuWeights -----------------------------
(* TLC instance of GpuWeights: one model of two weights, and another whose *)
(* only weight is larger and takes the address of one of them.             *)
EXTENDS GpuWeights

CONSTANTS Low, High

MCLayouts ==
  {{[host |-> Low, bytes |-> 1], [host |-> High, bytes |-> 1]},
   {[host |-> Low, bytes |-> 2]}}
=============================================================================
