------------------------------ MODULE MCCircuit ------------------------------
(* An instance of Circuit for TLC: one input beside the output's worker, one *)
(* in another process.                                                       *)
EXTENDS Circuit

CONSTANTS near, far
=============================================================================
