------------------------------ MODULE MCTaskPool ------------------------------
(* Constants of the TaskPool runs.                                         *)
EXTENDS TaskPool

CONSTANTS w1, w2, w3, q1, q2
=============================================================================
