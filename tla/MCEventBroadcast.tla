--------------------------- MODULE MCEventBroadcast ---------------------------
(* Constants of the EventBroadcast runs.                                   *)
EXTENDS EventBroadcast

CONSTANTS p1, p2
=============================================================================
