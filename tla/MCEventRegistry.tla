--------------------------- MODULE MCEventRegistry ---------------------------
(* Constants of the EventRegistry runs.                                    *)
EXTENDS EventRegistry

CONSTANT h1
=============================================================================
