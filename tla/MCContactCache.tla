---------------------------- MODULE MCContactCache ----------------------------
(* Constants of the ContactCache run.                                      *)
EXTENDS ContactCache

CONSTANTS t1, t2
=============================================================================
