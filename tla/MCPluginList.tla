----------------------------- MODULE MCPluginList -----------------------------
(* Constants of the PluginList runs.                                       *)
EXTENDS PluginList

CONSTANTS f1, f2, f3, i1, i2, i3
=============================================================================
