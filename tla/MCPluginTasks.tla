---------------------------- MODULE MCPluginTasks ----------------------------
(* Constants of the PluginTasks runs are numbers, given in the cfg files.  *)
EXTENDS PluginTasks
=============================================================================
