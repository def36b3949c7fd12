---------------------------- MODULE MCPluginLoader ----------------------------
(* Constants of the PluginLoader runs.                                     *)
EXTENDS PluginLoaderInv

CONSTANTS p1, p2

OneId(kinds, ids) == [kind : kinds, id : ids]

\* What the console can ask of one plugin, and the two requests for all.
EveryCommand ==
  OneId({"ADD_THREAD", "END_THREAD", "UNLOAD", "RELOAD",
         "LOAD_NEW_ACTIVATENOW", "LOAD_NEW_DONTACTIVATE"}, {p1, p2})
    \cup {ToAll("ENABLE_ALL"), ToAll("DISABLE_ALL")}

\* Without those for p2 that p1 is asked for in the same way.
CrashCommand == EveryCommand \ OneId({"END_THREAD", "UNLOAD", "RELOAD"}, {p2})

ReloadCommand == OneId({"RELOAD"}, {p1})
LoadOrNot     == OneId({"ADD_THREAD", "UNLOAD", "RELOAD", "LOAD_NEW_ACTIVATENOW"}, {p1})
=============================================================================
