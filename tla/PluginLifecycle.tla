--------------------------- MODULE PluginLifecycle ---------------------------
(***************************************************************************)
(* What libLoader promises each plugin (doc/libloader.md): it is not       *)
(* loaded, loaded but not enabled, or enabled; while it is enabled one     *)
(* thread calls its functions, first the entrance function, then an event  *)
(* at a time, at last the exit function; and it is disabled only after     *)
(* that, unloaded only when it is disabled.                                *)
(***************************************************************************)
CONSTANT Plugin
VARIABLE phase

Phase == {"unloaded", "loaded",
          "fresh", "starting", "ready", "handling", "stopping", "stopped"}

Init == phase \in [Plugin -> {"unloaded", "loaded"}]

Move(p, from, to) ==
  /\ phase[p] = from
  /\ phase' = [phase EXCEPT ![p] = to]

Load(p)   == Move(p, "unloaded", "loaded")
Enable(p) == Move(p, "loaded", "fresh")

CallEntrance(p)   == Move(p, "fresh", "starting")
EntranceReturn(p) == Move(p, "starting", "ready")
CallEvent(p)      == Move(p, "ready", "handling")
EventReturn(p)    == Move(p, "handling", "ready")
CallExit(p)       == Move(p, "ready", "stopping")
ExitReturn(p)     == Move(p, "stopping", "stopped")

Disable(p) == Move(p, "stopped", "loaded")
Unload(p)  == Move(p, "loaded", "unloaded")

Next == \E p \in Plugin :
  \/ Load(p) \/ Enable(p)
  \/ CallEntrance(p) \/ EntranceReturn(p)
  \/ CallEvent(p) \/ EventReturn(p)
  \/ CallExit(p) \/ ExitReturn(p)
  \/ Disable(p) \/ Unload(p)

Spec == Init /\ [][Next]_phase
=============================================================================
