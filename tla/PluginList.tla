------------------------------ MODULE PluginList ------------------------------
(***************************************************************************)
(* The plugin list of PluginListManager.cpp when plugins do not keep their *)
(* ids: the list is keyed by the id a library reported when it was loaded, *)
(* the threads of ThreadController by the id it reports now, and a library *)
(* that is loaded again may report another one.                            *)
(*                                                                         *)
(* Every operation holds pluginlist_mtx from its first step to its last,   *)
(* or, like loadNewPluginByPath, runs on the loader thread as all others   *)
(* do, so an operation is one action here; what happens within it is       *)
(* PluginLoader's subject.  The helpers are functions of the state, the    *)
(* record S, as the C++ functions are called one after the other.          *)
(***************************************************************************)
CONSTANTS
  File,        \* the plugins' files
  Id,          \* the ids libraries report
  NoFile, NoId,
  Registered,  \* the files registerAllPlugin finds in the configuration
  Mishaps      \* which ids may be in use already (below)

(***************************************************************************)
(* "reloadTaken"  a reloaded library reports the id of another plugin      *)
(* "loadTaken"    a new library that is to be enabled reports the id of a  *)
(*                listed plugin that is not enabled                        *)
(***************************************************************************)
ASSUME ListAssumption ==
  /\ NoFile \notin File
  /\ NoId \notin Id
  /\ Registered \subseteq File
  /\ Mishaps \subseteq {"reloadTaken", "loadTaken"}

VARIABLES
  id_plugin_list, \* the file whose config an id is the key of, or NoFile
  cfg,            \* each file's LoaderPluginConfig: the id its library
                  \* reports (NoId: the handle is null), and enabled
  mapped,         \* the files whose library is open
  thread_memory,  \* the file whose code the thread of an id runs, or NoFile
  unregistered,   \* the files registerAllPlugin has still to load
  stage           \* where loaderMain is

vars == <<id_plugin_list, cfg, mapped, thread_memory, unregistered, stage>>

Unloaded == [id |-> NoId, enabled |-> FALSE]
Config   == [id : Id, enabled : BOOLEAN] \cup {Unloaded}

TypeOK ==
  /\ id_plugin_list \in [Id -> File \cup {NoFile}]
  /\ cfg \in [File -> Config]
  /\ mapped \subseteq File
  /\ thread_memory \in [Id -> File \cup {NoFile}]
  /\ unregistered \subseteq File
  /\ stage \in {"registering", "starting", "running", "exited"}

Init ==
  /\ id_plugin_list = [i \in Id |-> NoFile]
  /\ cfg = [f \in File |-> Unloaded]
  /\ mapped = {}
  /\ thread_memory = [i \in Id |-> NoFile]
  /\ unregistered = Registered
  /\ stage = "registering"

S == [list |-> id_plugin_list, cfg |-> cfg, mapped |-> mapped, threads |-> thread_memory]

Become(s) ==
  /\ id_plugin_list' = s.list
  /\ cfg' = s.cfg
  /\ mapped' = s.mapped
  /\ thread_memory' = s.threads

Loaded(s, f) == s.cfg[f].id # NoId
Listed(f)    == \E i \in Id : id_plugin_list[i] = f

-----------------------------------------------------------------------------
(* PluginListImplements.cpp                                                *)

\* enable_plugin throws for a plugin that is enabled or not loaded.
CanEnable(s, f) == Loaded(s, f) /\ ~s.cfg[f].enabled

\* addThread drops the entrance function if the id has a thread.
enable_plugin(s, f) ==
  LET i == s.cfg[f].id
  IN [s EXCEPT !.cfg[f].enabled = TRUE,
               !.threads[i] = IF @ = NoFile THEN f ELSE @]

\* Mutant of disable_plugin: the thread goes on.
disable_plugin_KeepThread(s, f) ==
  IF Loaded(s, f) /\ s.cfg[f].enabled THEN [s EXCEPT !.cfg[f].enabled = FALSE]
                                      ELSE s

\* callThreadEnd runs the exit function on the thread of the id and ends it.
disable_plugin(s, f) ==
  IF Loaded(s, f) /\ s.cfg[f].enabled
  THEN [s EXCEPT !.cfg[f].enabled = FALSE, !.threads[s.cfg[f].id] = NoFile]
  ELSE s

load_plugin(s, f, i) ==
  [s EXCEPT !.cfg[f] = [id |-> i, enabled |-> FALSE], !.mapped = @ \cup {f}]

unload_plugin(s, f) ==
  IF Loaded(s, f)
  THEN [disable_plugin(s, f) EXCEPT !.cfg[f] = Unloaded, !.mapped = @ \ {f}]
  ELSE s

-----------------------------------------------------------------------------
(* PluginListManager.cpp                                                   *)

\* Mutant of addNewPlugin: the library of a duplicate stays open.
addNewPlugin_KeepOpen(s, f) ==
  LET i == s.cfg[f].id
  IN IF s.list[i] = NoFile THEN [s EXCEPT !.list[i] = f]
                           ELSE [s EXCEPT !.cfg[f] = Unloaded]

\* A duplicate's library is closed, and its config is dropped.
addNewPlugin(s, f) ==
  LET i == s.cfg[f].id
  IN IF s.list[i] = NoFile
     THEN [s EXCEPT !.list[i] = f]
     ELSE [s EXCEPT !.mapped = @ \ {f}, !.cfg[f] = Unloaded]

\* Mutant of changeKey: the old key stays.
changeKey_KeepOld(s, i, j) ==
  LET f == s.list[i]
  IN IF s.list[j] = NoFile THEN [s EXCEPT !.list[j] = f]
                           ELSE unload_plugin([s EXCEPT !.list[i] = NoFile], f)

changeKey(s, i, j) ==
  LET f == s.list[i]
      t == [s EXCEPT !.list[i] = NoFile]
  IN IF t.list[j] = NoFile THEN [t EXCEPT !.list[j] = f]
                           ELSE unload_plugin(t, f)

\* What an operation does to all the files of fs, which have different ids.
EnableEach(s, fs) ==
  [s EXCEPT !.cfg = [f \in File |-> IF f \in fs THEN [s.cfg[f] EXCEPT !.enabled = TRUE]
                                                ELSE s.cfg[f]],
            !.threads = [i \in Id |-> IF s.threads[i] = NoFile /\ s.list[i] \in fs
                                      THEN s.list[i] ELSE s.threads[i]]]

-----------------------------------------------------------------------------

\* No plugin but f is listed under i.
Free(i, f) == id_plugin_list[i] \in {NoFile, f}

\* loadsAll, one file: it is not enabled yet, and its id may be a duplicate;
\* or the file is missing.
RegisterPlugin(f) ==
  /\ stage = "registering"
  /\ f \in unregistered
  /\ unregistered' = unregistered \ {f}
  /\ \/ \E i \in Id : Become(addNewPlugin(load_plugin(S, f, i), f))
     \/ Become(S)
  /\ UNCHANGED stage

\* registerAllPlugin is done: loaderMain is about to enable the plugins.
Registration ==
  /\ stage = "registering" /\ unregistered = {}
  /\ stage' = "starting"
  /\ Become(S) /\ UNCHANGED unregistered

\* enableAll: the first plugin that cannot be enabled ends the walk, which
\* goes through the list in the order of an unordered_map.
enableAll ==
  LET all == {f \in File : Listed(f)}
      can == {f \in all : CanEnable(S, f)}
  IN /\ stage \in {"starting", "running"}
     /\ stage' = "running"
     /\ \E fs \in SUBSET can :
          /\ all = can => fs = all
          /\ Become(EnableEach(S, fs))
     /\ UNCHANGED unregistered

enableById(i) ==
  LET f == id_plugin_list[i]
  IN /\ stage = "running"
     /\ f # NoFile /\ CanEnable(S, f)
     /\ Become(enable_plugin(S, f))
     /\ UNCHANGED <<unregistered, stage>>

disableById(i) ==
  LET f == id_plugin_list[i]
  IN /\ stage = "running"
     /\ f # NoFile
     /\ Become(disable_plugin(S, f))
     /\ UNCHANGED <<unregistered, stage>>

unloadById(i) ==
  LET f == id_plugin_list[i]
  IN /\ stage = "running"
     /\ f # NoFile
     /\ Become(unload_plugin(S, f))
     /\ UNCHANGED <<unregistered, stage>>

\* reloadById when the file is gone.  (A file that is no plugin any more:
\* PluginLoader's badSymbols.)
ReloadFails(i) ==
  LET f == id_plugin_list[i]
  IN /\ stage = "running"
     /\ f # NoFile
     /\ Become(unload_plugin(S, f))
     /\ UNCHANGED <<unregistered, stage>>

\* reloadById when the library reports j.
reloadById(i, j) ==
  LET f == id_plugin_list[i]
      s == enable_plugin(load_plugin(unload_plugin(S, f), f, j), f)
  IN /\ stage = "running"
     /\ f # NoFile
     /\ Free(j, f) \/ "reloadTaken" \in Mishaps
     /\ Become(IF i = j THEN s ELSE changeKey(s, i, j))
     /\ UNCHANGED <<unregistered, stage>>

\* loadNewPluginByPath of a file that is not in the list and reports i.
loadNewPluginByPath(f, i, activateNow) ==
  LET s == load_plugin(S, f, i)
      g == id_plugin_list[i]
  IN /\ stage = "running"
     /\ ~Listed(f)
     /\ activateNow /\ g # NoFile => cfg[g].enabled \/ "loadTaken" \in Mishaps
     /\ Become(addNewPlugin(IF activateNow THEN enable_plugin(s, f) ELSE s, f))
     /\ UNCHANGED <<unregistered, stage>>

\* Mutant of shutdownLoader: the plugins are not unloaded.
shutdownLoader_NoUnload ==
  /\ stage = "running"
  /\ stage' = "exited"
  /\ cfg' = [f \in File |-> IF Listed(f) THEN [cfg[f] EXCEPT !.enabled = FALSE] ELSE cfg[f]]
  /\ thread_memory' = [i \in Id |-> IF \E f \in File : Listed(f) /\ cfg[f].enabled /\ cfg[f].id = i
                                    THEN NoFile ELSE thread_memory[i]]
  /\ UNCHANGED <<id_plugin_list, mapped, unregistered>>

\* shutdownLoader: every entry is disabled, then unloaded.
shutdownLoader ==
  LET gone == {f \in File : Listed(f)}
  IN /\ stage = "running"
     /\ stage' = "exited"
     /\ cfg' = [f \in File |-> IF f \in gone THEN Unloaded ELSE cfg[f]]
     /\ mapped' = mapped \ gone
     /\ thread_memory' = [i \in Id |-> IF \E f \in gone : cfg[f].enabled /\ cfg[f].id = i
                                       THEN NoFile ELSE thread_memory[i]]
     /\ UNCHANGED <<id_plugin_list, unregistered>>

\* shutdownLoader is over; the pool is destroyed after it (TaskPool).
Terminated == stage = "exited" /\ UNCHANGED vars

Next ==
  \/ \E f \in File : RegisterPlugin(f)
  \/ Registration
  \/ enableAll
  \/ \E i \in Id : \/ enableById(i) \/ disableById(i) \/ unloadById(i)
                   \/ ReloadFails(i)
                   \/ \E j \in Id : reloadById(i, j)
  \/ \E f \in File, i \in Id, activateNow \in BOOLEAN :
       loadNewPluginByPath(f, i, activateNow)
  \/ shutdownLoader
  \/ Terminated

Spec == Init /\ [][Next]_vars

-----------------------------------------------------------------------------

\* The key of a loaded plugin is the id its library reports, and no plugin is
\* listed twice.
KeysAreIds ==
  \A i \in Id : LET f == id_plugin_list[i]
                IN f # NoFile => /\ cfg[f].id \in {i, NoId}
                                 /\ \A j \in Id : id_plugin_list[j] = f => i = j

\* A plugin is enabled exactly as long as the thread of its id runs its code;
\* no plugin ends or takes another one's thread.
ThreadsAreOwn ==
  \A i \in Id, f \in File :
    thread_memory[i] = f <=> cfg[f].id = i /\ cfg[f].enabled

\* The open libraries are the ones of the loaded entries of the list, so all
\* of them can be closed.
MappedAreListed ==
  \A f \in File : /\ f \in mapped <=> cfg[f].id # NoId
                  /\ f \in mapped => Listed(f)

\* Nothing is left when the loader has unloaded the list.
NothingSurvives ==
  stage = "exited" => mapped = {} /\ \A i \in Id : thread_memory[i] = NoFile

=============================================================================
