----------------------------- MODULE PluginLoader -----------------------------
(***************************************************************************)
(* The libLoader runtime: the loader thread (loaderMain.cpp), the plugin   *)
(* list it manages (PluginListManager.cpp, PluginListImplements.cpp), the  *)
(* task queue the other threads fill (loaderApi.cpp, eventHandle.cpp), the *)
(* events and the shutdown request of the kt thread (ktInterface.cpp) and  *)
(* the plugin threads (module ThreadController).                           *)
(*                                                                         *)
(* One task is one walk of the loader thread through lpc.  A step is a     *)
(* stretch of code no other thread can see into: the walk stops where the  *)
(* loader waits for a worker, where a worker may run meanwhile, and where  *)
(* a library is closed.  A plugin keeps its id over a reload; PluginList   *)
(* is about the ones that do not.                                          *)
(***************************************************************************)
EXTENDS ThreadController

CONSTANTS
  Registered,    \* the plugins registerAllPlugin loaded and listed
  NoPlugin,      \* the id of a task that names no plugin
  Commands,      \* the tasks the console and the admin plugins ask for
  MaxRequests,   \* bound: how many of them in a behaviour
  MaxEvents,     \* bound: how many events the kt thread broadcasts
  Mishaps        \* what plugins and their files may do wrong (below)

(***************************************************************************)
(* "throw"      a job throws what the plugin does not catch                *)
(* "overrun"    a job is still running ten seconds after callThreadEnd     *)
(* "list"       a job calls showAllPluginId, which locks pluginlist_mtx    *)
(* "missing"    the plugin's file cannot be opened                         *)
(* "badSymbols" the file opens but is not a MiraiCP plugin                 *)
(* "duplicate"  LoadPlugin names a plugin that is in the list already      *)
(***************************************************************************)
MishapKinds == {"throw", "overrun", "list", "missing", "badSymbols", "duplicate"}

\* enum LOADER_TASKS, and the UNLOAD_ALL the loader gives itself at its end.
OneTask == {"ADD_THREAD", "END_THREAD", "LOAD_NEW_ACTIVATENOW",
            "LOAD_NEW_DONTACTIVATE", "UNLOAD", "RELOAD", "EXCEPTION_PLUGINEND"}
AllTask == {"ENABLE_ALL", "DISABLE_ALL", "UNLOAD_ALL"}
LoadNew == {"LOAD_NEW_ACTIVATENOW", "LOAD_NEW_DONTACTIVATE"}
Task    == [kind : OneTask, id : Plugin] \cup [kind : AllTask, id : {NoPlugin}]
ToAll(kind) == [kind |-> kind, id |-> NoPlugin]
NoTask  == ToAll("NONE")

ASSUME LoaderAssumption ==
  /\ Registered \subseteq Plugin
  /\ NoPlugin \notin Plugin
  /\ Commands \subseteq Task
  /\ \A c \in Commands : c.kind \notin {"EXCEPTION_PLUGINEND", "UNLOAD_ALL"}
  /\ MaxRequests \in Nat /\ MaxEvents \in Nat
  /\ Mishaps \subseteq MishapKinds

VARIABLES
  listed,       \* the keys of id_plugin_list
  handle,       \* LoaderPluginConfig::handle of each listed plugin
  enabled,      \* LoaderPluginConfig::enabled
  image, refs,  \* the library instance mapped from each plugin's file, or
                \* NoLib, and how often it is open
  opens,        \* instances mapped from it so far: the number of the last one
  queue,        \* loader_thread_task_queue
  stage,        \* where loaderMain() is; at "exited" unloadAll is over, and only
                \* BS::pool is left to destroy (module TaskPool)
  lpc,          \* where the loader thread is in its task
  task,         \* the task it works on
  todo, target, \* the entries the task still has to visit, and the current one
  local,        \* the handle of loadNewPluginByPath's local config
  loader_exit,  \* LoaderMain::loader_exit
  requests, events   \* how many were made (bounded)

listVars   == <<listed, handle, enabled>>
libVars    == <<image, refs, opens>>
loaderVars == <<stage, lpc, task, todo, target, local>>
envVars    == <<loader_exit, requests, events>>
vars == <<workerVars, listVars, libVars, queue, loaderVars, envVars>>

Stage  == {"starting", "running", "disabling", "unloading", "exited"}
Locked == {"next", "enable", "callThreadEnd", "end", "join", "disable",
           "endThread", "close", "unload", "load"}
LoaderPc == Locked \cup {"idle", "lock", "open", "activate", "insert"}

LoaderTypeOK ==
  /\ listed \subseteq Plugin
  /\ handle \in [Plugin -> Nat]
  /\ enabled \in [Plugin -> BOOLEAN]
  /\ image \in [Plugin -> Nat]
  /\ refs \in [Plugin -> Nat]
  /\ opens \in [Plugin -> Nat]
  /\ queue \in Seq(Task)
  /\ stage \in Stage
  /\ lpc \in LoaderPc
  /\ task \in Task \cup {NoTask}
  /\ todo \subseteq Plugin
  /\ target \in Plugin \cup {NoPlugin}
  /\ local \in Nat
  /\ loader_exit \in BOOLEAN
  /\ requests \in Nat
  /\ events \in Nat

TypeOK == WorkerTypeOK /\ LoaderTypeOK

\* The loader thread holds pluginlist_mtx.
Holding == lpc \in Locked

\* After registerAllPlugin: the registered plugins are loaded, none enabled,
\* and the loader thread is about to call enableAll.
Init ==
  /\ WorkerInit
  /\ listed = Registered
  /\ handle = [p \in Plugin |-> IF p \in Registered THEN 1 ELSE NoLib]
  /\ enabled = [p \in Plugin |-> FALSE]
  /\ image = handle
  /\ refs = handle
  /\ opens = handle
  /\ queue = <<>>
  /\ stage = "starting"
  /\ lpc = "lock"
  /\ task = ToAll("ENABLE_ALL")
  /\ todo = {}
  /\ target = NoPlugin
  /\ local = NoLib
  /\ loader_exit = FALSE
  /\ requests = 0
  /\ events = 0

-----------------------------------------------------------------------------
(* The library of a plugin's file: libOpen maps it or, when it is mapped   *)
(* already, counts one more user; libClose unmaps it with its last user.   *)

libOpen(p) ==
  /\ refs' = [refs EXCEPT ![p] = @ + 1]
  /\ IF image[p] = NoLib
     THEN /\ opens' = [opens EXCEPT ![p] = @ + 1]
          /\ image' = [image EXCEPT ![p] = opens[p] + 1]
     ELSE UNCHANGED <<opens, image>>

libClose(p) ==
  /\ refs' = [refs EXCEPT ![p] = @ - 1]
  /\ image' = [image EXCEPT ![p] = IF refs[p] = 1 THEN NoLib ELSE @]
  /\ UNCHANGED opens

-----------------------------------------------------------------------------
(* Taking a task: mainloop, and the two last tasks shutdownLoader gives.   *)
(* A task popped just after loader_exit was read commutes with the         *)
(* request to exit, so the two reads are one step.                         *)

PopTask ==
  /\ lpc = "idle" /\ stage = "running" /\ ~loader_exit
  /\ queue # <<>>
  /\ task' = Head(queue)
  /\ queue' = Tail(queue)
  /\ lpc' = IF task'.kind \in LoadNew THEN "open" ELSE "lock"
  /\ target' = task'.id
  /\ UNCHANGED <<workerVars, listVars, libVars, stage, todo, local, envVars>>

ShutdownLoader ==
  /\ lpc = "idle" /\ stage = "running" /\ loader_exit
  /\ stage' = "disabling"
  /\ task' = ToAll("DISABLE_ALL")
  /\ lpc' = "lock"
  /\ target' = NoPlugin
  /\ UNCHANGED <<workerVars, listVars, libVars, queue, todo, local, envVars>>

\* The lock_guard of the task's function, and the lookup of its id.
AcquireList ==
  /\ lpc = "lock"
  /\ todo' = IF task.kind \in AllTask THEN listed ELSE {task.id} \cap listed
  /\ lpc' = "next"
  /\ UNCHANGED <<workerVars, listVars, libVars, queue, stage, task, target, local, envVars>>

\* Mutants of FirstStep: unload_plugin closes a library that is not loaded,
\* and closes one without disabling its plugin.
FirstStep_NoNullCheck(p) ==
  CASE task.kind \in {"ADD_THREAD", "ENABLE_ALL"} -> "enable"
    [] task.kind \in {"END_THREAD", "DISABLE_ALL"} ->
         IF handle[p] # NoLib /\ enabled[p] THEN "callThreadEnd" ELSE "next"
    [] OTHER -> IF enabled[p] THEN "callThreadEnd" ELSE "close"
FirstStep_NoDisable(p) ==
  CASE task.kind \in {"ADD_THREAD", "ENABLE_ALL"} -> "enable"
    [] task.kind \in {"END_THREAD", "DISABLE_ALL"} ->
         IF handle[p] # NoLib /\ enabled[p] THEN "callThreadEnd" ELSE "next"
    [] OTHER ->
         IF handle[p] # NoLib THEN "close"
         ELSE IF task.kind = "RELOAD" THEN "load" ELSE "next"

\* The first step the task takes on entry p; "next" passes the entry over.
FirstStep(p) ==
  CASE task.kind \in {"ADD_THREAD", "ENABLE_ALL"} -> "enable"
    [] task.kind \in {"END_THREAD", "DISABLE_ALL"} ->
         IF handle[p] # NoLib /\ enabled[p] THEN "callThreadEnd" ELSE "next"
    [] task.kind = "EXCEPTION_PLUGINEND" ->
         IF handle[p] # NoLib THEN "endThread" ELSE "next"
    [] OTHER ->
         IF handle[p] # NoLib
         THEN IF enabled[p] THEN "callThreadEnd" ELSE "close"
         ELSE IF task.kind = "RELOAD" THEN "load" ELSE "next"

\* The entries are visited in the order of an unordered_map: any order.
Visit(p) ==
  /\ lpc = "next"
  /\ p \in todo
  /\ todo' = todo \ {p}
  /\ target' = p
  /\ lpc' = FirstStep(p)
  /\ UNCHANGED <<workerVars, listVars, libVars, queue, stage, task, local, envVars>>

\* Mutant of ReleaseList: the loader exits without unloadAll.
ReleaseList_NoUnloadAll ==
  /\ lpc = "next"
  /\ todo = {}
  /\ target' = NoPlugin
  /\ stage' = CASE stage = "starting" -> "running"
                [] stage = "disabling" -> "exited"
                [] OTHER -> stage
  /\ task' = NoTask
  /\ lpc' = "idle"
  /\ UNCHANGED <<workerVars, listVars, libVars, queue, todo, local, envVars>>

\* The task is over and pluginlist_mtx is released.
ReleaseList ==
  /\ lpc = "next"
  /\ todo = {}
  /\ target' = NoPlugin
  /\ stage' = CASE stage = "starting" -> "running"
                [] stage = "disabling" -> "unloading"
                [] stage = "unloading" -> "exited"
                [] OTHER -> stage
  /\ task' = IF stage = "disabling" THEN ToAll("UNLOAD_ALL") ELSE NoTask
  /\ lpc' = IF stage = "disabling" THEN "lock" ELSE "idle"
  /\ UNCHANGED <<workerVars, listVars, libVars, queue, todo, local, envVars>>

-----------------------------------------------------------------------------
(* enable_plugin.  Its exceptions end the whole task.                      *)

\* Mutant of EnablePlugin: nothing catches the exception.
EnablePlugin_NoCatch ==
  /\ lpc = "enable"
  /\ ~enabled[target] /\ handle[target] # NoLib
  /\ lpc' = "next"
  /\ enabled' = [enabled EXCEPT ![target] = TRUE]
  /\ AddThread(target, EntranceJob(handle[target]))
  /\ UNCHANGED <<listed, handle, libVars, queue, stage, task, todo, target, local, envVars>>

EnablePlugin ==
  /\ lpc = "enable"
  /\ lpc' = "next"
  /\ \/ /\ enabled[target] \/ handle[target] = NoLib
        /\ todo' = {}
        /\ UNCHANGED <<workerVars, enabled>>
     \/ /\ ~enabled[target] /\ handle[target] # NoLib
        /\ enabled' = [enabled EXCEPT ![target] = TRUE]
        /\ AddThread(target, EntranceJob(handle[target]))
        /\ UNCHANGED todo
  /\ UNCHANGED <<listed, handle, libVars, queue, stage, task, target, local, envVars>>

(* disable_plugin: callThreadEnd gives the exit function as a last job,    *)
(* tells the worker to end, and waits for it.                              *)

CallThreadEnd ==
  /\ lpc = "callThreadEnd"
  /\ LET t == thread_memory[target]
     IN \/ /\ t = NoThread
           /\ lpc' = "disable"
           /\ UNCHANGED workerVars
        \/ /\ t # NoThread
           /\ lpc' = "end"
           /\ GiveJob({t}, ExitJob(handle[target]))
           /\ UNCHANGED <<thread_memory, freed, pluginid, exit, pc, running, life>>
  /\ UNCHANGED <<listVars, libVars, queue, stage, task, todo, target, local, envVars>>

EndWorker ==
  /\ lpc = "end"
  /\ End(thread_memory[target])
  /\ lpc' = "join"
  /\ UNCHANGED <<listVars, libVars, queue, stage, task, todo, target, local, envVars>>

\* Mutant of JoinWorker: the worker is detached while it may be busy.
JoinWorker_NoWait ==
  /\ lpc = "join"
  /\ JoinAndErase(target)
  /\ lpc' = "disable"
  /\ UNCHANGED <<listVars, libVars, queue, stage, task, todo, target, local, envVars>>

JoinWorker ==
  /\ lpc = "join"
  /\ ~isBusy(thread_memory[target])
  /\ JoinAndErase(target)
  /\ lpc' = "disable"
  /\ UNCHANGED <<listVars, libVars, queue, stage, task, todo, target, local, envVars>>

\* Mutant of GiveUpJoin: the loader waits as long as the worker is busy.
GiveUpJoin_Never == FALSE /\ UNCHANGED vars

\* Ten seconds are over: the worker is detached, and erased all the same.
GiveUpJoin ==
  /\ "overrun" \in Mishaps
  /\ lpc = "join"
  /\ isBusy(thread_memory[target])
  /\ JoinAndErase(target)
  /\ lpc' = "disable"
  /\ UNCHANGED <<listVars, libVars, queue, stage, task, todo, target, local, envVars>>

MarkDisabled ==
  /\ lpc = "disable"
  /\ enabled' = [enabled EXCEPT ![target] = FALSE]
  /\ lpc' = IF task.kind \in {"END_THREAD", "DISABLE_ALL"} THEN "next" ELSE "close"
  /\ UNCHANGED <<workerVars, listed, handle, libVars, queue, stage, task, todo, target, local, envVars>>

(* unload_plugin after its disable, and unload_when_exception.             *)

EndThreadOfCrashed ==
  /\ lpc = "endThread"
  /\ EndThread(target)
  /\ lpc' = "close"
  /\ UNCHANGED <<listVars, libVars, queue, stage, task, todo, target, local, envVars>>

\* Mutant of CloseLibrary: the library of a crashed plugin stays open.
CloseLibrary_NotCrashed ==
  /\ lpc = "close"
  /\ IF task.kind = "EXCEPTION_PLUGINEND" THEN UNCHANGED libVars ELSE libClose(target)
  /\ lpc' = "unload"
  /\ UNCHANGED <<workerVars, listVars, queue, stage, task, todo, target, local, envVars>>

CloseLibrary ==
  /\ lpc = "close"
  /\ libClose(target)
  /\ lpc' = "unload"
  /\ UNCHANGED <<workerVars, listVars, queue, stage, task, todo, target, local, envVars>>

\* Mutant of MarkUnloaded: the closed handle stays in the config.
MarkUnloaded_KeepHandle ==
  /\ lpc = "unload"
  /\ enabled' = [enabled EXCEPT ![target] = FALSE]
  /\ lpc' = IF task.kind = "RELOAD" THEN "load" ELSE "next"
  /\ UNCHANGED <<workerVars, listed, handle, libVars, queue, stage, task, todo, target, local, envVars>>

MarkUnloaded ==
  /\ lpc = "unload"
  /\ handle' = [handle EXCEPT ![target] = NoLib]
  /\ enabled' = [enabled EXCEPT ![target] = FALSE]
  /\ lpc' = IF task.kind = "RELOAD" THEN "load" ELSE "next"
  /\ UNCHANGED <<workerVars, listed, libVars, queue, stage, task, todo, target, local, envVars>>

(* load_plugin, called by reloadById.  Its exceptions end the task.        *)

LoadPlugin ==
  /\ lpc = "load"
  /\ libOpen(target)
  /\ handle' = [handle EXCEPT ![target] = image'[target]]
  /\ enabled' = [enabled EXCEPT ![target] = FALSE]
  /\ lpc' = "enable"
  /\ UNCHANGED <<workerVars, listed, queue, stage, task, todo, target, local, envVars>>

\* PluginLoadException, or an exception of testSymbolExistance, which leaves
\* the library open.
LoadFails ==
  /\ lpc \in {"load", "open"}
  /\ \/ /\ "missing" \in Mishaps
        /\ UNCHANGED libVars
     \/ /\ "badSymbols" \in Mishaps
        /\ libOpen(target)
  /\ todo' = {}
  /\ IF lpc = "load" THEN lpc' = "next" /\ UNCHANGED <<task, target>>
                     ELSE lpc' = "idle" /\ task' = NoTask /\ target' = NoPlugin
  /\ UNCHANGED <<workerVars, listVars, queue, stage, local, envVars>>

-----------------------------------------------------------------------------
(* loadNewPluginByPath: a local config is loaded and enabled without the   *)
(* list's lock, then added to the list or, for an id in use, closed.       *)

OpenNew ==
  /\ lpc = "open"
  /\ libOpen(target)
  /\ local' = image'[target]
  /\ lpc' = IF task.kind = "LOAD_NEW_ACTIVATENOW" THEN "activate" ELSE "insert"
  /\ UNCHANGED <<workerVars, listVars, queue, stage, task, todo, target, envVars>>

ActivateNew ==
  /\ lpc = "activate"
  /\ AddThread(target, EntranceJob(local))
  /\ lpc' = "insert"
  /\ UNCHANGED <<listVars, libVars, queue, stage, task, todo, target, local, envVars>>

\* addNewPlugin
AddNewPlugin ==
  /\ lpc = "insert"
  /\ \/ /\ target \notin listed
        /\ listed' = listed \cup {target}
        /\ handle' = [handle EXCEPT ![target] = local]
        /\ enabled' = [enabled EXCEPT ![target] = task.kind = "LOAD_NEW_ACTIVATENOW"]
        /\ UNCHANGED libVars
     \/ /\ target \in listed
        /\ libClose(target)
        /\ UNCHANGED listVars
  /\ local' = NoLib
  /\ lpc' = "idle" /\ task' = NoTask /\ target' = NoPlugin
  /\ UNCHANGED <<workerVars, queue, stage, todo, envVars>>

-----------------------------------------------------------------------------
(* The kt thread and the plugins.                                          *)

\* A task for plugin id that is queued or under way loads it from its path.
LoadPending(id) ==
  \/ id \in listed
  \/ \E i \in DOMAIN queue : queue[i].kind \in LoadNew /\ queue[i].id = id
  \/ lpc \in {"open", "activate", "insert"} /\ target = id

\* A console command or an admin plugin's API call pushes a task.
Request(c) ==
  /\ requests < MaxRequests
  /\ c.kind \in LoadNew /\ LoadPending(c.id) => "duplicate" \in Mishaps
  /\ requests' = requests + 1
  /\ queue' = Append(queue, c)
  /\ UNCHANGED <<workerVars, listVars, libVars, loaderVars, loader_exit, events>>

\* EventImpl: under the list's lock, one job to every enabled plugin.
Event ==
  /\ events < MaxEvents
  /\ ~Holding
  /\ events' = events + 1
  /\ SubmitJob({p \in listed : handle[p] # NoLib /\ enabled[p]}, EventJob)
  /\ UNCHANGED <<listVars, libVars, queue, loaderVars, loader_exit, requests>>

\* PluginDisableImpl
LoaderExit ==
  /\ ~loader_exit
  /\ loader_exit' = TRUE
  /\ UNCHANGED <<workerVars, listVars, libVars, queue, loaderVars, requests, events>>

\* Mutant of ReportException: the crashed thread ends without a word.
ReportException_Silent(t) ==
  /\ Reported(t)
  /\ UNCHANGED <<listVars, libVars, queue, loaderVars, envVars>>

\* sendPluginException names the plugin, not the thread that crashed.
ReportException(t) ==
  /\ Reported(t)
  /\ queue' = Append(queue, [kind |-> "EXCEPTION_PLUGINEND", id |-> pluginid[t]])
  /\ UNCHANGED <<listVars, libVars, loaderVars, envVars>>

othersUnchanged == UNCHANGED <<listVars, libVars, queue, loaderVars, envVars>>

\* An event job reads eventFunc of the plugin's config when it starts.
RunJob(t)    == StartJob(t, handle[pluginid[t]]) /\ othersUnchanged
CompleteJob(t) == FinishJob(t) /\ othersUnchanged
CrashJob(t)  == "throw" \in Mishaps /\ ThrowJob(t) /\ othersUnchanged
AskForList(t) == "list" \in Mishaps /\ WaitForList(t) /\ othersUnchanged
ReadList(t)  == ~Holding /\ GotList(t) /\ othersUnchanged
DrainedQueue(t) == Drained(t) /\ othersUnchanged
ReturnFromRun(t) == Return(t) /\ othersUnchanged

-----------------------------------------------------------------------------

LoaderStep ==
  \/ PopTask \/ ShutdownLoader \/ AcquireList \/ ReleaseList
  \/ \E p \in Plugin : Visit(p)
  \/ EnablePlugin
  \/ CallThreadEnd \/ EndWorker \/ JoinWorker \/ GiveUpJoin \/ MarkDisabled
  \/ EndThreadOfCrashed \/ CloseLibrary \/ MarkUnloaded
  \/ LoadPlugin \/ LoadFails
  \/ OpenNew \/ ActivateNew \/ AddNewPlugin

WorkerStep(t) ==
  \/ RunJob(t) \/ CompleteJob(t) \/ CrashJob(t) \/ ReportException(t)
  \/ AskForList(t) \/ ReadList(t) \/ DrainedQueue(t) \/ ReturnFromRun(t)

KtStep == Event \/ LoaderExit \/ \E c \in Commands : Request(c)

\* The loader thread has unloaded everything and every worker is at rest.
Terminated ==
  /\ stage = "exited"
  /\ \A t \in Thread : pc[t] \in {"unborn", "done"} 
  /\ UNCHANGED vars

Next ==
  \/ LoaderStep
  \/ \E t \in Thread : WorkerStep(t)
  \/ KtStep
  \/ Terminated

Spec == Init /\ [][Next]_vars

\* The loader thread keeps running, and gives up a join after ten seconds.
LoaderFairness == WF_vars(LoaderStep)

\* Each plugin thread keeps running and every job it starts ends.
WorkerFairness ==
  \A t \in Thread : /\ WF_vars(RunJob(t)) /\ WF_vars(CompleteJob(t))
                    /\ WF_vars(DrainedQueue(t)) /\ WF_vars(ReturnFromRun(t))
                    /\ WF_vars(ReportException(t))

LoaderFairSpec == Spec /\ LoaderFairness
FairSpec       == Spec /\ LoaderFairness /\ WorkerFairness

-----------------------------------------------------------------------------
(* Safety.                                                                 *)

Executing(t) == pc[t] \in {"job", "wait"}

\* A plugin's code runs only while the library instance it belongs to is
\* mapped: unload_plugin waits for the worker before libClose.
NoUseAfterUnload ==
  \A t \in Thread : Executing(t) =>
     running[t].lib # NoLib /\ running[t].lib = image[pluginid[t]]

\* A worker object is destroyed only when its thread has run FUNC_EXIT and
\* has left run(): callThreadEnd gives the exit job before it sets exit.
DestroyedAfterExit ==
  \A t \in freed : pc[t] = "done" /\ life[t] = "exit"

\* Whoever can lock the plugin list finds that exactly the enabled plugins
\* have a thread, that it is a thread of this plugin, and that the entry
\* names a library.
EnabledIsBound ==
  ~Holding => \A p \in listed :
     /\ enabled[p] <=> thread_memory[p] # NoThread
     /\ enabled[p] => handle[p] # NoLib /\ pluginid[thread_memory[p]] = p

\* Between two tasks every mapped library is owned by exactly one entry of
\* the list, so each can still be closed and none is closed twice.
LibrariesOwned ==
  lpc \in {"idle", "lock"} => \A p \in Plugin :
     image[p] = handle[p] /\ refs[p] = IF handle[p] = NoLib THEN 0 ELSE 1

\* When unloadAll of shutdownLoader is over no library is mapped, no plugin
\* has a thread, and no plugin thread is running.
ShutdownIsClean ==
  stage = "exited" => /\ \A p \in Plugin : image[p] = NoLib /\ thread_memory[p] = NoThread
                      /\ \A t \in Thread : pc[t] \in {"unborn", "done"}

-----------------------------------------------------------------------------
(* What comments of the code say, and what the code may do.                *)

\* PluginListImplements.cpp:284: unload_when_exception unloads "directly
\* since the thread is already down by exception".
CrashedThreadIsDown ==
  [][EndThreadOfCrashed /\ thread_memory[target] # NoThread
       => pc[thread_memory[target]] \in {"returning", "done"}]_vars

-----------------------------------------------------------------------------
(* Liveness.                                                               *)

\* The loader thread gives pluginlist_mtx back, whatever the plugins do: a
\* worker that never ends is given up.
ListIsReleased == Holding ~> ~Holding

\* Every task is served unless the loader is told to exit first.
TasksAreServed == queue # <<>> ~> (queue = <<>> \/ loader_exit)

\* A thread that crashed is found out and its worker is taken down.
CrashIsHandled == \A t \in Thread : pc[t] = "throwing" ~> t \in freed

\* Told to exit, the loader thread comes to the end of shutdownLoader, with
\* everything unloaded, whatever the plugins do.  PluginDisable, which joins
\* the thread, returns only when BS::pool is destroyed as well.
ExitIsReached == loader_exit ~> stage = "exited"

-----------------------------------------------------------------------------
(* The lifecycle of a plugin as its author sees it (PluginLifecycle).      *)

\* The config that stands for p: the one loadNewPluginByPath is still
\* working on, or the one in the list.
IsNew(p)   == lpc \in {"activate", "insert"} /\ target = p /\ p \notin listed
Handle(p)  == IF IsNew(p) THEN local ELSE handle[p]
Enabled(p) == IF IsNew(p) THEN lpc = "insert" /\ task.kind = "LOAD_NEW_ACTIVATENOW"
                          ELSE enabled[p]

ThreadPhase(t) ==
  IF Executing(t)
  THEN CASE running[t].kind = "entrance" -> "starting"
         [] running[t].kind = "event" -> "handling"
         [] OTHER -> "stopping"
  ELSE CASE life[t] = "none" -> "fresh"
         [] life[t] = "entrance" -> "ready"
         [] OTHER -> "stopped"

PhaseOf(p) ==
  CASE Handle(p) = NoLib -> "unloaded"
    [] Handle(p) # NoLib /\ ~Enabled(p) -> "loaded"
    [] Handle(p) # NoLib /\ Enabled(p) /\ thread_memory[p] = NoThread -> "stopped"
    [] OTHER -> ThreadPhase(thread_memory[p])

phase == [p \in Plugin |-> PhaseOf(p)]

Lifecycle == INSTANCE PluginLifecycle
LifecycleSpec == Lifecycle!Spec

\* unload_when_exception finds a thread that has not called FUNC_ENTRANCE
\* yet: the report it serves is one of an earlier thread of the plugin.
StaleReport(p) == lpc = "endThread" /\ target = p /\ phase[p] = "fresh"

\* Every plugin that is enabled has its FUNC_ENTRANCE called by its thread,
\* unless the report of an earlier thread's crash takes the new one down
\* before it gets there.
EntranceIsCalled ==
  \A p \in Plugin : phase[p] = "fresh" ~> phase[p] = "starting" \/ StaleReport(p)
=============================================================================
