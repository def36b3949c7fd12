----------------------------- MODULE PluginTasks -----------------------------
(***************************************************************************)
(* The tasks a plugin hands to libLoader's thread pool (ThreadTask.h),     *)
(* from the plugin's side and together with the plugin's life: libLoader   *)
(* only takes function pointers, so the SDK keeps the functions in a store *)
(* of the library (get_function_storer) and pushes task_interface with the *)
(* number of the function.  The pool is what TaskExecution promises: a     *)
(* queue, executed in turn by a number of workers.                         *)
(*                                                                         *)
(* The plugin is a careful one: whoever makes a task waits until its       *)
(* function has returned or thrown (for promiseTask, on the future) before *)
(* it returns itself, and fewer tasks wait for tasks than there are        *)
(* workers.  A plain function that throws would end the process.           *)
(***************************************************************************)
EXTENDS Naturals, Sequences, FiniteSets

CONSTANTS
  Workers,      \* the number of the pool's threads
  MaxTasks,     \* bound: tasks the plugin makes
  MaxSessions   \* bound: how often the plugin is enabled

ASSUME TasksAssumption ==
  /\ Workers \in Nat \ {0} /\ MaxTasks \in Nat /\ MaxSessions \in Nat

VARIABLES
  auto_id,      \* get_auto_incr_id: how many numbers were given out
  function_storer, \* the numbers of the stored functions
  tasks,        \* the pool's queue
  step,         \* where each task is
  plain,        \* the tasks that are plain functions, pushed as they are
  maker,        \* who made each task: a task, or 0, the plugin's thread
  loader_apis,  \* the plugin's pointer to the loader's functions is set
  plugin,       \* what the loader has done with the plugin
  sessions      \* how often it was enabled (bounded)

vars == <<auto_id, function_storer, tasks, step, plain, maker, loader_apis, plugin, sessions>>

Id == 1..MaxTasks

\* Where a task can be after its function has returned or thrown.  "crashed":
\* its worker runs code that is not there or reads through a null pointer.
Over == {"log", "remove", "return", "done", "crashed"}

TypeOK ==
  /\ auto_id \in 0..MaxTasks
  /\ function_storer \subseteq Id
  /\ tasks \in Seq(Id)
  /\ step \in [Id -> {"absent", "numbered", "stored", "queued", "lookup", "missing", "invoke"} \cup Over]
  /\ plain \subseteq Id
  /\ maker \in [Id -> 0..MaxTasks]
  /\ loader_apis \in BOOLEAN
  /\ plugin \in {"enabled", "exit", "disabled", "unloaded"}
  /\ sessions \in Nat

Init ==
  /\ auto_id = 0
  /\ function_storer = {}
  /\ tasks = <<>>
  /\ step = [k \in Id |-> "absent"]
  /\ plain = {}
  /\ maker = [k \in Id |-> 0]
  /\ loader_apis = TRUE /\ plugin = "enabled" /\ sessions = 1

Mapped == plugin # "unloaded"

\* The tasks thread p made: the plugin's (0), or the one that runs task p.
Made(p) == {k \in 1..auto_id : maker[k] = p}
Pushing(p) == \E k \in Made(p) : step[k] \in {"numbered", "stored"}
FunctionsEnded(p) == \A k \in Made(p) : step[k] \in Over

\* The workers are busy with these tasks.
Running == {k \in Id : step[k] \in {"lookup", "invoke", "log", "remove", "return", "crashed"}}

\* Tasks that wait for tasks they made, or may come to do so.
Waiting(k) == {p \in Id : step[p] = "invoke" /\ (p = k \/ Made(p) # {})}

\* Nothing goes on when the process has crashed.
Alive == \A k \in Id : step[k] # "crashed"

At(k, from, to) == step[k] = from /\ Alive /\ step' = [step EXCEPT ![k] = to]

-----------------------------------------------------------------------------

\* promiseTask or addTask is called, by a task or by the plugin's thread, and
\* takes a number; a plain function takes none and has no wrapper.  That a
\* worker is left to execute it is the plugin's care, nothing in the code.
NewTask(p, isPlain) ==
  LET k == auto_id + 1 IN
  /\ k \in Id
  /\ ~Pushing(p)
  /\ IF p = 0 THEN plugin \in {"enabled", "exit"}
              ELSE step[p] = "invoke" /\ Cardinality(Waiting(p)) < Workers
  /\ auto_id' = k
  /\ maker' = [maker EXCEPT ![k] = p]
  /\ plain' = IF isPlain THEN plain \cup {k} ELSE plain
  /\ At(k, "absent", IF isPlain THEN "stored" ELSE "numbered")
  /\ UNCHANGED <<function_storer, tasks, loader_apis, plugin, sessions>>

\* push_task stores the function under the lock ...
StoreTask(k) ==
  /\ At(k, "numbered", "stored")
  /\ function_storer' = function_storer \cup {k}
  /\ UNCHANGED <<auto_id, tasks, plain, maker, loader_apis, plugin, sessions>>

\* Mutant of PushTask: the task is queued before its function is stored.
PushTask_First(k) ==
  /\ step[k] \in {"numbered", "stored"} /\ Alive
  /\ step' = [step EXCEPT ![k] = "queued"]
  /\ tasks' = Append(tasks, k)
  /\ UNCHANGED <<auto_id, function_storer, plain, maker, loader_apis, plugin, sessions>>

\* ... and LoaderApi::pushTaskWithId queues it; a plain function goes through
\* LoaderApi::pushTask.
PushTask(k) ==
  /\ At(k, "stored", IF loader_apis THEN "queued" ELSE "crashed")
  /\ tasks' = IF loader_apis THEN Append(tasks, k) ELSE tasks
  /\ UNCHANGED <<auto_id, function_storer, plain, maker, loader_apis, plugin, sessions>>

\* A worker takes the task and calls it.
TakeTask ==
  /\ tasks # <<>>
  /\ Cardinality(Running) < Workers
  /\ tasks' = Tail(tasks)
  /\ At(Head(tasks), "queued", IF Head(tasks) \in plain THEN "invoke" ELSE "lookup")
  /\ UNCHANGED <<auto_id, function_storer, plain, maker, loader_apis, plugin, sessions>>

\* A task that runs is code of the library, as long as that is mapped.
Runs(k, from, to) == At(k, from, IF Mapped THEN to ELSE "crashed")

\* task_interface finds the function and copies its shared pointer under the
\* shared lock; a function that is not there never runs.
task_interface(k) ==
  /\ Runs(k, "lookup", IF k \in function_storer THEN "invoke" ELSE "missing")
  /\ UNCHANGED <<auto_id, function_storer, tasks, plain, maker, loader_apis, plugin, sessions>>

\* Mutant of EndFunction: an exception of the function is not caught.
EndFunction_NoCatch(k) ==
  /\ \/ Runs(k, "invoke", IF k \in plain THEN "done" ELSE "remove")
     \/ k \notin plain /\ At(k, "invoke", "crashed")
  /\ FunctionsEnded(k)
  /\ UNCHANGED <<auto_id, function_storer, tasks, plain, maker, loader_apis, plugin, sessions>>

\* The function returns or throws, and promiseTask sets the future.
EndFunction(k) ==
  /\ \/ Runs(k, "invoke", IF k \in plain THEN "done" ELSE "remove")
     \/ k \notin plain /\ Runs(k, "invoke", "log")
  /\ FunctionsEnded(k)
  /\ UNCHANGED <<auto_id, function_storer, tasks, plain, maker, loader_apis, plugin, sessions>>

\* An exception is logged by a call of the loader, whose pointer is read
\* before checkApi tests it for null.
LogFailure(k) ==
  /\ Runs(k, "log", IF loader_apis THEN "remove" ELSE "crashed")
  /\ UNCHANGED <<auto_id, function_storer, tasks, plain, maker, loader_apis, plugin, sessions>>

\* Mutant of remove_task: a task that failed stays in the store.
remove_task_Never(k) ==
  /\ Runs(k, "remove", "return")
  /\ UNCHANGED <<auto_id, function_storer, tasks, plain, maker, loader_apis, plugin, sessions>>

remove_task(k) ==
  /\ Runs(k, "remove", "return")
  /\ function_storer' = function_storer \ {k}
  /\ UNCHANGED <<auto_id, tasks, plain, maker, loader_apis, plugin, sessions>>

\* The wrapper and task_interface return to the worker.
Return(k) ==
  /\ Runs(k, "return", "done")
  /\ UNCHANGED <<auto_id, function_storer, tasks, plain, maker, loader_apis, plugin, sessions>>

-----------------------------------------------------------------------------

\* FUNC_EXIT, once the event before it has returned.
FUNC_EXIT ==
  /\ Alive /\ plugin = "enabled" /\ ~Pushing(0)
  /\ plugin' = "exit"
  /\ UNCHANGED <<auto_id, function_storer, tasks, step, plain, maker, loader_apis, sessions>>

\* Mutant of reset_loader_apis: onDisable is still waiting for its tasks.
reset_loader_apis_Early ==
  /\ Alive /\ plugin = "exit"
  /\ plugin' = "disabled"
  /\ loader_apis' = FALSE
  /\ UNCHANGED <<auto_id, function_storer, tasks, step, plain, maker, sessions>>

\* onDisable has waited for the functions of the plugin's tasks, which have
\* waited for the functions of theirs; the pointer is reset.
reset_loader_apis ==
  /\ Alive /\ plugin = "exit" /\ FunctionsEnded(0)
  /\ plugin' = "disabled"
  /\ loader_apis' = FALSE
  /\ UNCHANGED <<auto_id, function_storer, tasks, step, plain, maker, sessions>>

\* FUNC_ENTRANCE: the loader enables it again; the store is as it was.
FUNC_ENTRANCE ==
  /\ Alive /\ plugin = "disabled" /\ sessions < MaxSessions
  /\ sessions' = sessions + 1
  /\ plugin' = "enabled"
  /\ loader_apis' = TRUE
  /\ UNCHANGED <<auto_id, function_storer, tasks, step, plain, maker>>

\* unload_plugin closes the library of a plugin that is disabled, at the latest
\* in unloadAll; only then does the loader wait for the pool's tasks.
Unload ==
  /\ Alive /\ plugin = "disabled"
  /\ plugin' = "unloaded"
  /\ function_storer' = {}
  /\ UNCHANGED <<auto_id, tasks, step, plain, maker, loader_apis, sessions>>

\* BS::pool.reset() returns, or the process has crashed.
Terminated ==
  /\ \/ plugin = "unloaded" /\ \A k \in Id : step[k] \in {"absent", "missing", "done"}
     \/ ~Alive
  /\ UNCHANGED vars

TaskStep(k) ==
  \/ StoreTask(k) \/ PushTask(k)
  \/ task_interface(k) \/ EndFunction(k) \/ LogFailure(k) \/ remove_task(k) \/ Return(k)

Next ==
  \/ \E p \in 0..MaxTasks, isPlain \in BOOLEAN : NewTask(p, isPlain)
  \/ TakeTask
  \/ \E k \in Id : TaskStep(k)
  \/ FUNC_EXIT \/ reset_loader_apis \/ FUNC_ENTRANCE \/ Unload
  \/ Terminated

Spec == Init /\ [][Next]_vars

\* Functions end, once the tasks they wait for have, and so do the plugin's
\* onDisable and the workers' steps.
FairSpec == /\ Spec
            /\ WF_vars(TakeTask) /\ WF_vars(reset_loader_apis)
            /\ \A k \in Id : WF_vars(TaskStep(k))

-----------------------------------------------------------------------------

\* The functions of the tasks run while the plugin is enabled or waits in its
\* onDisable, with the library mapped and the loader's functions set, however
\* deep tasks made tasks, and they are found in the store.  (Tasks.cfg has three
\* workers, so a task's task makes a third one.)
FunctionsRunEnabled ==
  \A k \in Id : step[k] \in {"queued", "lookup", "invoke"} =>
    loader_apis /\ Mapped /\ (k \notin plain /\ step[k] # "invoke" => k \in function_storer)

\* The store holds the functions of the tasks that were pushed and are not
\* over: nothing stays when its task has returned, nothing is missing.
StoreIsExact ==
  Mapped /\ Alive =>
    function_storer = {k \in Id \ plain :
                         step[k] \in {"stored", "queued", "lookup", "invoke", "log", "remove"}}

\* The future of every task is set, by an exception as well, though the store,
\* the queue and the tasks that wait for tasks are all on the way.  (NewTask
\* leaves a worker; without that the pool can be full of waiting tasks.)
FuturesAreSet == \A k \in Id : step[k] # "absent" ~> step[k] \in Over

\* A plugin that is being disabled comes out of its onDisable.
DisableReturns == plugin = "exit" ~> plugin # "exit"

\* Exception.h:276: PluginNotEnabledException is thrown when the plugin is not
\* loaded.  No call of the loader reads through the null pointer instead.
NotEnabledIsThrown == Mapped => Alive
=============================================================================
