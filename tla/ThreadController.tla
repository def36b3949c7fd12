--------------------------- MODULE ThreadController ---------------------------
(***************************************************************************)
(* The plugin threads of cpp/src/libloader/ThreadController.cpp.           *)
(*                                                                         *)
(* A plugin that is enabled is bound to one worker thread, found by the    *)
(* plugin's id in thread_memory.  The worker takes jobs from its own FIFO  *)
(* queue until it is told to exit; it then drains the queue and returns.   *)
(* This module holds the workers' state, the operations the loader thread  *)
(* and the kt thread perform on it, and the steps of the workers.  Module  *)
(* PluginLoader composes it with the plugin list and the loader thread.    *)
(*                                                                         *)
(* _mtx and worker_mtx are modelled by atomicity: each critical section    *)
(* is (part of) one action.  callThreadEnd keeps _mtx while it waits for   *)
(* the worker, but whoever else wants _mtx needs pluginlist_mtx first,     *)
(* which the loader thread holds all that time.                            *)
(***************************************************************************)
EXTENDS Naturals, Sequences

CONSTANTS Plugin,      \* the plugin ids
          MaxThreads   \* bound: worker threads created over a behaviour

ASSUME MaxThreadsAssumption == MaxThreads \in Nat

Thread   == 1..MaxThreads
NoThread == 0
NoLib    == 0          \* a null plugin_handle

(***************************************************************************)
(* A job calls a function of a library instance: FUNC_ENTRANCE and         *)
(* FUNC_EXIT by a pointer captured when the job is made, FUNC_EVENT        *)
(* through the plugin's config when the job starts, so a queued event job  *)
(* names no library yet.                                                   *)
(***************************************************************************)
JobKind == {"entrance", "event", "exit"}
Job     == [kind : JobKind, lib : Nat]
NoJob   == [kind |-> "none", lib |-> NoLib]

EntranceJob(lib) == [kind |-> "entrance", lib |-> lib]
ExitJob(lib)     == [kind |-> "exit", lib |-> lib]
EventJob         == [kind |-> "event", lib |-> NoLib]

VARIABLES
  thread_memory,  \* the worker bound to each plugin id, or NoThread
  freed,          \* the workers whose threadWorker object is destroyed
  pluginid,       \* the plugin id a worker was created with
  job_queue,      \* the jobs each worker has still to take
  exit,           \* threadWorker::exit
  pc,             \* where each worker is in run()
  running,        \* the job a worker executes, or NoJob
  life            \* history: the last lifecycle job that ended, returned or thrown

workerVars == <<thread_memory, freed, pluginid, job_queue, exit, pc, running, life>>

WorkerPc == {"unborn", "loop", "job", "wait", "throwing", "returning", "done"}

WorkerTypeOK ==
  /\ thread_memory \in [Plugin -> Thread \cup {NoThread}]
  /\ freed \subseteq Thread
  /\ pluginid \in [Thread -> Plugin \cup {NoThread}]
  /\ job_queue \in [Thread -> Seq(Job)]
  /\ exit \in [Thread -> BOOLEAN]
  /\ pc \in [Thread -> WorkerPc]
  /\ running \in [Thread -> Job \cup {NoJob}]
  /\ life \in [Thread -> {"none", "entrance", "exit"}]

WorkerInit ==
  /\ thread_memory = [p \in Plugin |-> NoThread]
  /\ freed = {}
  /\ pluginid = [t \in Thread |-> NoThread]
  /\ job_queue = [t \in Thread |-> <<>>]
  /\ exit = [t \in Thread |-> FALSE]
  /\ pc = [t \in Thread |-> "unborn"]
  /\ running = [t \in Thread |-> NoJob]
  /\ life = [t \in Thread |-> "none"]

-----------------------------------------------------------------------------
(* What the other threads do to a worker.                                  *)

\* The first thread not created yet: an identity is never used again.
IsNext(t) ==
  /\ pc[t] = "unborn"
  /\ \A u \in Thread : pc[u] = "unborn" => t <= u

\* threadWorker::isBusy: busy is cleared as the very last act of run().
isBusy(t) == pc[t] # "done"

\* threadWorker::give_job, for all the workers of the set ts at once.
GiveJob(ts, job) ==
  job_queue' = [t \in Thread |-> IF t \in ts THEN Append(job_queue[t], job)
                                             ELSE job_queue[t]]

\* Mutant of AddThread: the new thread is not given its job.
AddThread_NoJob(p, job) ==
  \/ /\ thread_memory[p] # NoThread
     /\ UNCHANGED workerVars
  \/ /\ thread_memory[p] = NoThread
     /\ \E t \in Thread :
          /\ IsNext(t)
          /\ thread_memory' = [thread_memory EXCEPT ![p] = t]
          /\ pluginid' = [pluginid EXCEPT ![t] = p]
          /\ pc' = [pc EXCEPT ![t] = "loop"]
     /\ UNCHANGED <<freed, job_queue, exit, running, life>>

\* addThread: a name that has a thread already keeps it, and func is dropped.
AddThread(p, job) ==
  \/ /\ thread_memory[p] # NoThread
     /\ UNCHANGED workerVars
  \/ /\ thread_memory[p] = NoThread
     /\ \E t \in Thread :
          /\ IsNext(t)
          /\ thread_memory' = [thread_memory EXCEPT ![p] = t]
          /\ pluginid' = [pluginid EXCEPT ![t] = p]
          /\ pc' = [pc EXCEPT ![t] = "loop"]
          /\ GiveJob({t}, job)
     /\ UNCHANGED <<freed, exit, running, life>>

\* submitJob to the thread of every plugin of ps: ids without a thread are
\* logged and skipped.
SubmitJob(ps, job) ==
  /\ GiveJob({thread_memory[p] : p \in ps} \ {NoThread}, job)
  /\ UNCHANGED <<thread_memory, freed, pluginid, exit, pc, running, life>>

\* threadWorker::end
End(t) ==
  /\ exit' = [exit EXCEPT ![t] = TRUE]
  /\ UNCHANGED <<thread_memory, freed, pluginid, job_queue, pc, running, life>>

\* thread_memory.erase: the last shared_ptr to the threadWorker goes away.
Erase(p) ==
  /\ thread_memory' = [thread_memory EXCEPT ![p] = NoThread]
  /\ freed' = freed \cup {thread_memory[p]}

\* callThreadEnd after the wait of joinAndShutdownThread: joined or detached,
\* the worker is erased.
JoinAndErase(p) ==
  /\ Erase(p)
  /\ UNCHANGED <<pluginid, job_queue, exit, pc, running, life>>

\* Mutant of EndThread: the detached worker stays in thread_memory.
EndThread_NoErase(p) ==
  \/ /\ thread_memory[p] = NoThread
     /\ UNCHANGED workerVars
  \/ /\ thread_memory[p] # NoThread
     /\ exit' = [exit EXCEPT ![thread_memory[p]] = TRUE]
     /\ UNCHANGED <<thread_memory, freed, pluginid, job_queue, pc, running, life>>

\* endThread: end(), detach() and erase; an unknown name is logged.
EndThread(p) ==
  \/ /\ thread_memory[p] = NoThread
     /\ UNCHANGED workerVars
  \/ /\ thread_memory[p] # NoThread
     /\ exit' = [exit EXCEPT ![thread_memory[p]] = TRUE]
     /\ Erase(p)
     /\ UNCHANGED <<pluginid, job_queue, pc, running, life>>

-----------------------------------------------------------------------------
(* threadWorker::run.  The loop that runs while exit is false and the      *)
(* drain after it take jobs in the same way, so they share their steps.    *)

\* Pop the front job and call it; an event job finds its function at lib.
StartJob(t, lib) ==
  /\ pc[t] = "loop"
  /\ job_queue[t] # <<>>
  /\ LET job == Head(job_queue[t])
     IN running' = [running EXCEPT ![t] =
                      IF job.kind = "event" THEN [job EXCEPT !.lib = lib] ELSE job]
  /\ job_queue' = [job_queue EXCEPT ![t] = Tail(@)]
  /\ pc' = [pc EXCEPT ![t] = "job"]
  /\ UNCHANGED <<thread_memory, freed, pluginid, exit, life>>

\* The job returns.
FinishJob(t) ==
  /\ pc[t] = "job"
  /\ pc' = [pc EXCEPT ![t] = "loop"]
  /\ running' = [running EXCEPT ![t] = NoJob]
  /\ life' = [life EXCEPT ![t] = IF running[t].kind = "event" THEN @ ELSE running[t].kind]
  /\ UNCHANGED <<thread_memory, freed, pluginid, job_queue, exit>>

\* The job throws: _do_job answers false.  FUNC_ENTRANCE catches what its
\* plugin throws, but it also logs before the try and in the handlers.
ThrowJob(t) ==
  /\ pc[t] = "job"
  /\ pc' = [pc EXCEPT ![t] = "throwing"]
  /\ running' = [running EXCEPT ![t] = NoJob]
  /\ life' = [life EXCEPT ![t] = IF running[t].kind = "event" THEN @ ELSE running[t].kind]
  /\ UNCHANGED <<thread_memory, freed, pluginid, job_queue, exit>>

\* exception_call_this_thread_end; the loader's queue is PluginLoader's.
Reported(t) ==
  /\ pc[t] = "throwing"
  /\ pc' = [pc EXCEPT ![t] = "returning"]
  /\ UNCHANGED <<thread_memory, freed, pluginid, job_queue, exit, running, life>>

\* Mutant of Drained: run() returns as soon as it sees exit.
Drained_NoDrain(t) ==
  /\ pc[t] = "loop"
  /\ exit[t]
  /\ pc' = [pc EXCEPT ![t] = "returning"]
  /\ UNCHANGED <<thread_memory, freed, pluginid, job_queue, exit, running, life>>

\* exit is set and the queue is drained: run() ends.
Drained(t) ==
  /\ pc[t] = "loop"
  /\ exit[t]
  /\ job_queue[t] = <<>>
  /\ pc' = [pc EXCEPT ![t] = "returning"]
  /\ UNCHANGED <<thread_memory, freed, pluginid, job_queue, exit, running, life>>

\* The deferred JNIEnvManager::detach() and busy = false.
Return(t) ==
  /\ pc[t] = "returning"
  /\ pc' = [pc EXCEPT ![t] = "done"]
  /\ UNCHANGED <<thread_memory, freed, pluginid, job_queue, exit, running, life>>

\* The job calls a loader API that needs pluginlist_mtx, and gets it.
WaitForList(t) ==
  /\ pc[t] = "job"
  /\ pc' = [pc EXCEPT ![t] = "wait"]
  /\ UNCHANGED <<thread_memory, freed, pluginid, job_queue, exit, running, life>>

GotList(t) ==
  /\ pc[t] = "wait"
  /\ pc' = [pc EXCEPT ![t] = "job"]
  /\ UNCHANGED <<thread_memory, freed, pluginid, job_queue, exit, running, life>>
=============================================================================
