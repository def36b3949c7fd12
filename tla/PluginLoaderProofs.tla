-------------------------- MODULE PluginLoaderProofs --------------------------
(***************************************************************************)
(* BaseInv of PluginLoaderInv is inductive, whatever Mishaps are allowed,  *)
(* and with it the types are.  One lemma per action; each shows the four   *)
(* parts of BaseInv in turn: the workers, the loader's variables, the      *)
(* current entry of the walk, the libraries.  On top of BaseInv: what the  *)
(* loader has unloaded at its end, and the parts of IInv that a single     *)
(* mishap breaks, each with its theorem.                                   *)
(***************************************************************************)
EXTENDS PluginLoaderInv, TLAPS

USE DEF NoLib, NoThread

\* BaseInv holds when loaderMain starts.
LEMMA InitBase == Init => BaseInv
  <1> SUFFICES ASSUME Init PROVE BaseInv
    OBVIOUS
  <1> USE LoaderAssumption DEF Init
  <1>1. TypeOK
    <2>1. WorkerTypeOK
      BY DEF WorkerInit, WorkerTypeOK, WorkerPc
    <2>2. /\ handle \in [Plugin -> Nat] /\ enabled \in [Plugin -> BOOLEAN]
          /\ image \in [Plugin -> Nat] /\ refs \in [Plugin -> Nat] /\ opens \in [Plugin -> Nat]
      OBVIOUS
    <2>3. listed \subseteq Plugin /\ queue \in Seq(Task) /\ task \in Task
      BY DEF Task, ToAll, AllTask
    <2> QED
      BY <2>1, <2>2, <2>3 DEF TypeOK, LoaderTypeOK, Stage, LoaderPc, Locked
  <1>2. TargetInv
    BY DEF TargetInv, EntrySteps, NewSteps, DisableSteps, Locked, ToAll, LoadNew
  <1>3. ASSUME NEW p \in Plugin PROVE LibraryOK(p)
    <2>1. /\ handle[p] = IF p \in listed THEN 1 ELSE 0
          /\ image[p] = handle[p] /\ refs[p] = handle[p]
          /\ ~enabled[p]
      OBVIOUS
    <2>2. handle[p] # NoLib => p \in listed
      BY <2>1
    <2>3. enabled[p] => handle[p] # NoLib
      BY <2>1
    <2>4. image[p] = NoLib <=> refs[p] = 0
      BY <2>1
    <2>5. Holds(p) => refs[p] >= 1 /\ handle[p] = image[p]
      BY <2>1 DEF Holds
    <2>6. ~HoldsNew(p)
      BY DEF HoldsNew
    <2> QED
      BY <2>2, <2>3, <2>4, <2>5, <2>6 DEF LibraryOK
  <1>4. ThreadInv
    BY DEF WorkerInit, ThreadInv, BoundOK, WorkerOK, Executing
  <1> QED
    BY <1>1, <1>2, <1>3, <1>4 DEF BaseInv, LibraryInv

\* What no worker takes part in keeps the workers' half of BaseInv.
LEMMA ThreadsKept ==
  ASSUME BaseInv, UNCHANGED workerVars
  PROVE  WorkerTypeOK' /\ ThreadInv'
  BY DEF BaseInv, TypeOK, WorkerTypeOK, ThreadInv, BoundOK, WorkerOK, Executing, workerVars

\* A step that leaves the list and the libraries alone, and that does not
\* begin or end a new plugin, keeps LibraryInv.
LEMMA LibrariesKept ==
  ASSUME BaseInv, UNCHANGED <<listVars, libVars, local>>,
         lpc' # lpc => lpc # "unload" /\ (lpc' = "insert" => lpc = "activate") /\ lpc' # "activate",
         lpc' \in {"unload", "activate", "insert"} => target' = target
  PROVE  LibraryInv'
  <1> SUFFICES ASSUME NEW p \in Plugin PROVE LibraryOK(p)'
    BY DEF LibraryInv
  <1> USE DEF listVars, libVars
  <1>1. LibraryOK(p)
    BY DEF BaseInv, LibraryInv
  <1>2. Holds(p)' => Holds(p)
    BY DEF Holds
  <1>3. HoldsNew(p)' => HoldsNew(p)
    BY DEF HoldsNew
  <1> QED
    BY <1>1, <1>2, <1>3 DEF LibraryOK

\* libOpen leaves the file of p mapped with one more user; an instance that
\* was mapped stays the same.
LEMMA LibraryOpened ==
  ASSUME NEW p \in Plugin, LoaderTypeOK, libOpen(p)
  PROVE  /\ image' \in [Plugin -> Nat] /\ refs' \in [Plugin -> Nat] /\ opens' \in [Plugin -> Nat]
         /\ image'[p] # NoLib /\ refs'[p] = refs[p] + 1
         /\ image[p] # NoLib => image'[p] = image[p]
         /\ \A q \in Plugin : q # p => image'[q] = image[q] /\ refs'[q] = refs[q]
  <1> USE DEF LoaderTypeOK, libOpen
  <1>1. CASE image[p] = NoLib
    <2>1. /\ image' = [image EXCEPT ![p] = opens[p] + 1]
          /\ opens' = [opens EXCEPT ![p] = opens[p] + 1]
          /\ refs' = [refs EXCEPT ![p] = refs[p] + 1]
      BY <1>1
    <2>2. opens[p] + 1 \in Nat /\ opens[p] + 1 # 0 /\ refs[p] + 1 \in Nat
      OBVIOUS
    <2> QED
      BY <1>1, <2>1, <2>2
  <1>2. CASE image[p] # NoLib
    <2>1. image' = image /\ opens' = opens /\ refs' = [refs EXCEPT ![p] = refs[p] + 1]
      BY <1>2
    <2> QED
      BY <1>2, <2>1
  <1> QED
    BY <1>1, <1>2

\* libClose of an open library unmaps it exactly when it was the last user.
LEMMA LibraryClosed ==
  ASSUME NEW p \in Plugin, LoaderTypeOK, LibraryOK(p), refs[p] >= 1, libClose(p)
  PROVE  /\ image' \in [Plugin -> Nat] /\ refs' \in [Plugin -> Nat] /\ opens' \in [Plugin -> Nat]
         /\ refs'[p] = refs[p] - 1
         /\ refs[p] >= 2 => image'[p] = image[p]
         /\ image'[p] = NoLib <=> refs'[p] = 0
         /\ \A q \in Plugin : q # p => image'[q] = image[q] /\ refs'[q] = refs[q]
  BY DEF LoaderTypeOK, LibraryOK, libClose

\* PopTask preserves BaseInv.
LEMMA PopTaskBase ==
  ASSUME BaseInv, PopTask
  PROVE  BaseInv'
  <1> USE DEF PopTask, loaderVars, listVars, libVars, envVars
  <1>0. task' \in Task /\ queue' \in Seq(Task)
    BY DEF BaseInv, TypeOK, LoaderTypeOK
  <1>1. WorkerTypeOK' /\ ThreadInv'
    BY ThreadsKept
  <1>2. LoaderTypeOK'
    <2>1. LoaderTypeOK
      BY DEF BaseInv, TypeOK
    <2> QED
      BY <2>1, <1>0 DEF LoaderTypeOK, Task, LoaderPc, OneTask, AllTask
  <1>3. TargetInv'
    BY <1>1, <1>0 DEF BaseInv, TargetInv, EntrySteps, NewSteps, DisableSteps, Locked, LoadNew, Task, AllTask
  <1>4. LibraryInv'
    BY LibrariesKept
  <1> QED
    BY <1>1, <1>2, <1>3, <1>4 DEF BaseInv, TypeOK

\* ShutdownLoader preserves BaseInv.
LEMMA ShutdownLoaderBase ==
  ASSUME BaseInv, ShutdownLoader
  PROVE  BaseInv'
  <1> USE DEF ShutdownLoader, loaderVars, listVars, libVars, envVars
  <1>1. WorkerTypeOK' /\ ThreadInv'
    BY ThreadsKept
  <1>2. LoaderTypeOK'
    <2>1. LoaderTypeOK
      BY DEF BaseInv, TypeOK
    <2> QED
      BY <2>1 DEF LoaderTypeOK, Task, LoaderPc, Stage, AllTask, ToAll
  <1>3. TargetInv'
    BY <1>1 DEF BaseInv, TargetInv, EntrySteps, NewSteps, DisableSteps, Locked, LoadNew, Task, AllTask, ToAll
  <1>4. LibraryInv'
    BY LibrariesKept
  <1> QED
    BY <1>1, <1>2, <1>3, <1>4 DEF BaseInv, TypeOK

\* AcquireList preserves BaseInv.
LEMMA AcquireListBase ==
  ASSUME BaseInv, AcquireList
  PROVE  BaseInv'
  <1> USE DEF AcquireList, loaderVars, listVars, libVars, envVars
  <1>1. WorkerTypeOK' /\ ThreadInv'
    BY ThreadsKept
  <1>2. LoaderTypeOK'
    <2>1. LoaderTypeOK
      BY DEF BaseInv, TypeOK
    <2> QED
      BY <2>1 DEF LoaderTypeOK, LoaderPc, Locked
  <1>3. TargetInv'
    BY <1>1 DEF BaseInv, TargetInv, EntrySteps, NewSteps, DisableSteps, Locked, LoadNew, Task, AllTask
  <1>4. LibraryInv'
    BY LibrariesKept
  <1> QED
    BY <1>1, <1>2, <1>3, <1>4 DEF BaseInv, TypeOK

\* What get_plugin_disable_ptr, unload_plugin, unload_when_exception and
\* load_plugin find out about an entry before they touch it.
LEMMA FirstStepFacts ==
  ASSUME NEW p \in Plugin
  PROVE  /\ FirstStep(p) \in {"next", "enable", "callThreadEnd", "endThread", "close", "load"}
         /\ FirstStep(p) = "callThreadEnd" => handle[p] # NoLib /\ enabled[p]
         /\ FirstStep(p) \in {"endThread", "close"} => handle[p] # NoLib
         /\ FirstStep(p) = "close" => ~enabled[p]
         /\ FirstStep(p) = "load" => handle[p] = NoLib /\ task.kind = "RELOAD"
         /\ FirstStep(p) = "endThread" => task.kind = "EXCEPTION_PLUGINEND"
  <1>1. CASE task.kind \in {"ADD_THREAD", "ENABLE_ALL"}
    BY <1>1 DEF FirstStep
  <1>2. CASE task.kind \in {"END_THREAD", "DISABLE_ALL"}
    BY <1>2 DEF FirstStep
  <1>3. CASE task.kind = "EXCEPTION_PLUGINEND"
    BY <1>3 DEF FirstStep
  <1>4. CASE task.kind \notin {"ADD_THREAD", "ENABLE_ALL", "END_THREAD", "DISABLE_ALL", "EXCEPTION_PLUGINEND"}
    BY <1>4 DEF FirstStep
  <1> QED
    BY <1>1, <1>2, <1>3, <1>4

\* Visit preserves BaseInv.
LEMMA VisitBase ==
  ASSUME NEW p \in Plugin, BaseInv, Visit(p)
  PROVE  BaseInv'
  <1> USE DEF Visit, loaderVars, listVars, libVars, envVars
  <1>0. LibraryOK(p)
    BY DEF BaseInv, LibraryInv
  <1>1. WorkerTypeOK' /\ ThreadInv'
    BY ThreadsKept
  <1>2. LoaderTypeOK'
    <2>1. LoaderTypeOK
      BY DEF BaseInv, TypeOK
    <2> QED
      BY <2>1, <1>0, FirstStepFacts DEF LoaderTypeOK, LoaderPc, Locked
  <1>3. TargetInv'
    BY <1>1, <1>0, FirstStepFacts DEF LibraryOK, BaseInv, TargetInv, EntrySteps, NewSteps, DisableSteps, Locked, LoadNew, Task, AllTask
  <1>4. LibraryInv'
    BY FirstStepFacts, LibrariesKept
  <1> QED
    BY <1>1, <1>2, <1>3, <1>4 DEF BaseInv, TypeOK

\* ReleaseList preserves BaseInv.
LEMMA ReleaseListBase ==
  ASSUME BaseInv, ReleaseList
  PROVE  BaseInv'
  <1> USE DEF ReleaseList, loaderVars, listVars, libVars, envVars
  <1>1. WorkerTypeOK' /\ ThreadInv'
    BY ThreadsKept
  <1>2. LoaderTypeOK'
    <2>1. LoaderTypeOK
      BY DEF BaseInv, TypeOK
    <2> QED
      BY <2>1 DEF LoaderTypeOK, Task, LoaderPc, Stage, AllTask, ToAll, NoTask
  <1>3. TargetInv'
    BY <1>1 DEF BaseInv, TargetInv, EntrySteps, NewSteps, DisableSteps, Locked, LoadNew, Task, AllTask, ToAll, NoTask
  <1>4. LibraryInv'
    BY LibrariesKept
  <1> QED
    BY <1>1, <1>2, <1>3, <1>4 DEF BaseInv, TypeOK

\* Request preserves BaseInv.
LEMMA RequestBase ==
  ASSUME NEW c \in Commands, BaseInv, Request(c)
  PROVE  BaseInv'
  <1> USE LoaderAssumption DEF Request, loaderVars, listVars, libVars, envVars
  <1>0. queue' \in Seq(Task) /\ requests' \in Nat
    BY DEF BaseInv, TypeOK, LoaderTypeOK
  <1>1. WorkerTypeOK' /\ ThreadInv'
    BY ThreadsKept
  <1>2. LoaderTypeOK'
    <2>1. LoaderTypeOK
      BY DEF BaseInv, TypeOK
    <2> QED
      BY <2>1, <1>0 DEF LoaderTypeOK, Stage, LoaderPc, Task
  <1>3. TargetInv'
    BY <1>1, <1>0 DEF BaseInv, TargetInv, workerVars
  <1>4. LibraryInv'
    BY LibrariesKept
  <1> QED
    BY <1>1, <1>2, <1>3, <1>4 DEF BaseInv, TypeOK

\* LoaderExit preserves BaseInv.
LEMMA LoaderExitBase ==
  ASSUME BaseInv, LoaderExit
  PROVE  BaseInv'
  <1> USE DEF LoaderExit, loaderVars, listVars, libVars, envVars
  <1>1. WorkerTypeOK' /\ ThreadInv'
    BY ThreadsKept
  <1>2. LoaderTypeOK'
    <2>1. LoaderTypeOK
      BY DEF BaseInv, TypeOK
    <2> QED
      BY <2>1 DEF LoaderTypeOK, Stage, LoaderPc, Task
  <1>3. TargetInv'
    BY <1>1 DEF BaseInv, TargetInv, workerVars
  <1>4. LibraryInv'
    BY LibrariesKept
  <1> QED
    BY <1>1, <1>2, <1>3, <1>4 DEF BaseInv, TypeOK

\* give_job to workers that exist.
LEMMA JobGiven ==
  ASSUME BaseInv, NEW ts \in SUBSET Thread, NEW job \in Job, GiveJob(ts, job),
         \A t \in ts : pc[t] # "unborn",
         UNCHANGED <<thread_memory, freed, pluginid, exit, pc, running, life>>
  PROVE  WorkerTypeOK' /\ ThreadInv'
  <1> USE DEF GiveJob, BaseInv, TypeOK
  <1>1. WorkerTypeOK /\ ThreadInv
    OBVIOUS
  <1>2. \A t \in Thread : job_queue'[t] \in Seq(Job)
    BY DEF WorkerTypeOK
  <1>3. WorkerTypeOK'
    BY <1>2 DEF WorkerTypeOK
  <1>4. \A t \in Thread : pc[t] = "unborn" => job_queue'[t] = job_queue[t]
    BY DEF WorkerTypeOK
  <1> QED
    BY <1>1, <1>3, <1>4 DEF ThreadInv, BoundOK, WorkerOK, Executing

\* addThread binds a thread that was never bound before, or nothing.
LEMMA ThreadAdded ==
  ASSUME BaseInv, NEW p \in Plugin, NEW job \in Job, AddThread(p, job)
  PROVE  WorkerTypeOK' /\ ThreadInv'
  <1> USE DEF AddThread, BaseInv, TypeOK
  <1>1. CASE UNCHANGED workerVars
    BY <1>1, ThreadsKept
  <1>2. ASSUME thread_memory[p] = NoThread, NEW t \in Thread, IsNext(t),
               thread_memory' = [thread_memory EXCEPT ![p] = t],
               pluginid' = [pluginid EXCEPT ![t] = p],
               pc' = [pc EXCEPT ![t] = "loop"],
               GiveJob({t}, job),
               UNCHANGED <<freed, exit, running, life>>
        PROVE  WorkerTypeOK' /\ ThreadInv'
    <2> USE <1>2
    <2>1. WorkerTypeOK /\ ThreadInv
      OBVIOUS
    <2>2. pc[t] = "unborn" /\ t \notin freed
      BY DEF IsNext, ThreadInv, WorkerOK
    <2>3. \A u \in Thread : job_queue'[u] \in Seq(Job)
      BY DEF WorkerTypeOK, GiveJob
    <2>4. WorkerTypeOK'
      BY <2>3 DEF WorkerTypeOK, GiveJob, WorkerPc
    <2>5. ASSUME NEW q \in Plugin PROVE BoundOK(q)'
      BY <2>1, <2>2 DEF WorkerTypeOK, ThreadInv, BoundOK
    <2>6. ASSUME NEW u \in Thread PROVE WorkerOK(u)'
      BY <2>1, <2>2 DEF WorkerTypeOK, ThreadInv, WorkerOK, Executing, GiveJob
    <2> QED
      BY <2>4, <2>5, <2>6 DEF ThreadInv
  <1> QED
    BY <1>1, <1>2

\* Erasing the worker of p leaves the others bound as they were.
LEMMA ThreadErased ==
  ASSUME BaseInv, NEW p \in Plugin, thread_memory[p] # NoThread, Erase(p),
         exit' \in [Thread -> BOOLEAN], \A t \in Thread : t # thread_memory[p] => exit'[t] = exit[t],
         UNCHANGED <<pluginid, job_queue, pc, running, life>>
  PROVE  WorkerTypeOK' /\ ThreadInv'
  <1> USE DEF Erase, BaseInv, TypeOK
  <1>1. WorkerTypeOK /\ ThreadInv
    OBVIOUS
  <1>2. thread_memory[p] \in Thread
    BY DEF WorkerTypeOK
  <1>3. WorkerTypeOK'
    BY <1>1, <1>2 DEF WorkerTypeOK
  <1>4. ASSUME NEW q \in Plugin PROVE BoundOK(q)'
    BY <1>1, <1>2 DEF WorkerTypeOK, ThreadInv, BoundOK
  <1>5. ASSUME NEW u \in Thread PROVE WorkerOK(u)'
    BY <1>1, <1>2 DEF WorkerTypeOK, ThreadInv, BoundOK, WorkerOK, Executing
  <1> QED
    BY <1>3, <1>4, <1>5 DEF ThreadInv

\* A worker's own step does not disturb who is bound to whom.
LEMMA WorkerStepped ==
  ASSUME BaseInv, NEW t \in Thread, WorkerTypeOK', pc[t] # "unborn", pc'[t] # "unborn",
         \A u \in Thread : u # t => /\ pc'[u] = pc[u] /\ running'[u] = running[u]
                                   /\ job_queue'[u] = job_queue[u] /\ life'[u] = life[u],
         pc'[t] \in {"job", "wait"} => running'[t] \in Job,
         UNCHANGED <<thread_memory, freed, pluginid, exit>>
  PROVE  ThreadInv'
  <1> USE DEF BaseInv, TypeOK
  <1>1. WorkerTypeOK /\ ThreadInv
    OBVIOUS
  <1>2. ASSUME NEW p \in Plugin PROVE BoundOK(p)'
    BY <1>1 DEF WorkerTypeOK, ThreadInv, BoundOK
  <1>3. ASSUME NEW u \in Thread PROVE WorkerOK(u)'
    BY <1>1 DEF WorkerTypeOK, ThreadInv, WorkerOK, Executing
  <1> QED
    BY <1>2, <1>3 DEF ThreadInv

\* EnablePlugin preserves BaseInv.
LEMMA EnablePluginBase ==
  ASSUME BaseInv, EnablePlugin
  PROVE  BaseInv'
  <1> USE DEF EnablePlugin, loaderVars, listVars, libVars, envVars
  <1>0. TypeOK /\ TargetInv /\ LibraryInv /\ ThreadInv
    BY DEF BaseInv
  <1>a. target \in listed /\ target \in Plugin /\ handle[target] \in Nat
    BY <1>0 DEF TargetInv, EntrySteps, Locked, TypeOK, LoaderTypeOK
  <1>1. WorkerTypeOK' /\ ThreadInv'
    <2>1. EntranceJob(handle[target]) \in Job
      BY <1>a DEF EntranceJob, Job, JobKind
    <2> QED
      BY <1>a, <2>1, ThreadAdded, ThreadsKept
  <1>2. LoaderTypeOK'
    BY <1>0, <1>a DEF TypeOK, LoaderTypeOK, Stage, LoaderPc, Locked, Task
  <1>3. TargetInv'
    BY <1>0, <1>a DEF TargetInv, EntrySteps, NewSteps, DisableSteps, Locked, LoadNew
  <1>4. LibraryInv'
    <2> SUFFICES ASSUME NEW p \in Plugin PROVE LibraryOK(p)'
      BY DEF LibraryInv
    <2>1. LibraryOK(p)
      BY <1>0 DEF LibraryInv
    <2>2. handle' = handle /\ image' = image /\ refs' = refs /\ listed' = listed /\ local' = local
      OBVIOUS
    <2>3. enabled'[p] => enabled[p] \/ handle[p] # NoLib
      BY <1>0, <1>a DEF TypeOK, LoaderTypeOK
    <2>4. Holds(p)' <=> Holds(p)
      BY DEF Holds
    <2>5. HoldsNew(p)' <=> HoldsNew(p)
      BY DEF HoldsNew
    <2> QED
      BY <2>1, <2>2, <2>3, <2>4, <2>5 DEF LibraryOK
  <1> QED
    BY <1>1, <1>2, <1>3, <1>4 DEF BaseInv, TypeOK

\* CallThreadEnd preserves BaseInv.
LEMMA CallThreadEndBase ==
  ASSUME BaseInv, CallThreadEnd
  PROVE  BaseInv'
  <1> USE DEF CallThreadEnd, loaderVars, listVars, libVars, envVars
  <1>0. TypeOK /\ TargetInv /\ LibraryInv /\ ThreadInv
    BY DEF BaseInv
  <1>a. target \in listed /\ target \in Plugin /\ handle[target] \in Nat
    BY <1>0 DEF TargetInv, EntrySteps, Locked, TypeOK, LoaderTypeOK
  <1>b. LibraryOK(target) /\ BoundOK(target)
    BY <1>0, <1>a DEF LibraryInv, ThreadInv
  <1>1. WorkerTypeOK' /\ ThreadInv'
    <2>1. ExitJob(handle[target]) \in Job
      BY <1>a DEF ExitJob, Job, JobKind
    <2>2. CASE thread_memory[target] = NoThread
      BY <2>2, ThreadsKept
    <2>3. CASE thread_memory[target] # NoThread
      <3>1. {thread_memory[target]} \in SUBSET Thread /\ pc[thread_memory[target]] # "unborn"
        BY <2>3, <1>0, <1>a, <1>b DEF TypeOK, WorkerTypeOK, BoundOK
      <3> QED
        BY <2>1, <2>3, <3>1, JobGiven
    <2> QED
      BY <2>2, <2>3
  <1>2. LoaderTypeOK'
    BY <1>0 DEF TypeOK, LoaderTypeOK, Stage, LoaderPc, Locked, Task
  <1>3. TargetInv'
    BY <1>0 DEF TargetInv, End, EntrySteps, NewSteps, DisableSteps, Locked, LoadNew
  <1>4. LibraryInv'
    BY LibrariesKept
  <1> QED
    BY <1>1, <1>2, <1>3, <1>4 DEF BaseInv, TypeOK

\* EndWorker preserves BaseInv.
LEMMA EndWorkerBase ==
  ASSUME BaseInv, EndWorker
  PROVE  BaseInv'
  <1> USE DEF EndWorker, loaderVars, listVars, libVars, envVars
  <1>0. TypeOK /\ TargetInv /\ LibraryInv /\ ThreadInv
    BY DEF BaseInv
  <1>a. target \in listed /\ target \in Plugin /\ handle[target] \in Nat
    BY <1>0 DEF TargetInv, EntrySteps, Locked, TypeOK, LoaderTypeOK
  <1>b. LibraryOK(target) /\ BoundOK(target)
    BY <1>0, <1>a DEF LibraryInv, ThreadInv
  <1>c. thread_memory[target] # NoThread
    BY <1>0 DEF TargetInv
  <1>1. WorkerTypeOK' /\ ThreadInv'
    BY <1>0, <1>a, <1>b, <1>c DEF End, TypeOK, WorkerTypeOK, ThreadInv, BoundOK, WorkerOK, Executing
  <1>2. LoaderTypeOK'
    BY <1>0 DEF TypeOK, LoaderTypeOK, Stage, LoaderPc, Locked, Task
  <1>3. TargetInv'
    BY <1>0 DEF TargetInv, End, EntrySteps, NewSteps, DisableSteps, Locked, LoadNew
  <1>4. LibraryInv'
    BY LibrariesKept
  <1> QED
    BY <1>1, <1>2, <1>3, <1>4 DEF BaseInv, TypeOK

\* JoinWorker preserves BaseInv.
LEMMA JoinWorkerBase ==
  ASSUME BaseInv, JoinWorker
  PROVE  BaseInv'
  <1> USE DEF JoinWorker, loaderVars, listVars, libVars, envVars
  <1>0. TypeOK /\ TargetInv /\ LibraryInv /\ ThreadInv
    BY DEF BaseInv
  <1>a. target \in listed /\ target \in Plugin /\ handle[target] \in Nat
    BY <1>0 DEF TargetInv, EntrySteps, Locked, TypeOK, LoaderTypeOK
  <1>c. thread_memory[target] # NoThread
    BY <1>0 DEF TargetInv
  <1>1. WorkerTypeOK' /\ ThreadInv'
    <2>1. /\ exit' \in [Thread -> BOOLEAN]
          /\ \A t \in Thread : t # thread_memory[target] => exit'[t] = exit[t]
      BY <1>0 DEF JoinAndErase, TypeOK, WorkerTypeOK
    <2> QED
      BY <1>a, <1>c, <2>1, ThreadErased DEF JoinAndErase
  <1>2. LoaderTypeOK'
    BY <1>0 DEF TypeOK, LoaderTypeOK, Stage, LoaderPc, Locked, Task
  <1>3. TargetInv'
    BY <1>0 DEF TargetInv, EntrySteps, NewSteps, DisableSteps, Locked, LoadNew
  <1>4. LibraryInv'
    BY LibrariesKept
  <1> QED
    BY <1>1, <1>2, <1>3, <1>4 DEF BaseInv, TypeOK

\* GiveUpJoin preserves BaseInv.
LEMMA GiveUpJoinBase ==
  ASSUME BaseInv, GiveUpJoin
  PROVE  BaseInv'
  <1> USE DEF GiveUpJoin, loaderVars, listVars, libVars, envVars
  <1>0. TypeOK /\ TargetInv /\ LibraryInv /\ ThreadInv
    BY DEF BaseInv
  <1>a. target \in listed /\ target \in Plugin /\ handle[target] \in Nat
    BY <1>0 DEF TargetInv, EntrySteps, Locked, TypeOK, LoaderTypeOK
  <1>c. thread_memory[target] # NoThread
    BY <1>0 DEF TargetInv
  <1>1. WorkerTypeOK' /\ ThreadInv'
    <2>1. /\ exit' \in [Thread -> BOOLEAN]
          /\ \A t \in Thread : t # thread_memory[target] => exit'[t] = exit[t]
      BY <1>0 DEF JoinAndErase, TypeOK, WorkerTypeOK
    <2> QED
      BY <1>a, <1>c, <2>1, ThreadErased DEF JoinAndErase
  <1>2. LoaderTypeOK'
    BY <1>0 DEF TypeOK, LoaderTypeOK, Stage, LoaderPc, Locked, Task
  <1>3. TargetInv'
    BY <1>0 DEF TargetInv, EntrySteps, NewSteps, DisableSteps, Locked, LoadNew
  <1>4. LibraryInv'
    BY LibrariesKept
  <1> QED
    BY <1>1, <1>2, <1>3, <1>4 DEF BaseInv, TypeOK

\* MarkDisabled preserves BaseInv.
LEMMA MarkDisabledBase ==
  ASSUME BaseInv, MarkDisabled
  PROVE  BaseInv'
  <1> USE DEF MarkDisabled, loaderVars, listVars, libVars, envVars
  <1>0. TypeOK /\ TargetInv /\ LibraryInv /\ ThreadInv
    BY DEF BaseInv
  <1>a. target \in listed /\ target \in Plugin /\ handle[target] \in Nat
    BY <1>0 DEF TargetInv, EntrySteps, Locked, TypeOK, LoaderTypeOK
  <1>1. WorkerTypeOK' /\ ThreadInv'
    BY ThreadsKept
  <1>2. LoaderTypeOK'
    BY <1>0, <1>a DEF TypeOK, LoaderTypeOK, Stage, LoaderPc, Locked, Task
  <1>3. TargetInv'
    BY <1>0, <1>a DEF TargetInv, EntrySteps, NewSteps, DisableSteps, Locked, LoadNew
  <1>4. LibraryInv'
    <2> SUFFICES ASSUME NEW p \in Plugin PROVE LibraryOK(p)'
      BY DEF LibraryInv
    <2>1. LibraryOK(p)
      BY <1>0 DEF LibraryInv
    <2>2. handle' = handle /\ image' = image /\ refs' = refs /\ listed' = listed /\ local' = local
      OBVIOUS
    <2>3. enabled'[p] => enabled[p]
      BY <1>0, <1>a DEF TypeOK, LoaderTypeOK
    <2>4. Holds(p)' <=> Holds(p)
      BY DEF Holds
    <2>5. HoldsNew(p)' <=> HoldsNew(p)
      BY DEF HoldsNew
    <2> QED
      BY <2>1, <2>2, <2>3, <2>4, <2>5 DEF LibraryOK
  <1> QED
    BY <1>1, <1>2, <1>3, <1>4 DEF BaseInv, TypeOK

\* EndThreadOfCrashed preserves BaseInv.
LEMMA EndThreadOfCrashedBase ==
  ASSUME BaseInv, EndThreadOfCrashed
  PROVE  BaseInv'
  <1> USE DEF EndThreadOfCrashed, loaderVars, listVars, libVars, envVars
  <1>0. TypeOK /\ TargetInv /\ LibraryInv /\ ThreadInv
    BY DEF BaseInv
  <1>a. target \in listed /\ target \in Plugin /\ handle[target] \in Nat
    BY <1>0 DEF TargetInv, EntrySteps, Locked, TypeOK, LoaderTypeOK
  <1>1. WorkerTypeOK' /\ ThreadInv'
    <2>1. CASE thread_memory[target] = NoThread
      BY <2>1, ThreadsKept DEF EndThread
    <2>2. CASE thread_memory[target] # NoThread
      <3>1. /\ exit' \in [Thread -> BOOLEAN]
            /\ \A t \in Thread : t # thread_memory[target] => exit'[t] = exit[t]
        BY <2>2, <1>0 DEF EndThread, TypeOK, WorkerTypeOK
      <3> QED
        BY <1>a, <2>2, <3>1, ThreadErased DEF EndThread
    <2> QED
      BY <2>1, <2>2
  <1>2. LoaderTypeOK'
    BY <1>0 DEF TypeOK, LoaderTypeOK, Stage, LoaderPc, Locked, Task
  <1>3. TargetInv'
    BY <1>0 DEF TargetInv, EntrySteps, NewSteps, DisableSteps, Locked, LoadNew
  <1>4. LibraryInv'
    BY LibrariesKept
  <1> QED
    BY <1>1, <1>2, <1>3, <1>4 DEF BaseInv, TypeOK

\* CloseLibrary preserves BaseInv.
LEMMA CloseLibraryBase ==
  ASSUME BaseInv, CloseLibrary
  PROVE  BaseInv'
  <1> USE DEF CloseLibrary, loaderVars, listVars, libVars, envVars
  <1>0. TypeOK /\ TargetInv /\ LibraryInv /\ ThreadInv
    BY DEF BaseInv
  <1>a. target \in listed /\ target \in Plugin /\ handle[target] \in Nat
    BY <1>0 DEF TargetInv, EntrySteps, Locked, TypeOK, LoaderTypeOK
  <1>b. LibraryOK(target) /\ BoundOK(target)
    BY <1>0, <1>a DEF LibraryInv, ThreadInv
  <1>c. handle[target] # NoLib /\ refs[target] >= 1 /\ handle[target] = image[target]
    BY <1>0, <1>b DEF TargetInv, LibraryOK, Holds
  <1>d. /\ image' \in [Plugin -> Nat] /\ refs' \in [Plugin -> Nat] /\ opens' \in [Plugin -> Nat]
        /\ image'[target] = NoLib <=> refs'[target] = 0
        /\ \A q \in Plugin : q # target => image'[q] = image[q] /\ refs'[q] = refs[q]
    BY <1>0, <1>a, <1>b, <1>c, LibraryClosed DEF TypeOK
  <1>1. WorkerTypeOK' /\ ThreadInv'
    BY ThreadsKept
  <1>2. LoaderTypeOK'
    BY <1>0, <1>d DEF TypeOK, LoaderTypeOK, Stage, LoaderPc, Locked, Task
  <1>3. TargetInv'
    BY <1>0 DEF TargetInv, EntrySteps, NewSteps, DisableSteps, Locked, LoadNew
  <1>4. LibraryInv'
    <2> SUFFICES ASSUME NEW p \in Plugin PROVE LibraryOK(p)'
      BY DEF LibraryInv
    <2>1. LibraryOK(p)
      BY <1>0 DEF LibraryInv
    <2>2. ~HoldsNew(p) /\ ~HoldsNew(p)'
      BY DEF HoldsNew
    <2>3. p # target => (Holds(p)' <=> Holds(p))
      BY DEF Holds
    <2>4. CASE p = target
      BY <1>d, <2>1, <2>2, <2>4 DEF LibraryOK, Holds
    <2>5. CASE p # target
      BY <1>d, <2>1, <2>2, <2>3, <2>5 DEF LibraryOK
    <2> QED
      BY <2>4, <2>5
  <1> QED
    BY <1>1, <1>2, <1>3, <1>4 DEF BaseInv, TypeOK

\* MarkUnloaded preserves BaseInv.
LEMMA MarkUnloadedBase ==
  ASSUME BaseInv, MarkUnloaded
  PROVE  BaseInv'
  <1> USE DEF MarkUnloaded, loaderVars, listVars, libVars, envVars
  <1>0. TypeOK /\ TargetInv /\ LibraryInv /\ ThreadInv
    BY DEF BaseInv
  <1>a. target \in listed /\ target \in Plugin /\ handle[target] \in Nat
    BY <1>0 DEF TargetInv, EntrySteps, Locked, TypeOK, LoaderTypeOK
  <1>c. /\ handle'[target] = NoLib /\ ~enabled'[target]
        /\ \A q \in Plugin : q # target => handle'[q] = handle[q] /\ enabled'[q] = enabled[q]
    BY <1>0, <1>a DEF TypeOK, LoaderTypeOK
  <1>1. WorkerTypeOK' /\ ThreadInv'
    BY ThreadsKept
  <1>2. LoaderTypeOK'
    BY <1>0, <1>a DEF TypeOK, LoaderTypeOK, Stage, LoaderPc, Locked, Task
  <1>3. TargetInv'
    BY <1>0, <1>a, <1>c DEF TargetInv, EntrySteps, NewSteps, DisableSteps, Locked, LoadNew
  <1>4. LibraryInv'
    <2> SUFFICES ASSUME NEW p \in Plugin PROVE LibraryOK(p)'
      BY DEF LibraryInv
    <2>1. LibraryOK(p)
      BY <1>0 DEF LibraryInv
    <2>2. ~HoldsNew(p) /\ ~HoldsNew(p)'
      BY DEF HoldsNew
    <2>3. CASE p = target
      BY <1>0, <1>c, <2>1, <2>2, <2>3 DEF LibraryOK, Holds
    <2>4. CASE p # target
      <3>1. Holds(p)' <=> Holds(p)
        BY <1>0, <1>c, <2>4 DEF Holds
      <3> QED
        BY <1>0, <1>c, <2>1, <2>2, <2>4, <3>1 DEF LibraryOK
    <2> QED
      BY <2>3, <2>4
  <1> QED
    BY <1>1, <1>2, <1>3, <1>4 DEF BaseInv, TypeOK

\* LoadPlugin preserves BaseInv.
LEMMA LoadPluginBase ==
  ASSUME BaseInv, LoadPlugin
  PROVE  BaseInv'
  <1> USE DEF LoadPlugin, loaderVars, listVars, libVars, envVars
  <1>0. TypeOK /\ TargetInv /\ LibraryInv /\ ThreadInv
    BY DEF BaseInv
  <1>a. target \in listed /\ target \in Plugin /\ handle[target] \in Nat
    BY <1>0 DEF TargetInv, EntrySteps, Locked, TypeOK, LoaderTypeOK
  <1>b. LibraryOK(target) /\ BoundOK(target)
    BY <1>0, <1>a DEF LibraryInv, ThreadInv
  <1>c. /\ image' \in [Plugin -> Nat] /\ refs' \in [Plugin -> Nat] /\ opens' \in [Plugin -> Nat]
        /\ image'[target] # NoLib /\ refs'[target] = refs[target] + 1
        /\ image[target] # NoLib => image'[target] = image[target]
        /\ \A q \in Plugin : q # target => image'[q] = image[q] /\ refs'[q] = refs[q]
    BY <1>0, <1>a, LibraryOpened DEF TypeOK
  <1>d. handle[target] = NoLib /\ ~enabled[target] /\ target \in listed
    BY <1>0, <1>a DEF TargetInv
  <1>e. /\ handle' \in [Plugin -> Nat] /\ enabled' \in [Plugin -> BOOLEAN]
        /\ handle'[target] = image'[target] /\ ~enabled'[target]
        /\ \A q \in Plugin : q # target => handle'[q] = handle[q] /\ enabled'[q] = enabled[q]
    BY <1>0, <1>a, <1>c DEF TypeOK, LoaderTypeOK
  <1>1. WorkerTypeOK' /\ ThreadInv'
    BY ThreadsKept
  <1>2. LoaderTypeOK'
    BY <1>0, <1>c, <1>e DEF TypeOK, LoaderTypeOK, Stage, LoaderPc, Locked, Task
  <1>3. TargetInv'
    BY <1>0, <1>a, <1>c, <1>d, <1>e DEF TargetInv, EntrySteps, NewSteps, DisableSteps, Locked, LoadNew
  <1>4. LibraryInv'
    <2> SUFFICES ASSUME NEW p \in Plugin PROVE LibraryOK(p)'
      BY DEF LibraryInv
    <2>1. LibraryOK(p)
      BY <1>0 DEF LibraryInv
    <2>2. ~HoldsNew(p) /\ ~HoldsNew(p)'
      BY DEF HoldsNew
    <2>3. refs[p] \in Nat
      BY <1>0 DEF TypeOK, LoaderTypeOK
    <2>4. CASE p = target
      <3>1. refs'[p] >= 1
        BY <1>c, <2>3, <2>4
      <3> QED
        BY <1>c, <1>d, <1>e, <2>2, <2>4, <3>1 DEF LibraryOK
    <2>5. CASE p # target
      <3>1. Holds(p)' <=> Holds(p)
        BY <1>e, <2>5 DEF Holds
      <3> QED
        BY <1>c, <1>e, <2>1, <2>2, <2>5, <3>1 DEF LibraryOK
    <2> QED
      BY <2>4, <2>5
  <1> QED
    BY <1>1, <1>2, <1>3, <1>4 DEF BaseInv, TypeOK

\* LoadFails preserves BaseInv.
LEMMA LoadFailsBase ==
  ASSUME BaseInv, LoadFails
  PROVE  BaseInv'
  <1> USE DEF LoadFails, loaderVars, listVars, libVars, envVars
  <1>0. TypeOK /\ TargetInv /\ LibraryInv /\ ThreadInv
    BY DEF BaseInv
  <1>a. target \in Plugin
    BY <1>0 DEF TargetInv, EntrySteps, NewSteps, Locked, TypeOK, LoaderTypeOK
  <1>c. UNCHANGED libVars \/
        /\ image' \in [Plugin -> Nat] /\ refs' \in [Plugin -> Nat] /\ opens' \in [Plugin -> Nat]
        /\ image'[target] # NoLib /\ refs'[target] = refs[target] + 1
        /\ image[target] # NoLib => image'[target] = image[target]
        /\ \A q \in Plugin : q # target => image'[q] = image[q] /\ refs'[q] = refs[q]
    BY <1>0, <1>a, LibraryOpened DEF TypeOK
  <1>1. WorkerTypeOK' /\ ThreadInv'
    BY ThreadsKept
  <1>2. LoaderTypeOK'
    BY <1>0, <1>c DEF TypeOK, LoaderTypeOK, Stage, LoaderPc, Locked, Task
  <1>3. TargetInv'
    BY <1>0 DEF TargetInv, EntrySteps, NewSteps, DisableSteps, Locked, LoadNew, NoTask, ToAll
  <1>4. LibraryInv'
    <2> SUFFICES ASSUME NEW p \in Plugin PROVE LibraryOK(p)'
      BY DEF LibraryInv
    <2>1. LibraryOK(p)
      BY <1>0 DEF LibraryInv
    <2>2. ~HoldsNew(p) /\ ~HoldsNew(p)' /\ (Holds(p)' <=> Holds(p))
      BY DEF HoldsNew, Holds
    <2>3. refs[p] \in Nat
      BY <1>0 DEF TypeOK, LoaderTypeOK
    <2>4. /\ refs'[p] \in Nat /\ refs'[p] >= refs[p]
          /\ image[p] # NoLib => image'[p] = image[p]
          /\ image'[p] = NoLib <=> refs'[p] = 0
      BY <1>c, <2>1, <2>3 DEF LibraryOK
    <2>5. Holds(p) => refs'[p] >= 1
      BY <2>1, <2>3, <2>4 DEF LibraryOK
    <2>6. Holds(p) => image'[p] = handle[p]
      BY <2>1, <2>4 DEF LibraryOK, Holds
    <2> QED
      BY <2>1, <2>2, <2>4, <2>5, <2>6 DEF LibraryOK
  <1> QED
    BY <1>1, <1>2, <1>3, <1>4 DEF BaseInv, TypeOK

\* OpenNew preserves BaseInv.
LEMMA OpenNewBase ==
  ASSUME BaseInv, OpenNew
  PROVE  BaseInv'
  <1> USE DEF OpenNew, loaderVars, listVars, libVars, envVars
  <1>0. TypeOK /\ TargetInv /\ LibraryInv /\ ThreadInv
    BY DEF BaseInv
  <1>a. target \in Plugin
    BY <1>0 DEF TargetInv, NewSteps
  <1>c. /\ image' \in [Plugin -> Nat] /\ refs' \in [Plugin -> Nat] /\ opens' \in [Plugin -> Nat]
        /\ image'[target] # NoLib /\ refs'[target] = refs[target] + 1
        /\ image[target] # NoLib => image'[target] = image[target]
        /\ \A q \in Plugin : q # target => image'[q] = image[q] /\ refs'[q] = refs[q]
    BY <1>0, <1>a, LibraryOpened DEF TypeOK
  <1>1. WorkerTypeOK' /\ ThreadInv'
    BY ThreadsKept
  <1>2. LoaderTypeOK'
    BY <1>0, <1>a, <1>c DEF TypeOK, LoaderTypeOK, Stage, LoaderPc, Locked, Task
  <1>3. TargetInv'
    BY <1>0, <1>c DEF TargetInv, EntrySteps, NewSteps, DisableSteps, Locked, LoadNew
  <1>4. LibraryInv'
    <2> SUFFICES ASSUME NEW p \in Plugin PROVE LibraryOK(p)'
      BY DEF LibraryInv
    <2>1. LibraryOK(p)
      BY <1>0 DEF LibraryInv
    <2>2. (Holds(p)' <=> Holds(p)) /\ (HoldsNew(p)' <=> p = target)
      BY DEF HoldsNew, Holds
    <2>3. refs[p] \in Nat
      BY <1>0 DEF TypeOK, LoaderTypeOK
    <2>4. /\ refs'[p] \in Nat /\ refs'[p] >= refs[p]
          /\ image[p] # NoLib => image'[p] = image[p]
          /\ image'[p] = NoLib <=> refs'[p] = 0
      BY <1>c, <2>1, <2>3 DEF LibraryOK
    <2>5. p = target => refs'[p] >= 1
      BY <1>c, <2>3
    <2>6. Holds(p) => refs'[p] >= 1 /\ image'[p] = handle[p]
      BY <2>1, <2>3, <2>4 DEF LibraryOK, Holds
    <2>7. Holds(p) /\ p = target => refs'[p] >= 2
      BY <1>c, <2>1, <2>3, <2>4 DEF LibraryOK
    <2> QED
      BY <2>1, <2>2, <2>4, <2>5, <2>6, <2>7 DEF LibraryOK
  <1> QED
    BY <1>1, <1>2, <1>3, <1>4 DEF BaseInv, TypeOK

\* ActivateNew preserves BaseInv.
LEMMA ActivateNewBase ==
  ASSUME BaseInv, ActivateNew
  PROVE  BaseInv'
  <1> USE DEF ActivateNew, loaderVars, listVars, libVars, envVars
  <1>0. TypeOK /\ TargetInv /\ LibraryInv /\ ThreadInv
    BY DEF BaseInv
  <1>a. target \in Plugin
    BY <1>0 DEF TargetInv, NewSteps
  <1>1. WorkerTypeOK' /\ ThreadInv'
    <2>1. EntranceJob(local) \in Job
      BY <1>0 DEF EntranceJob, Job, JobKind, TypeOK, LoaderTypeOK
    <2> QED
      BY <1>a, <2>1, ThreadAdded
  <1>2. LoaderTypeOK'
    BY <1>0 DEF TypeOK, LoaderTypeOK, Stage, LoaderPc, Locked, Task
  <1>3. TargetInv'
    BY <1>0 DEF TargetInv, EntrySteps, NewSteps, DisableSteps, Locked, LoadNew
  <1>4. LibraryInv'
    BY LibrariesKept
  <1> QED
    BY <1>1, <1>2, <1>3, <1>4 DEF BaseInv, TypeOK

\* AddNewPlugin preserves BaseInv.
LEMMA AddNewPluginBase ==
  ASSUME BaseInv, AddNewPlugin
  PROVE  BaseInv'
  <1> USE DEF AddNewPlugin, loaderVars, listVars, libVars, envVars
  <1>0. TypeOK /\ TargetInv /\ LibraryInv /\ ThreadInv
    BY DEF BaseInv
  <1>1. WorkerTypeOK' /\ ThreadInv'
    BY ThreadsKept
  <1>2. target \in Plugin /\ local # NoLib
    BY <1>0 DEF TargetInv, NewSteps
  <1>3. LibraryOK(target) /\ HoldsNew(target) /\ refs[target] >= 1 /\ local = image[target]
    BY <1>0, <1>2 DEF LibraryInv, LibraryOK, HoldsNew
  <1>4. CASE target \notin listed
    <2>0. /\ enabled' \in [Plugin -> BOOLEAN]
          /\ \A q \in Plugin : q # target => enabled'[q] = enabled[q]
      <3>1. /\ enabled' = [enabled EXCEPT ![target] = task.kind = "LOAD_NEW_ACTIVATENOW"]
            /\ enabled \in [Plugin -> BOOLEAN]
        BY <1>0, <1>4 DEF TypeOK, LoaderTypeOK
      <3> QED
        BY <3>1, <1>2
    <2>a. /\ handle' \in [Plugin -> Nat] /\ handle'[target] = local
          /\ \A q \in Plugin : q # target => handle'[q] = handle[q]
      <3>1. handle' = [handle EXCEPT ![target] = local] /\ handle \in [Plugin -> Nat] /\ local \in Nat
        BY <1>0, <1>4 DEF TypeOK, LoaderTypeOK
      <3> QED
        BY <3>1, <1>2
    <2>1. /\ listed' = listed \cup {target} /\ UNCHANGED libVars
          /\ handle' \in [Plugin -> Nat] /\ enabled' \in [Plugin -> BOOLEAN]
          /\ handle'[target] = local
          /\ \A q \in Plugin : q # target => handle'[q] = handle[q] /\ enabled'[q] = enabled[q]
      BY <1>4, <2>0, <2>a
    <2>2. LoaderTypeOK'
      BY <1>0, <1>2, <2>1 DEF TypeOK, LoaderTypeOK, Stage, LoaderPc, Locked, Task
    <2>3. TargetInv'
      BY <1>0, <2>1 DEF TargetInv, EntrySteps, NewSteps, DisableSteps, Locked, LoadNew, NoTask, ToAll
    <2>4. ASSUME NEW p \in Plugin PROVE LibraryOK(p)'
      <3>1. LibraryOK(p) /\ ~HoldsNew(p)'
        BY <1>0 DEF LibraryInv, HoldsNew
      <3>2. CASE p = target
        BY <1>2, <1>3, <2>1, <3>1, <3>2 DEF LibraryOK
      <3>3. CASE p # target
        <4>1. Holds(p)' <=> Holds(p)
          BY <2>1, <3>3 DEF Holds
        <4> QED
          BY <2>1, <3>1, <3>3, <4>1 DEF LibraryOK
      <3> QED
        BY <3>2, <3>3
    <2> QED
      BY <1>1, <2>2, <2>3, <2>4 DEF BaseInv, TypeOK, LibraryInv
  <1>5. CASE target \in listed
    <2>1. /\ libClose(target) /\ UNCHANGED listVars
          /\ image' \in [Plugin -> Nat] /\ refs' \in [Plugin -> Nat] /\ opens' \in [Plugin -> Nat]
          /\ refs'[target] = refs[target] - 1
          /\ refs[target] >= 2 => image'[target] = image[target]
          /\ image'[target] = NoLib <=> refs'[target] = 0
          /\ \A q \in Plugin : q # target => image'[q] = image[q] /\ refs'[q] = refs[q]
      BY <1>0, <1>2, <1>3, <1>5, LibraryClosed DEF TypeOK
    <2>2. LoaderTypeOK'
      BY <1>0, <1>2, <2>1 DEF TypeOK, LoaderTypeOK, Stage, LoaderPc, Locked, Task
    <2>3. TargetInv'
      BY <1>0, <2>1 DEF TargetInv, EntrySteps, NewSteps, DisableSteps, Locked, LoadNew, NoTask, ToAll
    <2>4. ASSUME NEW p \in Plugin PROVE LibraryOK(p)'
      <3>1. LibraryOK(p) /\ ~HoldsNew(p)' /\ (Holds(p)' <=> Holds(p)) /\ refs[p] \in Nat
        BY <1>0, <2>1 DEF LibraryInv, HoldsNew, Holds, TypeOK, LoaderTypeOK
      <3>2. CASE p = target
        <4>1. Holds(p) => refs[p] >= 2 /\ refs'[p] >= 1
          BY <1>3, <2>1, <3>1, <3>2 DEF LibraryOK
        <4> QED
          BY <2>1, <3>1, <3>2, <4>1 DEF LibraryOK
      <3>3. CASE p # target
        BY <2>1, <3>1, <3>3 DEF LibraryOK
      <3> QED
        BY <3>2, <3>3
    <2> QED
      BY <1>1, <2>2, <2>3, <2>4 DEF BaseInv, TypeOK, LibraryInv
  <1> QED
    BY <1>4, <1>5

\* The steps of the workers keep the loader's half of BaseInv.
LEMMA LoaderKept ==
  ASSUME BaseInv, UNCHANGED <<listVars, libVars, loaderVars, envVars, thread_memory>>,
         queue' \in Seq(Task)
  PROVE  LoaderTypeOK' /\ TargetInv' /\ LibraryInv'
  <1> USE DEF listVars, libVars, loaderVars, envVars
  <1>1. LoaderTypeOK'
    BY DEF BaseInv, TypeOK, LoaderTypeOK, Stage, LoaderPc, Task
  <1>2. TargetInv'
    BY DEF BaseInv, TargetInv
  <1>3. LibraryInv'
    BY LibrariesKept
  <1> QED
    BY <1>1, <1>2, <1>3

\* Event preserves BaseInv.
LEMMA EventBase ==
  ASSUME BaseInv, Event
  PROVE  BaseInv'
  <1> USE DEF Event, SubmitJob
  <1>0. TypeOK /\ TargetInv /\ LibraryInv /\ ThreadInv
    BY DEF BaseInv
  <1> DEFINE ts == {thread_memory[p] : p \in {p \in listed : handle[p] # NoLib /\ enabled[p]}} \ {NoThread}
  <1>1. WorkerTypeOK' /\ ThreadInv'
    <2>1. ts \in SUBSET Thread /\ \A t \in ts : pc[t] # "unborn"
      BY <1>0 DEF TypeOK, LoaderTypeOK, WorkerTypeOK, ThreadInv, BoundOK
    <2>2. EventJob \in Job
      BY DEF EventJob, Job, JobKind
    <2> QED
      BY <2>1, <2>2, JobGiven
  <1>2. LoaderTypeOK'
    <2>1. events' \in Nat
      BY <1>0 DEF TypeOK, LoaderTypeOK
    <2> QED
      BY <1>0, <2>1 DEF TypeOK, LoaderTypeOK, Stage, LoaderPc, Task, listVars, libVars, loaderVars
  <1>3. TargetInv'
    BY <1>0 DEF TargetInv, listVars, loaderVars
  <1>4. LibraryInv'
    BY LibrariesKept DEF loaderVars
  <1> QED
    BY <1>1, <1>2, <1>3, <1>4 DEF BaseInv, TypeOK

\* RunJob preserves BaseInv.
LEMMA RunJobBase ==
  ASSUME BaseInv, NEW t \in Thread, RunJob(t)
  PROVE  BaseInv'
  <1> USE DEF RunJob, StartJob, othersUnchanged
  <1>0. TypeOK /\ ThreadInv /\ WorkerOK(t)
    BY DEF BaseInv, ThreadInv
  <1>a. /\ Head(job_queue[t]) \in Job /\ Tail(job_queue[t]) \in Seq(Job)
        /\ running'[t] \in Job
    <2>1. Head(job_queue[t]) \in Job /\ Tail(job_queue[t]) \in Seq(Job)
      BY <1>0 DEF TypeOK, WorkerTypeOK
    <2>2. pluginid[t] \in Plugin /\ handle[pluginid[t]] \in Nat
      BY <1>0 DEF TypeOK, LoaderTypeOK, WorkerOK
    <2>3. [Head(job_queue[t]) EXCEPT !.lib = handle[pluginid[t]]] \in Job
      BY <2>1, <2>2 DEF Job
    <2> QED
      BY <1>0, <2>1, <2>3 DEF TypeOK, WorkerTypeOK
  <1>1. WorkerTypeOK'
    BY <1>0, <1>a DEF TypeOK, WorkerTypeOK, WorkerPc
  <1>2. ThreadInv'
    BY <1>0, <1>1, <1>a, WorkerStepped DEF TypeOK, WorkerTypeOK, WorkerOK, Executing
  <1>3. queue' \in Seq(Task)
    BY <1>0 DEF TypeOK, LoaderTypeOK
  <1> QED
    BY <1>1, <1>2, <1>3, LoaderKept DEF BaseInv, TypeOK

\* CompleteJob preserves BaseInv.
LEMMA CompleteJobBase ==
  ASSUME BaseInv, NEW t \in Thread, CompleteJob(t)
  PROVE  BaseInv'
  <1> USE DEF CompleteJob, FinishJob, othersUnchanged
  <1>0. TypeOK /\ ThreadInv /\ WorkerOK(t)
    BY DEF BaseInv, ThreadInv
  <1>a. running[t].kind = "event" \/ running[t].kind \in {"entrance", "exit"}
    BY <1>0 DEF WorkerOK, Executing, Job, JobKind
  <1>1. WorkerTypeOK'
    BY <1>0, <1>a DEF TypeOK, WorkerTypeOK, WorkerPc
  <1>2. ThreadInv'
    BY <1>0, <1>1, <1>a, WorkerStepped DEF TypeOK, WorkerTypeOK, WorkerOK, Executing
  <1>3. queue' \in Seq(Task)
    BY <1>0 DEF TypeOK, LoaderTypeOK
  <1> QED
    BY <1>1, <1>2, <1>3, LoaderKept DEF BaseInv, TypeOK

\* CrashJob preserves BaseInv.
LEMMA CrashJobBase ==
  ASSUME BaseInv, NEW t \in Thread, CrashJob(t)
  PROVE  BaseInv'
  <1> USE DEF CrashJob, ThrowJob, othersUnchanged
  <1>0. TypeOK /\ ThreadInv /\ WorkerOK(t)
    BY DEF BaseInv, ThreadInv
  <1>a. running[t].kind = "event" \/ running[t].kind \in {"entrance", "exit"}
    BY <1>0 DEF WorkerOK, Executing, Job, JobKind
  <1>1. WorkerTypeOK'
    BY <1>0, <1>a DEF TypeOK, WorkerTypeOK, WorkerPc
  <1>2. ThreadInv'
    BY <1>0, <1>1, <1>a, WorkerStepped DEF TypeOK, WorkerTypeOK, WorkerOK, Executing
  <1>3. queue' \in Seq(Task)
    BY <1>0 DEF TypeOK, LoaderTypeOK
  <1> QED
    BY <1>1, <1>2, <1>3, LoaderKept DEF BaseInv, TypeOK

\* ReportException preserves BaseInv.
LEMMA ReportExceptionBase ==
  ASSUME BaseInv, NEW t \in Thread, ReportException(t)
  PROVE  BaseInv'
  <1> USE DEF ReportException, Reported, othersUnchanged
  <1>0. TypeOK /\ ThreadInv /\ WorkerOK(t)
    BY DEF BaseInv, ThreadInv
  <1>a. pluginid[t] \in Plugin
    BY <1>0 DEF WorkerOK
  <1>1. WorkerTypeOK'
    BY <1>0, <1>a DEF TypeOK, WorkerTypeOK, WorkerPc
  <1>2. ThreadInv'
    BY <1>0, <1>1, <1>a, WorkerStepped DEF TypeOK, WorkerTypeOK, WorkerOK, Executing
  <1>3. queue' \in Seq(Task)
    BY <1>0, <1>a DEF TypeOK, LoaderTypeOK, Task, OneTask
  <1> QED
    BY <1>1, <1>2, <1>3, LoaderKept DEF BaseInv, TypeOK

\* AskForList preserves BaseInv.
LEMMA AskForListBase ==
  ASSUME BaseInv, NEW t \in Thread, AskForList(t)
  PROVE  BaseInv'
  <1> USE DEF AskForList, WaitForList, othersUnchanged
  <1>0. TypeOK /\ ThreadInv /\ WorkerOK(t)
    BY DEF BaseInv, ThreadInv
  <1>1. WorkerTypeOK'
    BY <1>0 DEF TypeOK, WorkerTypeOK, WorkerPc
  <1>2. ThreadInv'
    BY <1>0, <1>1, WorkerStepped DEF TypeOK, WorkerTypeOK, WorkerOK, Executing
  <1>3. queue' \in Seq(Task)
    BY <1>0 DEF TypeOK, LoaderTypeOK
  <1> QED
    BY <1>1, <1>2, <1>3, LoaderKept DEF BaseInv, TypeOK

\* ReadList preserves BaseInv.
LEMMA ReadListBase ==
  ASSUME BaseInv, NEW t \in Thread, ReadList(t)
  PROVE  BaseInv'
  <1> USE DEF ReadList, GotList, othersUnchanged
  <1>0. TypeOK /\ ThreadInv /\ WorkerOK(t)
    BY DEF BaseInv, ThreadInv
  <1>1. WorkerTypeOK'
    BY <1>0 DEF TypeOK, WorkerTypeOK, WorkerPc
  <1>2. ThreadInv'
    BY <1>0, <1>1, WorkerStepped DEF TypeOK, WorkerTypeOK, WorkerOK, Executing
  <1>3. queue' \in Seq(Task)
    BY <1>0 DEF TypeOK, LoaderTypeOK
  <1> QED
    BY <1>1, <1>2, <1>3, LoaderKept DEF BaseInv, TypeOK

\* DrainedQueue preserves BaseInv.
LEMMA DrainedQueueBase ==
  ASSUME BaseInv, NEW t \in Thread, DrainedQueue(t)
  PROVE  BaseInv'
  <1> USE DEF DrainedQueue, Drained, othersUnchanged
  <1>0. TypeOK /\ ThreadInv /\ WorkerOK(t)
    BY DEF BaseInv, ThreadInv
  <1>1. WorkerTypeOK'
    BY <1>0 DEF TypeOK, WorkerTypeOK, WorkerPc
  <1>2. ThreadInv'
    BY <1>0, <1>1, WorkerStepped DEF TypeOK, WorkerTypeOK, WorkerOK, Executing
  <1>3. queue' \in Seq(Task)
    BY <1>0 DEF TypeOK, LoaderTypeOK
  <1> QED
    BY <1>1, <1>2, <1>3, LoaderKept DEF BaseInv, TypeOK

\* ReturnFromRun preserves BaseInv.
LEMMA ReturnFromRunBase ==
  ASSUME BaseInv, NEW t \in Thread, ReturnFromRun(t)
  PROVE  BaseInv'
  <1> USE DEF ReturnFromRun, Return, othersUnchanged
  <1>0. TypeOK /\ ThreadInv /\ WorkerOK(t)
    BY DEF BaseInv, ThreadInv
  <1>1. WorkerTypeOK'
    BY <1>0 DEF TypeOK, WorkerTypeOK, WorkerPc
  <1>2. ThreadInv'
    BY <1>0, <1>1, WorkerStepped DEF TypeOK, WorkerTypeOK, WorkerOK, Executing
  <1>3. queue' \in Seq(Task)
    BY <1>0 DEF TypeOK, LoaderTypeOK
  <1> QED
    BY <1>1, <1>2, <1>3, LoaderKept DEF BaseInv, TypeOK

\* Every step preserves BaseInv.
LEMMA NextBase == BaseInv /\ [Next]_vars => BaseInv'
  <1> SUFFICES ASSUME BaseInv, [Next]_vars PROVE BaseInv'
    OBVIOUS
  <1>1. ASSUME UNCHANGED vars PROVE BaseInv'
    <2>1. WorkerTypeOK' /\ ThreadInv'
      BY <1>1, ThreadsKept DEF vars
    <2>2. queue' \in Seq(Task)
      BY <1>1 DEF vars, BaseInv, TypeOK, LoaderTypeOK
    <2> QED
      BY <1>1, <2>1, <2>2, LoaderKept DEF vars, workerVars, BaseInv, TypeOK
  <1>2. CASE LoaderStep
    BY <1>2, PopTaskBase, ShutdownLoaderBase, AcquireListBase, ReleaseListBase, VisitBase,
       EnablePluginBase, CallThreadEndBase, EndWorkerBase, JoinWorkerBase, GiveUpJoinBase,
       MarkDisabledBase, EndThreadOfCrashedBase, CloseLibraryBase, MarkUnloadedBase,
       LoadPluginBase, LoadFailsBase, OpenNewBase, ActivateNewBase, AddNewPluginBase
       DEF LoaderStep
  <1>3. ASSUME NEW t \in Thread, WorkerStep(t) PROVE BaseInv'
    BY <1>3, RunJobBase, CompleteJobBase, CrashJobBase, ReportExceptionBase, AskForListBase,
       ReadListBase, DrainedQueueBase, ReturnFromRunBase
       DEF WorkerStep
  <1>4. CASE KtStep
    BY <1>4, EventBase, LoaderExitBase, RequestBase DEF KtStep
  <1>5. CASE Terminated
    BY <1>1, <1>5 DEF Terminated
  <1> QED
    BY <1>1, <1>2, <1>3, <1>4, <1>5 DEF Next

\* Every variable keeps its type, whatever the plugins do: in particular no
\* library is closed more often than it was opened (unload_plugin, addNewPlugin).
THEOREM TypeCorrect == Spec => []TypeOK
  <1>1. BaseInv => TypeOK
    BY DEF BaseInv
  <1> QED
    BY <1>1, InitBase, NextBase, PTL DEF Spec

-----------------------------------------------------------------------------
(* The rest of the loader's walk.                                          *)

\* What the workers and the kt thread do leaves the loader where it is.
LEMMA OthersKeepLoader ==
  ASSUME \/ \E t \in Thread : WorkerStep(t)
         \/ KtStep
         \/ UNCHANGED vars
  PROVE  UNCHANGED <<listVars, libVars, loaderVars>>
  <1> USE DEF vars
  <1>1. ASSUME NEW t \in Thread, WorkerStep(t) PROVE UNCHANGED <<listVars, libVars, loaderVars>>
    BY <1>1 DEF WorkerStep, RunJob, CompleteJob, CrashJob, ReportException, AskForList,
                ReadList, DrainedQueue, ReturnFromRun, othersUnchanged
  <1>2. CASE KtStep
    BY <1>2 DEF KtStep, Event, LoaderExit, Request
  <1> QED
    BY <1>1, <1>2

-----------------------------------------------------------------------------
(* The end of shutdownLoader.                                              *)

\* StageInv holds when loaderMain starts.
LEMMA InitStage == Init => StageInv
  BY DEF Init, StageInv

\* StageInv only looks at the loader's variables.
LEMMA StageKept ==
  ASSUME StageInv, UNCHANGED <<listVars, loaderVars>>
  PROVE  StageInv'
  BY DEF StageInv, Visited, listVars, loaderVars

\* A step from one stop at an entry to the next.
LEMMA StageSameEntry ==
  ASSUME StageInv, lpc \in EntrySteps, lpc' \in EntrySteps, UNCHANGED <<listed, handle, stage, task, todo, target>>,
         lpc' \in UnloadSteps
  PROVE  StageInv'
  BY DEF StageInv, Visited, EntrySteps, Locked

\* StageInv is inductive: unloadAll visits every entry of the list, and
\* leaves each behind without a library.
LEMMA StageStep ==
  ASSUME BaseInv, StageInv, [Next]_vars
  PROVE  StageInv'
  <1> USE DEF loaderVars, listVars, libVars, envVars
  <1>1. CASE PopTask \/ ShutdownLoader
    BY <1>1 DEF PopTask, ShutdownLoader, StageInv
  <1>2. CASE AcquireList
    <2>1. task.kind = "UNLOAD_ALL" => Visited' = {}
      BY <1>2 DEF AcquireList, Visited, AllTask
    <2> QED
      BY <1>2, <2>1 DEF AcquireList, StageInv, UnloadSteps
  <1>3. ASSUME NEW p \in Plugin, Visit(p) PROVE StageInv'
    <2> SUFFICES ASSUME stage = "unloading"
                 PROVE  lpc' \in UnloadSteps /\ \A q \in Visited' : handle[q] = NoLib
      BY <1>3 DEF Visit, StageInv
    <2>1. task.kind = "UNLOAD_ALL" /\ \A q \in Visited : handle[q] = NoLib
      BY <1>3 DEF Visit, StageInv
    <2>2. FirstStep(p) = IF handle[p] # NoLib
                         THEN IF enabled[p] THEN "callThreadEnd" ELSE "close"
                         ELSE "next"
      BY <2>1 DEF FirstStep
    <2>3. CASE handle[p] = NoLib
      <3>1. lpc' = "next" /\ Visited' \subseteq Visited \cup {p}
        BY <1>3, <2>2, <2>3 DEF Visit, Visited, EntrySteps, Locked
      <3> QED
        BY <2>1, <2>3, <3>1 DEF UnloadSteps
    <2>4. CASE handle[p] # NoLib
      <3>1. lpc' \in {"callThreadEnd", "close"} /\ Visited' \subseteq Visited
        BY <1>3, <2>2, <2>4 DEF Visit, Visited, EntrySteps, Locked
      <3> QED
        BY <2>1, <3>1 DEF UnloadSteps
    <2> QED
      BY <2>3, <2>4
  <1>4. CASE ReleaseList
    <2>1. CASE stage = "disabling"
      BY <1>4, <2>1 DEF ReleaseList, StageInv, ToAll, UnloadSteps
    <2>2. CASE stage = "unloading"
      <3>1. \A p \in listed : handle[p] = NoLib
        BY <1>4, <2>2 DEF ReleaseList, StageInv, Visited, EntrySteps, Locked
      <3> QED
        BY <1>4, <2>2, <3>1 DEF ReleaseList, StageInv
    <2>3. CASE stage \notin {"disabling", "unloading"}
      BY <1>4, <2>3 DEF ReleaseList, StageInv, UnloadSteps
    <2> QED
      BY <2>1, <2>2, <2>3
  <1>5. CASE EnablePlugin \/ EndThreadOfCrashed \/ LoadPlugin \/ LoadFails
             \/ OpenNew \/ ActivateNew \/ AddNewPlugin
    <2>1. lpc \in {"enable", "endThread", "load", "open", "activate", "insert"} /\ stage' = stage
      BY <1>5 DEF EnablePlugin, EndThreadOfCrashed, LoadPlugin, LoadFails,
                  OpenNew, ActivateNew, AddNewPlugin
    <2> QED
      BY <2>1 DEF StageInv, UnloadSteps
  <1>6. CASE CallThreadEnd \/ EndWorker \/ JoinWorker \/ GiveUpJoin \/ CloseLibrary
    <2>1. /\ lpc \in EntrySteps /\ lpc' \in EntrySteps /\ lpc' \in UnloadSteps
          /\ UNCHANGED <<listed, handle, stage, task, todo, target>>
      BY <1>6 DEF CallThreadEnd, EndWorker, JoinWorker, GiveUpJoin, CloseLibrary,
                  EntrySteps, Locked, UnloadSteps
    <2> QED
      BY <2>1, StageSameEntry
  <1>7. CASE MarkDisabled
    <2>1. CASE task.kind \in {"END_THREAD", "DISABLE_ALL"}
      BY <1>7, <2>1 DEF MarkDisabled, StageInv
    <2>2. CASE task.kind \notin {"END_THREAD", "DISABLE_ALL"}
      <3>1. /\ lpc \in EntrySteps /\ lpc' \in EntrySteps /\ lpc' \in UnloadSteps
            /\ UNCHANGED <<listed, handle, stage, task, todo, target>>
        BY <1>7, <2>2 DEF MarkDisabled, EntrySteps, Locked, UnloadSteps
      <3> QED
        BY <3>1, StageSameEntry
    <2> QED
      BY <2>1, <2>2
  <1>8. CASE MarkUnloaded
    <2> SUFFICES ASSUME stage = "unloading"
                 PROVE  /\ task'.kind = "UNLOAD_ALL" /\ lpc' \in UnloadSteps
                        /\ \A q \in Visited' : handle'[q] = NoLib
      BY <1>8 DEF MarkUnloaded, StageInv
    <2>1. /\ task.kind = "UNLOAD_ALL" /\ \A q \in Visited : handle[q] = NoLib
          /\ handle \in [Plugin -> Nat] /\ listed \subseteq Plugin
      BY <1>8 DEF MarkUnloaded, StageInv, BaseInv, TypeOK, LoaderTypeOK
    <2>2. lpc' = "next" /\ Visited' \subseteq Visited \cup {target} /\ Visited' \subseteq listed
      BY <1>8, <2>1 DEF MarkUnloaded, Visited, EntrySteps, Locked
    <2>3. handle' = [handle EXCEPT ![target] = NoLib] /\ task' = task
      BY <1>8 DEF MarkUnloaded
    <2> QED
      BY <2>1, <2>2, <2>3 DEF UnloadSteps
  <1>9. CASE (\E t \in Thread : WorkerStep(t)) \/ KtStep \/ UNCHANGED vars
    BY <1>9, OthersKeepLoader, StageKept
  <1> QED
    BY <1>1, <1>2, <1>3, <1>4, <1>5, <1>6, <1>7, <1>8, <1>9 DEF Next, LoaderStep, Terminated

-----------------------------------------------------------------------------
(* Who owns the libraries.                                                 *)

\* The libraries registerAllPlugin opened are open once.
LEMMA InitRefs == Init => RefsAreExact
  <1> SUFFICES ASSUME Init, NEW p \in Plugin
               PROVE  refs[p] = (IF Holds(p) THEN 1 ELSE 0) + (IF HoldsNew(p) THEN 1 ELSE 0)
    BY DEF RefsAreExact
  <1>1. handle[p] = (IF p \in Registered THEN 1 ELSE 0) /\ refs[p] = handle[p]
    BY DEF Init
  <1>2. ~HoldsNew(p) /\ (Holds(p) <=> p \in Registered)
    BY <1>1 DEF Init, Holds, HoldsNew
  <1> QED
    BY <1>1, <1>2

\* A step that opens and closes nothing and keeps the configs.
LEMMA RefsKept ==
  ASSUME RefsAreExact, UNCHANGED refs,
         \A p \in Plugin : (Holds(p)' <=> Holds(p)) /\ (HoldsNew(p)' <=> HoldsNew(p))
  PROVE  RefsAreExact'
  BY DEF RefsAreExact

\* RefsAreExact is inductive when every file that opens is a plugin.
LEMMA RefsStep ==
  ASSUME BaseInv, RefsAreExact, "badSymbols" \notin Mishaps, [Next]_vars
  PROVE  RefsAreExact'
  <1> USE DEF loaderVars, listVars, libVars, envVars, Holds, HoldsNew
  <1>0. LoaderTypeOK /\ TargetInv /\ LibraryInv
    BY DEF BaseInv, TypeOK
  <1>1. CASE PopTask \/ ShutdownLoader \/ AcquireList \/ ReleaseList
    BY <1>1, RefsKept DEF PopTask, ShutdownLoader, AcquireList, ReleaseList
  <1>2. ASSUME NEW p \in Plugin, Visit(p) PROVE RefsAreExact'
    <2>1. lpc' \notin {"unload", "activate", "insert"}
      BY <1>2, FirstStepFacts DEF Visit
    <2> QED
      BY <1>2, <2>1, RefsKept DEF Visit
  <1>3. CASE EnablePlugin \/ CallThreadEnd \/ EndWorker \/ JoinWorker \/ GiveUpJoin
             \/ MarkDisabled \/ EndThreadOfCrashed \/ LoadFails \/ ActivateNew
    BY <1>3, RefsKept DEF EnablePlugin, CallThreadEnd, EndWorker, JoinWorker, GiveUpJoin,
                          MarkDisabled, EndThreadOfCrashed, LoadFails, ActivateNew
  <1>4. CASE CloseLibrary
    <2>1. /\ target \in Plugin /\ handle[target] # NoLib /\ refs[target] >= 1
          /\ refs' = [refs EXCEPT ![target] = @ - 1]
          /\ lpc = "close" /\ lpc' = "unload" /\ UNCHANGED <<handle, target>>
      BY <1>0, <1>4 DEF CloseLibrary, libClose, TargetInv, LibraryInv, LibraryOK, EntrySteps, Locked, LoaderTypeOK
    <2> QED
      BY <1>0, <2>1 DEF RefsAreExact, LoaderTypeOK
  <1>5. CASE MarkUnloaded
    <2>1. /\ target \in Plugin /\ handle' = [handle EXCEPT ![target] = NoLib]
          /\ lpc = "unload" /\ lpc' \in {"load", "next"} /\ UNCHANGED <<refs, target>>
      BY <1>0, <1>5 DEF MarkUnloaded, TargetInv, EntrySteps, Locked, LoaderTypeOK
    <2> QED
      BY <1>0, <2>1, RefsKept DEF LoaderTypeOK
  <1>6. CASE LoadPlugin
    <2>1. /\ target \in Plugin /\ handle[target] = NoLib
          /\ lpc = "load" /\ lpc' = "enable" /\ UNCHANGED target
          /\ handle' = [handle EXCEPT ![target] = image'[target]]
      BY <1>0, <1>6 DEF LoadPlugin, TargetInv, EntrySteps, Locked, LoaderTypeOK
    <2>2. /\ image'[target] # NoLib /\ refs'[target] = refs[target] + 1
          /\ \A q \in Plugin : q # target => refs'[q] = refs[q]
      BY <1>0, <1>6, <2>1, LibraryOpened DEF LoadPlugin
    <2> QED
      BY <1>0, <2>1, <2>2 DEF RefsAreExact, LoaderTypeOK
  <1>7. CASE OpenNew
    <2>1. /\ target \in Plugin /\ lpc = "open" /\ lpc' \in {"activate", "insert"}
          /\ UNCHANGED <<target, handle>>
      BY <1>0, <1>7 DEF OpenNew, TargetInv, NewSteps
    <2>2. /\ refs'[target] = refs[target] + 1
          /\ \A q \in Plugin : q # target => refs'[q] = refs[q]
      BY <1>0, <1>7, <2>1, LibraryOpened DEF OpenNew
    <2> QED
      BY <1>0, <2>1, <2>2 DEF RefsAreExact, LoaderTypeOK
  <1>8. CASE AddNewPlugin
    <2>1. /\ target \in Plugin /\ lpc = "insert" /\ lpc' = "idle" /\ local # NoLib
          /\ HoldsNew(target) /\ LibraryOK(target)
      BY <1>0, <1>8 DEF AddNewPlugin, TargetInv, NewSteps, LibraryInv
    <2>2. CASE target \notin listed /\ handle' = [handle EXCEPT ![target] = local] /\ UNCHANGED refs
      <3>1. handle[target] = NoLib
        BY <2>1, <2>2 DEF LibraryOK
      <3> QED
        BY <1>0, <2>1, <2>2, <3>1 DEF RefsAreExact, LoaderTypeOK
    <2>3. CASE libClose(target) /\ UNCHANGED handle
      <3>1. refs' = [refs EXCEPT ![target] = @ - 1]
        BY <2>3 DEF libClose
      <3> QED
        BY <1>0, <2>1, <2>3, <3>1 DEF RefsAreExact, LoaderTypeOK
    <2> QED
      BY <1>8, <2>2, <2>3 DEF AddNewPlugin
  <1>9. CASE (\E t \in Thread : WorkerStep(t)) \/ KtStep \/ UNCHANGED vars
    BY <1>9, OthersKeepLoader, RefsKept
  <1> QED
    BY <1>1, <1>2, <1>3, <1>4, <1>5, <1>6, <1>7, <1>8, <1>9 DEF Next, LoaderStep, Terminated

\* Whatever else plugins do wrong, a crash or a second LoadPlugin of a listed
\* plugin included: between two tasks each mapped library is open once, for
\* the one entry of the list that holds its handle.
THEOREM LibrariesStayOwned ==
  ASSUME "badSymbols" \notin Mishaps
  PROVE  Spec => []LibrariesOwned
  <1>1. BaseInv /\ RefsAreExact => LibrariesOwned
    <2> SUFFICES ASSUME BaseInv, RefsAreExact, lpc \in {"idle", "lock"}, NEW p \in Plugin
                 PROVE  image[p] = handle[p] /\ refs[p] = IF handle[p] = NoLib THEN 0 ELSE 1
      BY DEF LibrariesOwned
    <2>1. LibraryOK(p) /\ ~HoldsNew(p) /\ (Holds(p) <=> handle[p] # NoLib)
      BY DEF BaseInv, LibraryInv, Holds, HoldsNew
    <2>2. refs[p] = IF handle[p] = NoLib THEN 0 ELSE 1
      BY <2>1 DEF RefsAreExact
    <2> QED
      BY <2>1, <2>2 DEF LibraryOK
  <1> QED
    BY <1>1, InitBase, NextBase, InitRefs, RefsStep, PTL DEF Spec

-----------------------------------------------------------------------------
(* What is queued, and what is listed.                                     *)

\* push: the new task is the last one.
LEMMA TaskAppended ==
  ASSUME NEW q \in Seq(Task), NEW c \in Task
  PROVE  \A i \in DOMAIN Append(q, c) :
           \/ i \in DOMAIN q /\ Append(q, c)[i] = q[i]
           \/ i = Len(q) + 1 /\ i \notin DOMAIN q /\ Append(q, c)[i] = c
  <1>1. /\ DOMAIN q = 1..Len(q) /\ Len(q) \in Nat
        /\ DOMAIN Append(q, c) = 1..(Len(q) + 1)
    OBVIOUS
  <1>2. ASSUME NEW i \in DOMAIN Append(q, c)
        PROVE  \/ i \in DOMAIN q /\ Append(q, c)[i] = q[i]
               \/ i = Len(q) + 1 /\ i \notin DOMAIN q /\ Append(q, c)[i] = c
    <2>1. CASE i = Len(q) + 1
      BY <1>1, <2>1
    <2>2. CASE i # Len(q) + 1
      <3>1. i \in 1..Len(q)
        BY ONLY <1>1, <1>2, <2>2
      <3>2. Append(q, c)[i] = q[i]
        BY <3>1
      <3> QED
        BY <1>1, <3>1, <3>2
    <2> QED
      BY <2>1, <2>2
  <1> QED
    BY <1>2

\* pop: the others move up by one.
LEMMA TaskPopped ==
  ASSUME NEW q \in Seq(Task), q # <<>>
  PROVE  /\ 1 \in DOMAIN q /\ Head(q) = q[1]
         /\ \A i \in DOMAIN Tail(q) : /\ i \in Nat /\ i + 1 \in DOMAIN q /\ i + 1 # 1
                                      /\ Tail(q)[i] = q[i + 1]
  OBVIOUS

\* Whatever is pushed by the workers asks for no new plugin.
LEMMA ReportedTask ==
  ASSUME BaseInv, NEW t \in Thread, ReportException(t)
  PROVE  \E c \in Task : c.kind = "EXCEPTION_PLUGINEND" /\ queue' = Append(queue, c)
  <1>1. pluginid[t] \in Plugin
    BY DEF ReportException, Reported, BaseInv, ThreadInv, WorkerOK
  <1> DEFINE c == [kind |-> "EXCEPTION_PLUGINEND", id |-> pluginid[t]]
  <1>2. c \in Task /\ c.kind = "EXCEPTION_PLUGINEND"
    BY <1>1 DEF Task, OneTask
  <1> QED
    BY <1>2 DEF ReportException

\* The only other steps that push anything are the requests.
LEMMA OthersPushNothing ==
  ASSUME NEW t \in Thread, WorkerStep(t), ~ReportException(t)
  PROVE  queue' = queue
  BY DEF WorkerStep, RunJob, CompleteJob, CrashJob, AskForList,
         ReadList, DrainedQueue, ReturnFromRun, othersUnchanged

\* LoadsAreNew holds when loaderMain starts.
LEMMA InitLoads == Init => LoadsAreNew
  BY DEF Init, LoadsAreNew, NewSteps

\* LoadsAreNew only looks at the queue, the list and the new plugin.
LEMMA LoadsKept ==
  ASSUME LoadsAreNew, UNCHANGED <<queue, listed>>,
         lpc' \in NewSteps => lpc \in NewSteps /\ target' = target
  PROVE  LoadsAreNew'
  BY DEF LoadsAreNew

\* A task at the end of the queue that loads a plugin nobody else loads.
LEMMA LoadsAppended ==
  ASSUME BaseInv, LoadsAreNew, UNCHANGED <<listed, lpc, target>>,
         NEW c \in Task, queue' = Append(queue, c),
         c.kind \in LoadNew => ~LoadPending(c.id)
  PROVE  LoadsAreNew'
  <1>1. queue \in Seq(Task)
    BY DEF BaseInv, TypeOK, LoaderTypeOK
  <1>2. \A i \in DOMAIN queue' : \/ i \in DOMAIN queue /\ queue'[i] = queue[i]
                                 \/ i = Len(queue) + 1 /\ i \notin DOMAIN queue /\ queue'[i] = c
    BY <1>1, TaskAppended
  <1>3. c.kind \in LoadNew => /\ c.id \notin listed
                              /\ lpc \in NewSteps => target # c.id
                              /\ \A i \in DOMAIN queue : ~(queue[i].kind \in LoadNew /\ queue[i].id = c.id)
    BY DEF LoadPending, NewSteps
  <1> QED
    BY <1>2, <1>3 DEF LoadsAreNew

\* LoadsAreNew is inductive when nobody loads a listed plugin again.
LEMMA LoadsStep ==
  ASSUME BaseInv, LoadsAreNew, "duplicate" \notin Mishaps, [Next]_vars
  PROVE  LoadsAreNew'
  <1> USE DEF loaderVars, listVars, libVars, envVars
  <1>1. CASE PopTask
    <2>1. queue \in Seq(Task) /\ queue # <<>> /\ queue' = Tail(queue) /\ listed' = listed
      BY <1>1 DEF PopTask, BaseInv, TypeOK, LoaderTypeOK
    <2>2. /\ 1 \in DOMAIN queue /\ task' = queue[1] /\ target' = task'.id
          /\ \A i \in DOMAIN queue' : /\ i \in Nat /\ i + 1 \in DOMAIN queue /\ i + 1 # 1
                                      /\ queue'[i] = queue[i + 1]
      BY <1>1, <2>1, TaskPopped DEF PopTask
    <2>3. lpc' \in NewSteps => task'.kind \in LoadNew
      BY <1>1 DEF PopTask, NewSteps
    <2>4. lpc' \in NewSteps => target' \notin listed
      BY <2>2, <2>3 DEF LoadsAreNew
    <2>5. ASSUME NEW i \in DOMAIN queue', queue'[i].kind \in LoadNew
          PROVE  /\ queue'[i].id \notin listed
                 /\ lpc' \in NewSteps => target' # queue'[i].id
                 /\ \A j \in DOMAIN queue' : queue'[j].kind \in LoadNew /\ queue'[j].id = queue'[i].id => i = j
      <3>1. i + 1 \in DOMAIN queue /\ queue'[i] = queue[i + 1] /\ i + 1 # 1 /\ i \in Nat
        BY <2>2
      <3>2. queue'[i].id \notin listed
        BY <2>5, <3>1 DEF LoadsAreNew
      <3>3. lpc' \in NewSteps => target' # queue'[i].id
        BY <2>2, <2>3, <2>5, <3>1 DEF LoadsAreNew
      <3>4. ASSUME NEW j \in DOMAIN queue', queue'[j].kind \in LoadNew, queue'[j].id = queue'[i].id
            PROVE  i = j
        <4>1. j + 1 \in DOMAIN queue /\ queue'[j] = queue[j + 1] /\ j \in Nat
          BY <2>2
        <4>2. i + 1 = j + 1
          BY <2>5, <3>1, <3>4, <4>1 DEF LoadsAreNew
        <4> QED
          BY <3>1, <4>1, <4>2
      <3> QED
        BY <3>2, <3>3, <3>4
    <2> QED
      BY <2>1, <2>4, <2>5 DEF LoadsAreNew
  <1>2. CASE ShutdownLoader \/ AcquireList \/ ReleaseList \/ EnablePlugin \/ CallThreadEnd
             \/ EndWorker \/ JoinWorker \/ GiveUpJoin \/ MarkDisabled
             \/ EndThreadOfCrashed \/ CloseLibrary \/ MarkUnloaded
             \/ LoadPlugin \/ LoadFails \/ OpenNew \/ ActivateNew
    <2>1. UNCHANGED <<queue, listed>> /\ (lpc' \in NewSteps => lpc \in NewSteps /\ target' = target)
      BY <1>2 DEF ShutdownLoader, AcquireList, ReleaseList, EnablePlugin, CallThreadEnd,
                  EndWorker, JoinWorker, GiveUpJoin, MarkDisabled, EndThreadOfCrashed,
                  CloseLibrary, MarkUnloaded, LoadPlugin, LoadFails, OpenNew, ActivateNew, NewSteps
    <2> QED
      BY <2>1, LoadsKept
  <1>3. ASSUME NEW p \in Plugin, Visit(p) PROVE LoadsAreNew'
    <2>1. lpc' \notin NewSteps
      BY <1>3, FirstStepFacts DEF Visit, NewSteps
    <2> QED
      BY <1>3, <2>1, LoadsKept DEF Visit
  <1>4. CASE AddNewPlugin
    <2>1. lpc \in NewSteps /\ lpc' \notin NewSteps /\ queue' = queue /\ listed' \subseteq listed \cup {target}
      BY <1>4 DEF AddNewPlugin, NewSteps
    <2> QED
      BY <2>1 DEF LoadsAreNew
  <1>5. ASSUME NEW t \in Thread, WorkerStep(t) PROVE LoadsAreNew'
    <2>0. UNCHANGED <<listed, lpc, target>>
      BY <1>5, OthersKeepLoader
    <2>1. CASE ReportException(t)
      <3>1. PICK c \in Task : c.kind = "EXCEPTION_PLUGINEND" /\ queue' = Append(queue, c)
        BY <2>1, ReportedTask
      <3> QED
        BY <2>0, <3>1, LoadsAppended DEF LoadNew
    <2>2. CASE ~ReportException(t)
      BY <1>5, <2>0, <2>2, OthersPushNothing, LoadsKept
    <2> QED
      BY <2>1, <2>2
  <1>6. CASE KtStep
    <2>0. UNCHANGED <<listed, lpc, target>>
      BY <1>6, OthersKeepLoader
    <2>1. CASE Event \/ LoaderExit
      BY <2>0, <2>1, LoadsKept DEF Event, LoaderExit
    <2>2. ASSUME NEW c \in Commands, Request(c) PROVE LoadsAreNew'
      BY <2>0, <2>2, LoadsAppended, LoaderAssumption DEF Request
    <2> QED
      BY <1>6, <2>1, <2>2 DEF KtStep
  <1>7. CASE UNCHANGED vars
    BY <1>7, LoadsKept DEF vars
  <1> QED
    BY <1>1, <1>2, <1>3, <1>4, <1>5, <1>6, <1>7 DEF Next, LoaderStep, Terminated

\* NoExceptionTask holds when loaderMain starts.
LEMMA InitNoException == Init => NoExceptionTask
  BY DEF Init, WorkerInit, NoExceptionTask, ToAll

\* A worker comes to its catch clause only by a job that throws.
LEMMA NothingThrown ==
  ASSUME BaseInv, \A t \in Thread : pc[t] # "throwing", "throw" \notin Mishaps, [Next]_vars
  PROVE  \A t \in Thread : pc'[t] # "throwing"
  <1>0. WorkerTypeOK
    BY DEF BaseInv, TypeOK
  <1>1. CASE pc' = pc
    BY <1>1
  <1>2. ASSUME NEW p \in Plugin \cup {NoPlugin}, NEW job, AddThread(p, job)
        PROVE  \A t \in Thread : pc'[t] # "throwing"
    BY <1>0, <1>2 DEF AddThread, workerVars, WorkerTypeOK
  <1>3. target \in Plugin \cup {NoPlugin}
    BY DEF BaseInv, TypeOK, LoaderTypeOK
  <1>4. CASE EnablePlugin \/ ActivateNew
    BY <1>1, <1>2, <1>3, <1>4 DEF EnablePlugin, ActivateNew, workerVars
  <1>5. CASE LoaderStep /\ ~EnablePlugin /\ ~ActivateNew
    BY <1>1, <1>5 DEF LoaderStep, workerVars, PopTask, ShutdownLoader, AcquireList, ReleaseList,
       Visit, CallThreadEnd, EndWorker, End, JoinWorker, GiveUpJoin, JoinAndErase, MarkDisabled,
       EndThreadOfCrashed, EndThread, CloseLibrary, MarkUnloaded, LoadPlugin, LoadFails, OpenNew,
       AddNewPlugin
  <1>6. ASSUME NEW t \in Thread, WorkerStep(t) PROVE \A u \in Thread : pc'[u] # "throwing"
    BY <1>0, <1>6 DEF WorkerTypeOK, WorkerStep, RunJob, StartJob, CompleteJob, FinishJob,
       CrashJob, ReportException, Reported, AskForList, WaitForList, ReadList, GotList,
       DrainedQueue, Drained, ReturnFromRun, Return
  <1>7. CASE KtStep \/ Terminated \/ UNCHANGED vars
    BY <1>1, <1>7 DEF KtStep, Event, SubmitJob, LoaderExit, Request, Terminated, vars, workerVars
  <1> QED
    BY <1>4, <1>5, <1>6, <1>7 DEF Next

\* Whoever closes a library has marked its plugin disabled: only
\* unload_when_exception does not.
LEMMA ClosingStep ==
  ASSUME BaseInv, NoExceptionTask, [Next]_vars
  PROVE  lpc' \in {"close", "unload"} => ~enabled'[target']
  <1> USE DEF loaderVars, listVars, libVars, envVars
  <1>0. lpc \in {"close", "unload"} => ~enabled[target]
    BY DEF NoExceptionTask
  <1>1. CASE PopTask \/ ShutdownLoader \/ AcquireList \/ ReleaseList \/ EnablePlugin
             \/ CallThreadEnd \/ EndWorker \/ JoinWorker \/ GiveUpJoin
             \/ EndThreadOfCrashed \/ MarkUnloaded
             \/ LoadPlugin \/ LoadFails \/ OpenNew \/ ActivateNew \/ AddNewPlugin
    <2>1. lpc' \notin {"close", "unload"}
      BY <1>1 DEF PopTask, ShutdownLoader, AcquireList, ReleaseList, EnablePlugin, CallThreadEnd,
                  EndWorker, JoinWorker, GiveUpJoin, EndThreadOfCrashed, NoExceptionTask,
                  MarkUnloaded, LoadPlugin, LoadFails, OpenNew, ActivateNew, AddNewPlugin
    <2> QED
      BY <2>1
  <1>2. ASSUME NEW p \in Plugin, Visit(p) PROVE lpc' \in {"close", "unload"} => ~enabled'[target']
    BY <1>2, FirstStepFacts DEF Visit
  <1>3. CASE MarkDisabled
    <2>1. target \in Plugin /\ enabled \in [Plugin -> BOOLEAN]
      BY <1>3 DEF MarkDisabled, BaseInv, TypeOK, LoaderTypeOK, TargetInv, EntrySteps, Locked
    <2>2. enabled' = [enabled EXCEPT ![target] = FALSE] /\ target' = target
      BY <1>3 DEF MarkDisabled
    <2> QED
      BY <2>1, <2>2
  <1>4. CASE CloseLibrary
    BY <1>0, <1>4 DEF CloseLibrary
  <1>5. ASSUME UNCHANGED <<lpc, target, enabled>>
        PROVE  lpc' \in {"close", "unload"} => ~enabled'[target']
    BY <1>0, <1>5
  <1>6. CASE KtStep \/ \E t \in Thread : WorkerStep(t)
    BY <1>5, <1>6, OthersKeepLoader
  <1>7. CASE UNCHANGED vars
    BY <1>5, <1>7 DEF vars
  <1> QED
    BY <1>1, <1>2, <1>3, <1>4, <1>6, <1>7 DEF Next, LoaderStep, Terminated

\* NoExceptionTask is inductive when no job throws.
LEMMA NoExceptionStep ==
  ASSUME BaseInv, NoExceptionTask, "throw" \notin Mishaps, [Next]_vars
  PROVE  NoExceptionTask'
  <1> USE DEF loaderVars, listVars, libVars, envVars
  <1>0. /\ \A t \in Thread : pc'[t] # "throwing"
        /\ lpc' \in {"close", "unload"} => ~enabled'[target']
    BY NothingThrown, ClosingStep DEF NoExceptionTask
  <1>1. CASE PopTask
    <2>1. queue \in Seq(Task) /\ queue # <<>> /\ queue' = Tail(queue)
      BY <1>1 DEF PopTask, BaseInv, TypeOK, LoaderTypeOK
    <2>2. /\ 1 \in DOMAIN queue /\ task' = queue[1] /\ lpc' # "endThread"
          /\ \A i \in DOMAIN queue' : i + 1 \in DOMAIN queue /\ queue'[i] = queue[i + 1]
      BY <1>1, <2>1, TaskPopped DEF PopTask
    <2> QED
      BY <1>0, <2>2 DEF NoExceptionTask
  <1>2. CASE ShutdownLoader \/ AcquireList \/ ReleaseList \/ EnablePlugin \/ CallThreadEnd
             \/ EndWorker \/ JoinWorker \/ GiveUpJoin \/ MarkDisabled
             \/ EndThreadOfCrashed \/ CloseLibrary \/ MarkUnloaded
             \/ LoadPlugin \/ LoadFails \/ OpenNew \/ ActivateNew \/ AddNewPlugin
    <2>1. queue' = queue /\ lpc' # "endThread" /\ (task' = task \/ task'.kind # "EXCEPTION_PLUGINEND")
      BY <1>2 DEF ShutdownLoader, AcquireList, ReleaseList, EnablePlugin, CallThreadEnd,
                  EndWorker, JoinWorker, GiveUpJoin, MarkDisabled, EndThreadOfCrashed,
                  CloseLibrary, MarkUnloaded, LoadPlugin, LoadFails, OpenNew, ActivateNew,
                  AddNewPlugin, NoTask, ToAll
    <2> QED
      BY <1>0, <2>1 DEF NoExceptionTask
  <1>3. ASSUME NEW p \in Plugin, Visit(p) PROVE NoExceptionTask'
    BY <1>0, <1>3, FirstStepFacts DEF Visit, NoExceptionTask
  <1>4. ASSUME NEW t \in Thread, WorkerStep(t) PROVE NoExceptionTask'
    <2>1. ~ReportException(t)
      BY DEF NoExceptionTask, ReportException, Reported
    <2>2. UNCHANGED <<lpc, task, queue>>
      BY <1>4, <2>1, OthersKeepLoader, OthersPushNothing
    <2> QED
      BY <1>0, <2>2 DEF NoExceptionTask
  <1>5. CASE KtStep
    <2>0. UNCHANGED <<lpc, task>>
      BY <1>5, OthersKeepLoader
    <2>1. CASE Event \/ LoaderExit
      BY <1>0, <2>0, <2>1 DEF Event, LoaderExit, NoExceptionTask
    <2>2. ASSUME NEW c \in Commands, Request(c) PROVE NoExceptionTask'
      <3>1. queue' = Append(queue, c) /\ queue \in Seq(Task) /\ c \in Task
            /\ c.kind # "EXCEPTION_PLUGINEND"
        BY <2>2, LoaderAssumption DEF Request, BaseInv, TypeOK, LoaderTypeOK
      <3>2. \A i \in DOMAIN queue' : \/ i \in DOMAIN queue /\ queue'[i] = queue[i]
                                     \/ queue'[i] = c
        BY <3>1, TaskAppended
      <3> QED
        BY <1>0, <2>0, <3>1, <3>2 DEF NoExceptionTask
    <2> QED
      BY <1>5, <2>1, <2>2 DEF KtStep
  <1>6. CASE UNCHANGED vars
    BY <1>0, <1>6 DEF vars, NoExceptionTask
  <1> QED
    BY <1>1, <1>2, <1>3, <1>4, <1>5, <1>6 DEF Next, LoaderStep, Terminated

-----------------------------------------------------------------------------
(* Which plugins have a thread.                                            *)

\* SlotInv holds when loaderMain starts.
LEMMA InitSlot == Init => SlotInv
  BY DEF Init, WorkerInit, SlotInv

\* A step that binds, erases, enables and disables nothing.
LEMMA SlotKept ==
  ASSUME SlotInv, UNCHANGED <<thread_memory, enabled>>,
         \/ lpc \notin Halfway
         \/ lpc' \in Halfway /\ UNCHANGED <<target, task>>,
         lpc' \in {"disable", "close", "unload"} => thread_memory[target'] = NoThread,
         lpc' = "insert" /\ lpc # "insert" =>
            (thread_memory[target'] # NoThread <=> task'.kind = "LOAD_NEW_ACTIVATENOW")
  PROVE  SlotInv'
  BY DEF SlotInv, Halfway

\* addThread for the current entry, which has no thread.
LEMMA SlotBound ==
  ASSUME BaseInv, NEW job \in Job, NEW p \in Plugin, thread_memory[p] = NoThread, AddThread(p, job)
  PROVE  thread_memory'[p] # NoThread /\ \A q \in Plugin : q # p => thread_memory'[q] = thread_memory[q]
  <1>1. thread_memory \in [Plugin -> Thread \cup {NoThread}]
    BY DEF BaseInv, TypeOK, WorkerTypeOK
  <1>2. PICK t \in Thread : thread_memory' = [thread_memory EXCEPT ![p] = t]
    BY DEF AddThread
  <1> QED
    BY <1>1, <1>2 DEF Thread

\* SlotInv is inductive when nobody loads a listed plugin again.
LEMMA SlotStep ==
  ASSUME BaseInv, LoadsAreNew, SlotInv, [Next]_vars
  PROVE  SlotInv'
  <1> USE DEF loaderVars, listVars, libVars, envVars
  <1>0. /\ LoaderTypeOK /\ WorkerTypeOK /\ TargetInv /\ LibraryInv
        /\ thread_memory \in [Plugin -> Thread \cup {NoThread}] /\ enabled \in [Plugin -> BOOLEAN]
    BY DEF BaseInv, TypeOK, LoaderTypeOK, WorkerTypeOK
  <1>a. ASSUME NEW p \in Plugin, p \notin listed PROVE ~enabled[p]
    BY <1>0, <1>a DEF LibraryInv, LibraryOK
  <1>1. CASE PopTask \/ ShutdownLoader \/ AcquireList \/ ReleaseList
    <2>1. /\ UNCHANGED <<thread_memory, enabled>> /\ lpc \notin Halfway
          /\ lpc' \notin {"disable", "close", "unload", "insert"}
      BY <1>1 DEF PopTask, ShutdownLoader, AcquireList, ReleaseList, workerVars, Halfway
    <2> QED
      BY <2>1, SlotKept
  <1>2. ASSUME NEW p \in Plugin, Visit(p) PROVE SlotInv'
    <2>1. /\ lpc' \notin {"disable", "unload", "insert"} /\ target' = p /\ lpc = "next"
          /\ lpc' = "close" => ~enabled[p]
      BY <1>2, FirstStepFacts DEF Visit
    <2>2. lpc' = "close" => thread_memory[p] = NoThread
      BY <2>1 DEF SlotInv, Halfway
    <2> QED
      BY <1>2, <2>1, <2>2, SlotKept DEF Visit, Halfway, workerVars
  <1>3. CASE EnablePlugin
    <2>1. target \in Plugin /\ lpc = "enable" /\ lpc' = "next"
      BY <1>0, <1>3 DEF EnablePlugin, TargetInv, EntrySteps, Locked, LoaderTypeOK
    <2>2. CASE UNCHANGED <<workerVars, enabled>>
      BY <2>1, <2>2, SlotKept DEF workerVars, Halfway
    <2>3. CASE /\ ~enabled[target] /\ enabled' = [enabled EXCEPT ![target] = TRUE]
               /\ AddThread(target, EntranceJob(handle[target]))
      <3>1. thread_memory[target] = NoThread
        BY <2>1, <2>3 DEF SlotInv, Halfway
      <3>2. EntranceJob(handle[target]) \in Job
        BY <1>0, <2>1 DEF EntranceJob, Job, JobKind, LoaderTypeOK
      <3>3. /\ thread_memory'[target] # NoThread
            /\ \A q \in Plugin : q # target => thread_memory'[q] = thread_memory[q]
        BY <2>1, <2>3, <3>1, <3>2, SlotBound
      <3>4. enabled'[target] /\ \A q \in Plugin : q # target => (enabled'[q] <=> enabled[q])
        BY <1>0, <2>1, <2>3
      <3> QED
        BY <2>1, <3>3, <3>4 DEF SlotInv, Halfway
    <2> QED
      BY <1>3, <2>2, <2>3 DEF EnablePlugin
  <1>4. CASE CallThreadEnd \/ EndWorker
    <2>1. /\ UNCHANGED <<thread_memory, enabled>> /\ lpc \notin Halfway
          /\ lpc' \in {"disable", "end", "join"} /\ target' = target
          /\ lpc' = "disable" => thread_memory[target] = NoThread
      BY <1>4 DEF CallThreadEnd, EndWorker, End, workerVars, Halfway
    <2> QED
      BY <2>1, SlotKept
  <1>5. CASE JoinWorker \/ GiveUpJoin
    <2>1. /\ target \in Plugin /\ lpc' = "disable" /\ lpc = "join" /\ UNCHANGED <<enabled, target>>
          /\ thread_memory' = [thread_memory EXCEPT ![target] = NoThread]
      BY <1>0, <1>5 DEF JoinWorker, GiveUpJoin, JoinAndErase, Erase, TargetInv, EntrySteps, Locked, LoaderTypeOK
    <2> QED
      BY <1>0, <2>1 DEF SlotInv, Halfway
  <1>6. CASE EndThreadOfCrashed
    <2>1. /\ target \in Plugin /\ lpc' = "close" /\ lpc = "endThread" /\ UNCHANGED <<enabled, target>>
          /\ \/ thread_memory[target] = NoThread /\ thread_memory' = thread_memory
             \/ thread_memory' = [thread_memory EXCEPT ![target] = NoThread]
      BY <1>0, <1>6 DEF EndThreadOfCrashed, EndThread, Erase, TargetInv, EntrySteps, Locked,
                        LoaderTypeOK, workerVars
    <2>2. thread_memory'[target] = NoThread /\ \A q \in Plugin : q # target => thread_memory'[q] = thread_memory[q]
      BY <1>0, <2>1
    <2> QED
      BY <2>1, <2>2 DEF SlotInv, Halfway
  <1>7. CASE MarkDisabled \/ MarkUnloaded
    <2>1. /\ target \in Plugin /\ lpc \in {"disable", "unload"} /\ lpc' \in {"next", "close", "load"}
          /\ UNCHANGED <<thread_memory, target>> /\ enabled' = [enabled EXCEPT ![target] = FALSE]
      BY <1>0, <1>7 DEF MarkDisabled, MarkUnloaded, TargetInv, EntrySteps, Locked, LoaderTypeOK, workerVars
    <2>2. thread_memory[target] = NoThread
      BY <2>1 DEF SlotInv
    <2>3. ~enabled'[target] /\ \A q \in Plugin : q # target => (enabled'[q] <=> enabled[q])
      BY <1>0, <2>1
    <2> QED
      BY <2>1, <2>2, <2>3 DEF SlotInv, Halfway
  <1>8. CASE CloseLibrary
    <2>1. lpc = "close" /\ lpc' = "unload" /\ UNCHANGED <<thread_memory, enabled, target, task>>
      BY <1>8 DEF CloseLibrary, workerVars
    <2> QED
      BY <2>1 DEF SlotInv, Halfway
  <1>9. CASE LoadPlugin
    <2>1. /\ target \in Plugin /\ lpc = "load" /\ lpc' = "enable" /\ ~enabled[target]
          /\ UNCHANGED <<thread_memory, target>> /\ enabled' = [enabled EXCEPT ![target] = FALSE]
      BY <1>0, <1>9 DEF LoadPlugin, TargetInv, EntrySteps, Locked, LoaderTypeOK, workerVars
    <2>2. \A q \in Plugin : (enabled'[q] <=> enabled[q])
      BY <1>0, <2>1
    <2> QED
      BY <2>1, <2>2 DEF SlotInv, Halfway
  <1>10. CASE LoadFails
    <2>1. UNCHANGED <<thread_memory, enabled>> /\ lpc \notin Halfway /\ lpc' \in {"next", "idle"}
      BY <1>10 DEF LoadFails, workerVars, Halfway
    <2> QED
      BY <2>1, SlotKept
  <1>11. CASE OpenNew
    <2>1. /\ target \in Plugin /\ target \notin listed /\ lpc = "open" /\ target' = target /\ task' = task
          /\ UNCHANGED <<thread_memory, enabled>>
          /\ lpc' = IF task.kind = "LOAD_NEW_ACTIVATENOW" THEN "activate" ELSE "insert"
      BY <1>0, <1>11 DEF OpenNew, TargetInv, NewSteps, LoadsAreNew, workerVars
    <2>2. thread_memory[target] = NoThread
      BY <1>a, <2>1 DEF SlotInv, Halfway
    <2> QED
      BY <2>1, <2>2, SlotKept DEF Halfway
  <1>12. CASE ActivateNew
    <2>1. /\ target \in Plugin /\ target \notin listed /\ lpc = "activate" /\ lpc' = "insert"
          /\ UNCHANGED <<enabled, target, task>> /\ task.kind = "LOAD_NEW_ACTIVATENOW"
          /\ AddThread(target, EntranceJob(local))
      BY <1>0, <1>12 DEF ActivateNew, TargetInv, NewSteps, LoadsAreNew
    <2>2. thread_memory[target] = NoThread
      BY <1>a, <2>1 DEF SlotInv, Halfway
    <2>3. EntranceJob(local) \in Job
      BY <1>0 DEF EntranceJob, Job, JobKind, LoaderTypeOK
    <2>4. /\ thread_memory'[target] # NoThread
          /\ \A q \in Plugin : q # target => thread_memory'[q] = thread_memory[q]
      BY <2>1, <2>2, <2>3, SlotBound
    <2> QED
      BY <2>1, <2>4 DEF SlotInv, Halfway
  <1>13. CASE AddNewPlugin
    <2>1. /\ target \in Plugin /\ lpc = "insert" /\ lpc' = "idle" /\ thread_memory' = thread_memory
          /\ enabled' = [enabled EXCEPT ![target] = task.kind = "LOAD_NEW_ACTIVATENOW"]
      BY <1>0, <1>13 DEF AddNewPlugin, TargetInv, NewSteps, LoadsAreNew, workerVars
    <2>2. /\ enabled'[target] <=> task.kind = "LOAD_NEW_ACTIVATENOW"
          /\ \A q \in Plugin : q # target => (enabled'[q] <=> enabled[q])
      BY <1>0, <2>1
    <2> QED
      BY <2>1, <2>2 DEF SlotInv, Halfway
  <1>14. CASE (\E t \in Thread : WorkerStep(t)) \/ KtStep \/ UNCHANGED vars
    <2>1. thread_memory' = thread_memory
      BY <1>14 DEF vars, workerVars, WorkerStep, RunJob, StartJob, CompleteJob, FinishJob, CrashJob,
         ThrowJob, ReportException, Reported, AskForList, WaitForList, ReadList, GotList,
         DrainedQueue, Drained, ReturnFromRun, Return, KtStep, Event, SubmitJob, LoaderExit, Request
    <2>2. UNCHANGED <<lpc, enabled, target, task>>
      BY <1>14, OthersKeepLoader
    <2> QED
      BY <2>1, <2>2 DEF SlotInv, Halfway
  <1> QED
    BY <1>1, <1>2, <1>3, <1>4, <1>5, <1>6, <1>7, <1>8, <1>9, <1>10, <1>11, <1>12, <1>13, <1>14
       DEF Next, LoaderStep, Terminated

\* As long as nobody loads a listed plugin a second time, and whatever jobs
\* throw or outlast: whoever locks the plugin list finds that exactly the
\* enabled plugins have a thread, each one of its own, and are loaded.
THEOREM EnabledStaysBound ==
  ASSUME "duplicate" \notin Mishaps
  PROVE  Spec => []EnabledIsBound
  <1>1. Init => BaseInv /\ LoadsAreNew /\ SlotInv
    BY InitBase, InitLoads, InitSlot
  <1>2. (BaseInv /\ LoadsAreNew /\ SlotInv) /\ [Next]_vars => (BaseInv /\ LoadsAreNew /\ SlotInv)'
    BY NextBase, LoadsStep, SlotStep
  <1>3. BaseInv /\ SlotInv /\ LoadsAreNew => EnabledIsBound
    <2> SUFFICES ASSUME BaseInv, SlotInv, LoadsAreNew, lpc \notin Locked, NEW p \in listed
                 PROVE  /\ enabled[p] <=> thread_memory[p] # NoThread
                        /\ enabled[p] => handle[p] # NoLib /\ pluginid[thread_memory[p]] = p
      BY DEF EnabledIsBound, Holding
    <2>1. p \in Plugin
      BY DEF BaseInv, TypeOK, LoaderTypeOK
    <2>2. ~(lpc \in Halfway /\ target = p)
      BY DEF LoadsAreNew, NewSteps, Halfway, Locked
    <2>3. enabled[p] <=> thread_memory[p] # NoThread
      BY <2>1, <2>2 DEF SlotInv
    <2> QED
      BY <2>1, <2>3 DEF BaseInv, LibraryInv, LibraryOK, ThreadInv, BoundOK
  <1> QED
    BY <1>1, <1>2, <1>3, PTL DEF Spec
===============================================================================
