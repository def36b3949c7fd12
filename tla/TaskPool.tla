------------------------------- MODULE TaskPool -------------------------------
(***************************************************************************)
(* The thread pool of libLoader (BS_thread_pool.hpp) as libLoader uses it: *)
(* loaderMain creates it, plugin threads and the pool's own tasks push     *)
(* tasks through LoaderApi::pushTask, and loaderMain destroys it when it   *)
(* has unloaded the plugins.  Nothing pauses the pool, resizes it, or      *)
(* waits for its tasks but the destructor.                                 *)
(*                                                                         *)
(* tasks_mutex is released in the middle of push_task and by a waiting     *)
(* condition variable, and running, waiting and tasks_total are atomics    *)
(* that are not changed under it, so the steps are smaller than the        *)
(* critical sections: a worker that found the queue empty still holds the  *)
(* mutex ("sleepy") until it sleeps.                                       *)
(***************************************************************************)
EXTENDS Integers, Sequences, FiniteSets

CONSTANTS
  Worker,      \* the pool's threads
  Pusher,      \* the plugin threads that push tasks
  MaxTasks,    \* bound: tasks pushed in a behaviour
  MaxSpurious, \* bound: wakeups nobody notified
  SizeMax,     \* the largest size_t
  Nested       \* may a task push tasks?

ASSUME PoolAssumption ==
  /\ Worker # {} /\ IsFiniteSet(Worker) /\ IsFiniteSet(Pusher)
  /\ Worker \cap Pusher = {}
  /\ MaxTasks \in Nat /\ MaxSpurious \in Nat /\ SizeMax \in Nat
  /\ MaxTasks + Cardinality(Worker) + Cardinality(Pusher) < SizeMax
  /\ Nested \in BOOLEAN

Thread == Worker \cup Pusher
TaskId == 1..MaxTasks
NoTask == 0

VARIABLES
  tasks,        \* the queue
  tasks_total,  \* the atomic counter of unfinished tasks
  running,      \* false once the pool is being destroyed
  waiting,      \* wait_for_tasks is active
  wpc,          \* where each worker is in worker()
  job,          \* the task a worker executes
  ppc,          \* where each thread is in push_task
  owner,        \* where the loader thread is
  pushed,       \* history: how many tasks were put into the queue
  done,         \* history: the tasks that were executed
  spurious      \* how many spurious wakeups there were (bounded)

workerVars == <<wpc, job, done>>
ownerVars  == <<running, waiting, owner>>
vars == <<tasks, tasks_total, workerVars, ppc, ownerVars, pushed, spurious>>

WorkerPc == {"loop", "lock", "sleepy", "asleep", "run", "count", "ended"}
PushPc   == {"idle", "append", "count", "notify"}
OwnerPc  == {"serving", "wait", "check", "asleep", "destroy", "notify", "join", "gone"}

TypeOK ==
  /\ tasks \in Seq(Nat)
  /\ tasks_total \in 0..SizeMax
  /\ running \in BOOLEAN /\ waiting \in BOOLEAN
  /\ wpc \in [Worker -> WorkerPc]
  /\ job \in [Worker -> Nat]
  /\ ppc \in [Thread -> PushPc]
  /\ owner \in OwnerPc
  /\ pushed \in Nat
  /\ done \subseteq Nat
  /\ spurious \in Nat

\* create_threads
Init ==
  /\ tasks = <<>>
  /\ tasks_total = 0
  /\ running = TRUE
  /\ waiting = FALSE
  /\ wpc = [w \in Worker |-> "loop"]
  /\ job = [w \in Worker |-> NoTask]
  /\ ppc = [t \in Thread |-> "idle"]
  /\ owner = "serving"
  /\ pushed = 0
  /\ done = {}
  /\ spurious = 0

\* Nobody holds tasks_mutex at the end of a step but a sleepy worker.
MutexFree == \A w \in Worker : wpc[w] # "sleepy"

\* The threads that are in push_task and have not added their task yet, and
\* the ones that have and have not counted it; the workers whose task is not
\* counted down yet.
Entering   == {t \in Thread : ppc[t] = "append"}
Uncounted  == {t \in Thread : ppc[t] = "count"}
Unfinished == {w \in Worker : job[w] # NoTask}

\* ++ and -- of an atomic size_t wrap around.
Incremented(n) == IF n = SizeMax THEN 0 ELSE n + 1
Decremented(n) == IF n = 0 THEN SizeMax ELSE n - 1

Asleep == {w \in Worker : wpc[w] = "asleep"}

-----------------------------------------------------------------------------
(* push_task.                                                              *)

\* BS::pool is not null: unique_ptr::reset clears it before it destroys.
PoolIsSet == owner = "serving"

\* pushTask finds the pool.  A plugin thread is joined before the pool is
\* destroyed; a task runs on a worker.
EnterPush(t) ==
  /\ PoolIsSet
  /\ ppc[t] = "idle"
  /\ t \in Worker => Nested /\ wpc[t] = "run"
  /\ pushed + Cardinality(Entering) < MaxTasks
  /\ ppc' = [ppc EXCEPT ![t] = "append"]
  /\ UNCHANGED <<tasks, tasks_total, workerVars, ownerVars, pushed, spurious>>

\* Under tasks_mutex.
AppendTask(t) ==
  /\ ppc[t] = "append"
  /\ MutexFree
  /\ pushed' = pushed + 1
  /\ tasks' = Append(tasks, pushed')
  /\ ppc' = [ppc EXCEPT ![t] = "count"]
  /\ UNCHANGED <<tasks_total, workerVars, ownerVars, spurious>>

\* Mutant of CountTask: the task is not counted.
CountTask_Never(t) ==
  /\ ppc[t] = "count"
  /\ ppc' = [ppc EXCEPT ![t] = "notify"]
  /\ UNCHANGED <<tasks, tasks_total, workerVars, ownerVars, pushed, spurious>>

\* ++tasks_total, after the mutex is released.
CountTask(t) ==
  /\ ppc[t] = "count"
  /\ tasks_total' = Incremented(tasks_total)
  /\ ppc' = [ppc EXCEPT ![t] = "notify"]
  /\ UNCHANGED <<tasks, workerVars, ownerVars, pushed, spurious>>

\* Mutant of NotifyTask: nobody is told of the task.
NotifyTask_Nobody(t) ==
  /\ ppc[t] = "notify"
  /\ ppc' = [ppc EXCEPT ![t] = "idle"]
  /\ UNCHANGED <<tasks, tasks_total, workerVars, ownerVars, pushed, spurious>>

\* task_available_cv.notify_one: one sleeping worker, if there is one.
NotifyTask(t) ==
  /\ ppc[t] = "notify"
  /\ ppc' = [ppc EXCEPT ![t] = "idle"]
  /\ \/ Asleep = {} /\ UNCHANGED wpc
     \/ \E w \in Asleep : wpc' = [wpc EXCEPT ![w] = "lock"]
  /\ UNCHANGED <<tasks, tasks_total, job, done, ownerVars, pushed, spurious>>

-----------------------------------------------------------------------------
(* worker.                                                                 *)

\* while (running)
TestRunning(w) ==
  /\ wpc[w] = "loop"
  /\ wpc' = [wpc EXCEPT ![w] = IF running THEN "lock" ELSE "ended"]
  /\ UNCHANGED <<tasks, tasks_total, job, done, ppc, ownerVars, pushed, spurious>>

\* Mutant of FindNoTask: the worker sleeps without a look at the queue.
FindNoTask_NoPredicate(w) ==
  /\ wpc[w] = "lock" /\ MutexFree
  /\ running
  /\ wpc' = [wpc EXCEPT ![w] = "sleepy"]
  /\ UNCHANGED <<tasks, tasks_total, job, done, ppc, ownerVars, pushed, spurious>>

\* The predicate of task_available_cv.wait is false.
FindNoTask(w) ==
  /\ wpc[w] = "lock" /\ MutexFree
  /\ tasks = <<>> /\ running
  /\ wpc' = [wpc EXCEPT ![w] = "sleepy"]
  /\ UNCHANGED <<tasks, tasks_total, job, done, ppc, ownerVars, pushed, spurious>>

\* The mutex is released and the worker sleeps, in one step.
Sleep(w) ==
  /\ wpc[w] = "sleepy"
  /\ wpc' = [wpc EXCEPT ![w] = "asleep"]
  /\ UNCHANGED <<tasks, tasks_total, job, done, ppc, ownerVars, pushed, spurious>>

\* Mutant of TakeTask: the last task is taken first.
TakeTask_Last(w) ==
  /\ wpc[w] = "lock" /\ MutexFree
  /\ tasks # <<>> /\ running
  /\ job' = [job EXCEPT ![w] = tasks[Len(tasks)]]
  /\ tasks' = SubSeq(tasks, 1, Len(tasks) - 1)
  /\ wpc' = [wpc EXCEPT ![w] = "run"]
  /\ UNCHANGED <<tasks_total, done, ppc, ownerVars, pushed, spurious>>

\* The predicate is true and the pool is running.
TakeTask(w) ==
  /\ wpc[w] = "lock" /\ MutexFree
  /\ tasks # <<>> /\ running
  /\ job' = [job EXCEPT ![w] = Head(tasks)]
  /\ tasks' = Tail(tasks)
  /\ wpc' = [wpc EXCEPT ![w] = "run"]
  /\ UNCHANGED <<tasks_total, done, ppc, ownerVars, pushed, spurious>>

\* The predicate is true and the pool is not running.
LeaveTasks(w) ==
  /\ wpc[w] = "lock" /\ MutexFree
  /\ ~running
  /\ wpc' = [wpc EXCEPT ![w] = "loop"]
  /\ UNCHANGED <<tasks, tasks_total, job, done, ppc, ownerVars, pushed, spurious>>

\* The task returns.
EndTask(w) ==
  /\ wpc[w] = "run" /\ ppc[w] = "idle"
  /\ done' = done \cup {job[w]}
  /\ wpc' = [wpc EXCEPT ![w] = "count"]
  /\ UNCHANGED <<tasks, tasks_total, job, ppc, ownerVars, pushed, spurious>>

\* Mutant of CountDone: wait_for_tasks is not told.
CountDone_NoNotify(w) ==
  /\ wpc[w] = "count" /\ MutexFree
  /\ tasks_total' = Decremented(tasks_total)
  /\ job' = [job EXCEPT ![w] = NoTask]
  /\ wpc' = [wpc EXCEPT ![w] = "loop"]
  /\ UNCHANGED <<tasks, done, ppc, ownerVars, pushed, spurious>>

\* Mutant of CountDone: the counter is a signed number.
CountDone_Signed(w) ==
  /\ wpc[w] = "count" /\ MutexFree
  /\ tasks_total' = tasks_total - 1
  /\ job' = [job EXCEPT ![w] = NoTask]
  /\ wpc' = [wpc EXCEPT ![w] = "loop"]
  /\ owner' = IF waiting /\ owner = "asleep" THEN "check" ELSE owner
  /\ UNCHANGED <<tasks, done, ppc, running, waiting, pushed, spurious>>

\* --tasks_total, under the mutex, and task_done_cv.notify_one.
CountDone(w) ==
  /\ wpc[w] = "count" /\ MutexFree
  /\ tasks_total' = Decremented(tasks_total)
  /\ job' = [job EXCEPT ![w] = NoTask]
  /\ wpc' = [wpc EXCEPT ![w] = "loop"]
  /\ owner' = IF waiting /\ owner = "asleep" THEN "check" ELSE owner
  /\ UNCHANGED <<tasks, done, ppc, running, waiting, pushed, spurious>>

\* A condition variable may wake a thread without a notification.
WakeUp(w) ==
  /\ spurious < MaxSpurious
  /\ wpc[w] = "asleep"
  /\ wpc' = [wpc EXCEPT ![w] = "lock"]
  /\ spurious' = spurious + 1
  /\ UNCHANGED <<tasks, tasks_total, job, done, ppc, ownerVars, pushed>>

-----------------------------------------------------------------------------
(* loaderMain: shutdownLoader and pool.reset(), ~thread_pool.              *)

\* shutdownLoader has joined the plugin threads.
ResetPool ==
  /\ owner = "serving"
  /\ \A t \in Pusher : ppc[t] = "idle"
  /\ owner' = "wait"
  /\ UNCHANGED <<tasks, tasks_total, workerVars, ppc, running, waiting, pushed, spurious>>

\* wait_for_tasks
SetWaiting ==
  /\ owner = "wait"
  /\ waiting' = TRUE
  /\ owner' = "check"
  /\ UNCHANGED <<tasks, tasks_total, workerVars, ppc, running, pushed, spurious>>

\* Mutant of CheckTotal: wait_for_tasks looks at the queue alone.
CheckTotal_Queue ==
  /\ owner = "check" /\ MutexFree
  /\ IF tasks = <<>> THEN owner' = "destroy" /\ waiting' = FALSE
                     ELSE owner' = "asleep" /\ UNCHANGED waiting
  /\ UNCHANGED <<tasks, tasks_total, workerVars, ppc, running, pushed, spurious>>

CheckTotal ==
  /\ owner = "check" /\ MutexFree
  /\ IF tasks_total = 0 THEN owner' = "destroy" /\ waiting' = FALSE
                        ELSE owner' = "asleep" /\ UNCHANGED waiting
  /\ UNCHANGED <<tasks, tasks_total, workerVars, ppc, running, pushed, spurious>>

\* destroy_threads: running is cleared without the mutex ...
StopRunning ==
  /\ owner = "destroy"
  /\ running' = FALSE
  /\ owner' = "notify"
  /\ UNCHANGED <<tasks, tasks_total, workerVars, ppc, waiting, pushed, spurious>>

\* ... the workers that sleep are woken ...
NotifyAll ==
  /\ owner = "notify"
  /\ wpc' = [w \in Worker |-> IF w \in Asleep THEN "lock" ELSE wpc[w]]
  /\ owner' = "join"
  /\ UNCHANGED <<tasks, tasks_total, job, done, ppc, running, waiting, pushed, spurious>>

\* ... and all are joined.
JoinAll ==
  /\ owner = "join"
  /\ \A w \in Worker : wpc[w] = "ended"
  /\ owner' = "gone"
  /\ UNCHANGED <<tasks, tasks_total, workerVars, ppc, running, waiting, pushed, spurious>>

-----------------------------------------------------------------------------

PushStep(t) == EnterPush(t) \/ AppendTask(t) \/ CountTask(t) \/ NotifyTask(t)

WorkerStep(w) ==
  \/ TestRunning(w) \/ FindNoTask(w) \/ Sleep(w) \/ TakeTask(w) \/ LeaveTasks(w)
  \/ EndTask(w) \/ CountDone(w)

OwnerStep ==
  \/ ResetPool \/ SetWaiting \/ CheckTotal \/ StopRunning \/ NotifyAll \/ JoinAll

Terminated == owner = "gone" /\ UNCHANGED vars

Next ==
  \/ \E t \in Thread : PushStep(t)
  \/ \E w \in Worker : WorkerStep(w) \/ WakeUp(w)
  \/ OwnerStep
  \/ Terminated

Spec == Init /\ [][Next]_vars

\* Threads in push_task go on, workers go on and the tasks they run end, and
\* so does the loader thread once it destroys the pool.  Nobody has to push.
FairSpec ==
  /\ Spec
  /\ \A t \in Thread : WF_vars(AppendTask(t) \/ CountTask(t) \/ NotifyTask(t))
  /\ \A w \in Worker : WF_vars(WorkerStep(w))
  /\ WF_vars(owner # "serving" /\ OwnerStep)

-----------------------------------------------------------------------------
(* Safety.                                                                 *)

\* tasks_total is the number of tasks queued or executed, but for the pushes
\* that are not counted yet, whatever order ++ and -- come in; it has wrapped
\* around at most once.
TotalIsRight ==
  \E wrapped \in {0, SizeMax + 1} :
    tasks_total + Cardinality(Uncounted)
      = Len(tasks) + Cardinality(Unfinished) + wrapped

\* When every push_task has returned, a queue that is not empty has a worker
\* awake to look at it.
NoLostTask ==
  tasks # <<>> /\ running /\ (\A t \in Thread : ppc[t] \in {"idle", "append"})
    => \E w \in Worker : wpc[w] # "asleep"

\* A destroyed pool has executed every task that was pushed, though
\* wait_for_tasks may return early and the workers leave queued tasks alone.
NothingLeftBehind ==
  owner = "gone" => tasks = <<>> /\ done = 1..pushed

-----------------------------------------------------------------------------
(* What the pushers see (TaskExecution).                                   *)

status == [k \in TaskId |->
  CASE k \in done -> "done"
    [] k \notin done /\ (\E w \in Worker : job[w] = k) -> "running"
    [] k \notin done /\ (\A w \in Worker : job[w] # k) /\ k <= pushed -> "queued"
    [] OTHER -> "absent"]

Execution == INSTANCE TaskExecution WITH Threads <- Cardinality(Worker)

\* The pool implements TaskExecution: a task is executed once, in its turn.
ExecutionSpec == Execution!Spec

-----------------------------------------------------------------------------
(* Liveness.                                                               *)

\* Every task that is pushed is executed.
TasksAreRun == \A k \in TaskId : pushed >= k ~> k \in done

\* wait_for_tasks returns.
WaitReturns == owner = "wait" ~> owner = "destroy"

=============================================================================
