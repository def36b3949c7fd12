---------------------------- MODULE TaskPoolProofs ----------------------------
(***************************************************************************)
(* Proofs about TaskPool, for any number of workers, pushing threads and   *)
(* tasks.  A worker only sleeps when it saw an empty queue and kept the    *)
(* mutex since then, and whoever fills the queue notifies afterwards, so   *)
(* no queued task is left with all workers asleep.                         *)
(***************************************************************************)
EXTENDS TaskPool, FiniteSetTheorems, TLAPS

\* A worker that is about to sleep has seen an empty queue, and nobody could
\* fill it meanwhile.
SleepyInv == \A w \in Worker : wpc[w] = "sleepy" => tasks = <<>>

PoolInv == TypeOK /\ SleepyInv /\ NoLostTask

\* The counter stays a size_t when it is incremented or decremented.
LEMMA CounterType ==
  ASSUME NEW n \in 0..SizeMax
  PROVE  Incremented(n) \in 0..SizeMax /\ Decremented(n) \in 0..SizeMax
<1>1. SizeMax \in Nat BY PoolAssumption
<1>2. n \in Nat /\ n <= SizeMax BY <1>1
<1>3. Incremented(n) \in 0..SizeMax
  <2>1. CASE n = SizeMax BY <2>1, <1>1 DEF Incremented
  <2>2. CASE n # SizeMax BY <2>2, <1>1, <1>2 DEF Incremented
  <2>. QED BY <2>1, <2>2
<1>4. Decremented(n) \in 0..SizeMax
  <2>1. CASE n = 0 BY <2>1, <1>1 DEF Decremented
  <2>2. CASE n # 0 BY <2>2, <1>1, <1>2 DEF Decremented
  <2>. QED BY <2>1, <2>2
<1>. QED BY <1>3, <1>4

\* The invariant holds in a new pool.
LEMMA InitPool == Init => PoolInv
<1>. SUFFICES ASSUME Init PROVE PoolInv OBVIOUS
<1>1. TypeOK
  <2>1. 0 \in 0..SizeMax BY PoolAssumption
  <2>2. tasks \in Seq(Nat) BY DEF Init
  <2>. QED BY <2>1, <2>2 DEF Init, TypeOK, WorkerPc, PushPc, OwnerPc, NoTask
<1>2. SleepyInv BY DEF Init, SleepyInv
<1>3. NoLostTask BY DEF Init, NoLostTask
<1>. QED BY <1>1, <1>2, <1>3 DEF PoolInv

\* push_task keeps the types.
LEMMA TypePush == ASSUME TypeOK, NEW t \in Thread, PushStep(t) PROVE TypeOK'
<1>. USE DEF TypeOK, PushPc
<1>1. CASE EnterPush(t) BY <1>1 DEF EnterPush, workerVars, ownerVars
<1>2. CASE AppendTask(t)
  <2>1. pushed' \in Nat BY <1>2 DEF AppendTask
  <2>2. tasks' \in Seq(Nat)
    <3>1. tasks' = Append(tasks, pushed') BY <1>2 DEF AppendTask
    <3>. QED BY <3>1, <2>1
  <2>. QED BY <2>1, <2>2, <1>2 DEF AppendTask, workerVars, ownerVars
<1>3. CASE CountTask(t)
  <2>1. tasks_total' \in 0..SizeMax BY <1>3, CounterType DEF CountTask
  <2>. QED BY <2>1, <1>3 DEF CountTask, workerVars, ownerVars
<1>4. CASE NotifyTask(t)
  <2>1. wpc' \in [Worker -> WorkerPc] BY <1>4 DEF NotifyTask, WorkerPc, Asleep
  <2>. QED BY <2>1, <1>4 DEF NotifyTask, ownerVars
<1>. QED BY <1>1, <1>2, <1>3, <1>4 DEF PushStep

\* The workers keep the types.
LEMMA TypeWorker ==
  ASSUME TypeOK, NEW w \in Worker, WorkerStep(w) \/ WakeUp(w) PROVE TypeOK'
<1>. USE DEF TypeOK, WorkerPc
<1>1. CASE TestRunning(w) BY <1>1 DEF TestRunning, ownerVars
<1>2. CASE FindNoTask(w) BY <1>2 DEF FindNoTask, ownerVars
<1>3. CASE Sleep(w) BY <1>3 DEF Sleep, ownerVars
<1>4. CASE TakeTask(w)
  <2>1. tasks # <<>> /\ job' = [job EXCEPT ![w] = Head(tasks)] /\ tasks' = Tail(tasks)
    BY <1>4 DEF TakeTask
  <2>2. Head(tasks) \in Nat /\ Tail(tasks) \in Seq(Nat) BY <2>1
  <2>. QED BY <2>1, <2>2, <1>4 DEF TakeTask, ownerVars
<1>5. CASE LeaveTasks(w) BY <1>5 DEF LeaveTasks, ownerVars
<1>6. CASE EndTask(w)
  <2>1. done' \subseteq Nat BY <1>6 DEF EndTask
  <2>. QED BY <2>1, <1>6 DEF EndTask, ownerVars
<1>7. CASE CountDone(w)
  <2>1. tasks_total' \in 0..SizeMax BY <1>7, CounterType DEF CountDone
  <2>2. owner' \in OwnerPc BY <1>7 DEF CountDone, OwnerPc
  <2>3. job' \in [Worker -> Nat] BY <1>7 DEF CountDone, NoTask
  <2>4. wpc' \in [Worker -> WorkerPc] BY <1>7 DEF CountDone
  <2>. QED BY <2>1, <2>2, <2>3, <2>4, <1>7 DEF CountDone
<1>8. CASE WakeUp(w) BY <1>8 DEF WakeUp, ownerVars
<1>. QED BY <1>1, <1>2, <1>3, <1>4, <1>5, <1>6, <1>7, <1>8 DEF WorkerStep

\* The loader thread keeps the types.
LEMMA TypeOwner == ASSUME TypeOK, OwnerStep PROVE TypeOK'
<1>. USE DEF TypeOK, OwnerPc
<1>1. CASE ResetPool BY <1>1 DEF ResetPool, workerVars
<1>2. CASE SetWaiting BY <1>2 DEF SetWaiting, workerVars
<1>3. CASE CheckTotal BY <1>3 DEF CheckTotal, workerVars
<1>4. CASE StopRunning BY <1>4 DEF StopRunning, workerVars
<1>5. CASE NotifyAll
  <2>1. wpc' \in [Worker -> WorkerPc] BY <1>5 DEF NotifyAll, WorkerPc
  <2>. QED BY <2>1, <1>5 DEF NotifyAll
<1>6. CASE JoinAll BY <1>6 DEF JoinAll, workerVars
<1>. QED BY <1>1, <1>2, <1>3, <1>4, <1>5, <1>6 DEF OwnerStep

\* Nobody fills the queue while a worker goes to sleep.
LEMMA SleepyStep == ASSUME PoolInv, [Next]_vars PROVE SleepyInv'
<1>. SUFFICES ASSUME NEW v \in Worker, wpc'[v] = "sleepy" PROVE tasks' = <<>>
  BY DEF SleepyInv
<1>. USE DEF PoolInv
<1>0. wpc \in [Worker -> WorkerPc] BY DEF TypeOK
<1>1. ASSUME NEW t \in Thread, PushStep(t) PROVE tasks' = <<>>
  <2>1. CASE AppendTask(t)
    BY <2>1 DEF AppendTask, MutexFree, workerVars
  <2>2. CASE EnterPush(t) \/ CountTask(t)
    BY <2>2 DEF EnterPush, CountTask, workerVars, SleepyInv
  <2>3. CASE NotifyTask(t) BY <2>3, <1>0 DEF NotifyTask, SleepyInv
  <2>. QED BY <1>1, <2>1, <2>2, <2>3 DEF PushStep
<1>2. ASSUME NEW w \in Worker, WorkerStep(w) \/ WakeUp(w) PROVE tasks' = <<>>
  <2>1. CASE FindNoTask(w) BY <2>1 DEF FindNoTask
  <2>2. CASE TakeTask(w) BY <2>2, <1>0 DEF TakeTask, MutexFree
  <2>3. CASE TestRunning(w) \/ LeaveTasks(w) \/ Sleep(w)
    BY <2>3, <1>0 DEF TestRunning, LeaveTasks, Sleep, SleepyInv
  <2>4. CASE EndTask(w) \/ CountDone(w) \/ WakeUp(w)
    BY <2>4, <1>0 DEF EndTask, CountDone, WakeUp, SleepyInv
  <2>. QED BY <1>2, <2>1, <2>2, <2>3, <2>4 DEF WorkerStep
<1>3. CASE OwnerStep
  <2>1. CASE NotifyAll BY <2>1, <1>0 DEF NotifyAll, SleepyInv
  <2>2. CASE ResetPool \/ SetWaiting \/ CheckTotal \/ StopRunning \/ JoinAll
    BY <2>2 DEF ResetPool, SetWaiting, CheckTotal, StopRunning, JoinAll, workerVars, SleepyInv
  <2>. QED BY <1>3, <2>1, <2>2 DEF OwnerStep
<1>4. CASE UNCHANGED vars BY <1>4 DEF vars, workerVars, SleepyInv
<1>. QED BY <1>1, <1>2, <1>3, <1>4 DEF Next, Terminated

\* A queued task keeps a worker awake.
LEMMA LostStep == ASSUME PoolInv, [Next]_vars PROVE NoLostTask'
<1>. SUFFICES ASSUME tasks' # <<>>, running',
                     \A t \in Thread : ppc'[t] \in {"idle", "append"}
              PROVE  \E w \in Worker : wpc'[w] # "asleep"
  BY DEF NoLostTask
<1>. USE DEF PoolInv
<1>0. /\ wpc \in [Worker -> WorkerPc] /\ wpc' \in [Worker -> WorkerPc]
      /\ ppc \in [Thread -> PushPc]
  <2>1. TypeOK'
    BY TypePush, TypeWorker, TypeOwner DEF Next, PushStep, Terminated, vars, TypeOK, workerVars, ownerVars
  <2>. QED BY <2>1 DEF TypeOK
<1>1. ASSUME NEW t \in Thread, PushStep(t) PROVE \E w \in Worker : wpc'[w] # "asleep"
  <2>1. CASE EnterPush(t)
    BY <2>1, <1>0 DEF EnterPush, workerVars, ownerVars, NoLostTask
  <2>2. CASE AppendTask(t) BY <2>2, <1>0 DEF AppendTask
  <2>3. CASE CountTask(t) BY <2>3, <1>0 DEF CountTask
  <2>4. CASE NotifyTask(t)
    <3>1. CASE Asleep = {} /\ UNCHANGED wpc
      BY <3>1, PoolAssumption DEF Asleep
    <3>2. CASE \E w \in Asleep : wpc' = [wpc EXCEPT ![w] = "lock"]
      BY <3>2, <1>0 DEF Asleep
    <3>. QED BY <2>4, <3>1, <3>2 DEF NotifyTask
  <2>. QED BY <1>1, <2>1, <2>2, <2>3, <2>4 DEF PushStep
<1>2. ASSUME NEW w \in Worker, WorkerStep(w) \/ WakeUp(w)
      PROVE \E u \in Worker : wpc'[u] # "asleep"
  <2>1. CASE Sleep(w) BY <2>1 DEF Sleep, SleepyInv
  <2>2. CASE TestRunning(w) \/ FindNoTask(w) \/ TakeTask(w) \/ LeaveTasks(w)
    BY <2>2, <1>0 DEF TestRunning, FindNoTask, TakeTask, LeaveTasks
  <2>3. CASE EndTask(w) \/ CountDone(w) \/ WakeUp(w)
    BY <2>3, <1>0 DEF EndTask, CountDone, WakeUp
  <2>. QED BY <1>2, <2>1, <2>2, <2>3 DEF WorkerStep
<1>3. CASE OwnerStep
  <2>1. CASE NotifyAll
    BY <2>1, <1>0, PoolAssumption DEF NotifyAll, Asleep
  <2>2. CASE StopRunning BY <2>2 DEF StopRunning
  <2>3. CASE ResetPool \/ SetWaiting \/ CheckTotal \/ JoinAll
    BY <2>3 DEF ResetPool, SetWaiting, CheckTotal, JoinAll, workerVars, NoLostTask
  <2>. QED BY <1>3, <2>1, <2>2, <2>3 DEF OwnerStep
<1>4. CASE UNCHANGED vars BY <1>4 DEF vars, workerVars, ownerVars, NoLostTask
<1>. QED BY <1>1, <1>2, <1>3, <1>4 DEF Next, Terminated

\* Every step keeps the invariant.
LEMMA PoolStep == PoolInv /\ [Next]_vars => PoolInv'
<1>. SUFFICES ASSUME PoolInv, [Next]_vars PROVE PoolInv' OBVIOUS
<1>1. TypeOK'
  BY TypePush, TypeWorker, TypeOwner
  DEF Next, PushStep, Terminated, vars, TypeOK, workerVars, ownerVars, PoolInv
<1>. QED BY <1>1, SleepyStep, LostStep DEF PoolInv

-----------------------------------------------------------------------------
(* The count.  CountInv bounds what tasks_total stands for, so that a       *)
(* counter that wrapped can be told from one that did not.                  *)

CountInv ==
  /\ \A n \in DOMAIN tasks : tasks[n] # NoTask
  /\ \A w \in Worker : job[w] # NoTask <=> wpc[w] \in {"run", "count"}
  /\ Len(tasks) + Cardinality(Unfinished) <= pushed
  /\ pushed + Cardinality(Entering) <= MaxTasks

\* The sets counted are finite, and no more than there are threads.
LEMMA CountsAreSmall ==
  /\ IsFiniteSet(Entering) /\ IsFiniteSet(Uncounted) /\ IsFiniteSet(Unfinished)
  /\ Cardinality(Entering) \in Nat /\ Cardinality(Uncounted) \in Nat
  /\ Cardinality(Unfinished) \in Nat
  /\ MaxTasks \in Nat /\ SizeMax \in Nat
  /\ MaxTasks + Cardinality(Uncounted) < SizeMax
<1>1. /\ IsFiniteSet(Worker) /\ IsFiniteSet(Pusher) /\ Worker \cap Pusher = {}
      /\ MaxTasks \in Nat /\ SizeMax \in Nat
      /\ MaxTasks + Cardinality(Worker) + Cardinality(Pusher) < SizeMax
  BY PoolAssumption
<1>2. /\ IsFiniteSet(Thread)
      /\ Cardinality(Thread) = Cardinality(Worker) + Cardinality(Pusher) - Cardinality(Worker \cap Pusher)
  BY <1>1, FS_Union DEF Thread
<1>3. Cardinality(Worker \cap Pusher) = 0 BY <1>1, FS_EmptySet
<1>4. Entering \subseteq Thread /\ Uncounted \subseteq Thread /\ Unfinished \subseteq Worker
  BY DEF Entering, Uncounted, Unfinished
<1>5. /\ IsFiniteSet(Entering) /\ IsFiniteSet(Uncounted) /\ IsFiniteSet(Unfinished)
      /\ Cardinality(Uncounted) <= Cardinality(Thread)
  BY <1>1, <1>2, <1>4, FS_Subset
<1>6. /\ Cardinality(Entering) \in Nat /\ Cardinality(Uncounted) \in Nat
      /\ Cardinality(Unfinished) \in Nat /\ Cardinality(Thread) \in Nat
      /\ Cardinality(Worker) \in Nat /\ Cardinality(Pusher) \in Nat
  BY <1>1, <1>2, <1>5, FS_CardinalityType
<1>7. MaxTasks + Cardinality(Uncounted) < SizeMax BY <1>1, <1>2, <1>3, <1>5, <1>6
<1>. QED BY <1>1, <1>5, <1>6, <1>7

\* push_task: what each of its steps does to the counts.
LEMMA PushCounts ==
  ASSUME TypeOK, NEW t \in Thread
  PROVE  /\ EnterPush(t) =>
              /\ Cardinality(Entering)' = Cardinality(Entering) + 1
              /\ Uncounted' = Uncounted /\ Unfinished' = Unfinished
         /\ AppendTask(t) =>
              /\ Cardinality(Entering)' = Cardinality(Entering) - 1
              /\ Cardinality(Uncounted)' = Cardinality(Uncounted) + 1
              /\ Unfinished' = Unfinished
         /\ CountTask(t) =>
              /\ Cardinality(Uncounted)' = Cardinality(Uncounted) - 1
              /\ Entering' = Entering /\ Unfinished' = Unfinished
         /\ NotifyTask(t) =>
              Entering' = Entering /\ Uncounted' = Uncounted /\ Unfinished' = Unfinished
<1>0. ppc \in [Thread -> PushPc] BY DEF TypeOK
<1>1. ASSUME EnterPush(t)
      PROVE  /\ Cardinality(Entering)' = Cardinality(Entering) + 1
             /\ Uncounted' = Uncounted /\ Unfinished' = Unfinished
  <2>1. ppc' = [ppc EXCEPT ![t] = "append"] /\ job' = job /\ ppc[t] = "idle"
    BY <1>1 DEF EnterPush, workerVars
  <2>2. Entering' = Entering \cup {t} /\ t \notin Entering
    BY <2>1, <1>0 DEF Entering, Thread
  <2>3. Uncounted' = Uncounted BY <2>1, <1>0 DEF Uncounted, Thread
  <2>4. Unfinished' = Unfinished BY <2>1 DEF Unfinished
  <2>5. Cardinality(Entering') = Cardinality(Entering) + 1
    BY <2>2, CountsAreSmall, FS_AddElement
  <2>. QED BY <2>3, <2>4, <2>5
<1>2. ASSUME AppendTask(t)
      PROVE  /\ Cardinality(Entering)' = Cardinality(Entering) - 1
             /\ Cardinality(Uncounted)' = Cardinality(Uncounted) + 1
             /\ Unfinished' = Unfinished
  <2>1. ppc' = [ppc EXCEPT ![t] = "count"] /\ job' = job /\ ppc[t] = "append"
    BY <1>2 DEF AppendTask, workerVars
  <2>2. Entering' = Entering \ {t} /\ t \in Entering
    BY <2>1, <1>0 DEF Entering, Thread
  <2>3. Uncounted' = Uncounted \cup {t} /\ t \notin Uncounted
    BY <2>1, <1>0 DEF Uncounted, Thread
  <2>4. Unfinished' = Unfinished BY <2>1 DEF Unfinished
  <2>5. Cardinality(Entering') = Cardinality(Entering) - 1
    BY <2>2, CountsAreSmall, FS_RemoveElement
  <2>6. Cardinality(Uncounted') = Cardinality(Uncounted) + 1
    BY <2>3, CountsAreSmall, FS_AddElement
  <2>. QED BY <2>4, <2>5, <2>6
<1>3. ASSUME CountTask(t)
      PROVE  /\ Cardinality(Uncounted)' = Cardinality(Uncounted) - 1
             /\ Entering' = Entering /\ Unfinished' = Unfinished
  <2>1. ppc' = [ppc EXCEPT ![t] = "notify"] /\ job' = job /\ ppc[t] = "count"
    BY <1>3 DEF CountTask, workerVars
  <2>2. Uncounted' = Uncounted \ {t} /\ t \in Uncounted
    BY <2>1, <1>0 DEF Uncounted, Thread
  <2>3. Entering' = Entering BY <2>1, <1>0 DEF Entering, Thread
  <2>4. Unfinished' = Unfinished BY <2>1 DEF Unfinished
  <2>5. Cardinality(Uncounted') = Cardinality(Uncounted) - 1
    BY <2>2, CountsAreSmall, FS_RemoveElement
  <2>. QED BY <2>3, <2>4, <2>5
<1>4. ASSUME NotifyTask(t)
      PROVE  Entering' = Entering /\ Uncounted' = Uncounted /\ Unfinished' = Unfinished
  <2>1. ppc' = [ppc EXCEPT ![t] = "idle"] /\ job' = job /\ ppc[t] = "notify"
    BY <1>4 DEF NotifyTask
  <2>2. Uncounted' = Uncounted BY <2>1, <1>0 DEF Uncounted, Thread
  <2>3. Entering' = Entering BY <2>1, <1>0 DEF Entering, Thread
  <2>4. Unfinished' = Unfinished BY <2>1 DEF Unfinished
  <2>. QED BY <2>2, <2>3, <2>4
<1>. QED BY <1>1, <1>2, <1>3, <1>4

\* worker: a task moves from the queue to a worker, and is gone when it is
\* counted down.
LEMMA WorkerCounts ==
  ASSUME TypeOK, CountInv, NEW w \in Worker
  PROVE  /\ TakeTask(w) => /\ Cardinality(Unfinished)' = Cardinality(Unfinished) + 1
                           /\ Len(tasks)' = Len(tasks) - 1
         /\ CountDone(w) => Cardinality(Unfinished)' = Cardinality(Unfinished) - 1
<1>0. job \in [Worker -> Nat] /\ tasks \in Seq(Nat) BY DEF TypeOK
<1>1. ASSUME TakeTask(w)
      PROVE  /\ Cardinality(Unfinished)' = Cardinality(Unfinished) + 1
             /\ Len(tasks)' = Len(tasks) - 1
  <2>1. /\ job' = [job EXCEPT ![w] = Head(tasks)] /\ wpc[w] = "lock"
        /\ tasks # <<>> /\ tasks' = Tail(tasks)
    BY <1>1 DEF TakeTask
  <2>2. Head(tasks) # NoTask
    <3>1. 1 \in DOMAIN tasks /\ Head(tasks) = tasks[1] BY <2>1, <1>0
    <3>. QED BY <3>1 DEF CountInv
  <2>3. job[w] = NoTask BY <2>1 DEF CountInv
  <2>4. Unfinished' = Unfinished \cup {w} /\ w \notin Unfinished
    BY <2>1, <2>2, <2>3, <1>0 DEF Unfinished
  <2>5. Cardinality(Unfinished') = Cardinality(Unfinished) + 1
    BY <2>4, CountsAreSmall, FS_AddElement
  <2>6. Len(tasks') = Len(tasks) - 1 BY <2>1, <1>0
  <2>. QED BY <2>5, <2>6
<1>2. ASSUME CountDone(w)
      PROVE  Cardinality(Unfinished)' = Cardinality(Unfinished) - 1
  <2>1. job' = [job EXCEPT ![w] = NoTask] /\ wpc[w] = "count" BY <1>2 DEF CountDone
  <2>2. job[w] # NoTask BY <2>1 DEF CountInv
  <2>3. Unfinished' = Unfinished \ {w} /\ w \in Unfinished
    BY <2>1, <2>2, <1>0 DEF Unfinished
  <2>4. Cardinality(Unfinished') = Cardinality(Unfinished) - 1
    BY <2>3, CountsAreSmall, FS_RemoveElement
  <2>. QED BY <2>4
<1>. QED BY <1>1, <1>2

\* The counter of a pool whose counts did not change.
LEMMA SameCounts ==
  ASSUME CountInv, TotalIsRight, tasks' = tasks, job' = job, ppc' = ppc,
         pushed' = pushed, tasks_total' = tasks_total,
         \A w \in Worker : wpc'[w] \in {"run", "count"} <=> wpc[w] \in {"run", "count"}
  PROVE  CountInv' /\ TotalIsRight'
<1>1. Entering' = Entering /\ Uncounted' = Uncounted /\ Unfinished' = Unfinished
  BY DEF Entering, Uncounted, Unfinished, Thread
<1>. QED BY <1>1 DEF CountInv, TotalIsRight

\* push_task keeps the account: between push and ++ a task is Uncounted.
LEMMA AccountPush ==
  ASSUME TypeOK, CountInv, TotalIsRight, NEW t \in Thread, PushStep(t)
  PROVE  CountInv' /\ TotalIsRight'
<1>. USE CountsAreSmall
<1>0. tasks \in Seq(Nat) /\ pushed \in Nat /\ tasks_total \in Nat /\ Len(tasks) \in Nat
  BY DEF TypeOK
<1>1. CASE EnterPush(t)
  <2>1. /\ tasks' = tasks /\ job' = job /\ wpc' = wpc /\ pushed' = pushed
        /\ tasks_total' = tasks_total /\ pushed + Cardinality(Entering) < MaxTasks
    BY <1>1 DEF EnterPush, workerVars
  <2>2. /\ Cardinality(Entering)' = Cardinality(Entering) + 1
        /\ Uncounted' = Uncounted /\ Unfinished' = Unfinished
    BY <1>1, PushCounts
  <2>3. CountInv' BY <2>1, <2>2, <1>0 DEF CountInv
  <2>. QED BY <2>1, <2>2, <2>3 DEF TotalIsRight
<1>2. CASE AppendTask(t)
  <2>1. /\ pushed' = pushed + 1 /\ tasks' = Append(tasks, pushed')
        /\ job' = job /\ wpc' = wpc /\ tasks_total' = tasks_total
    BY <1>2 DEF AppendTask, workerVars
  <2>2. /\ Cardinality(Entering)' = Cardinality(Entering) - 1
        /\ Cardinality(Uncounted)' = Cardinality(Uncounted) + 1
        /\ Unfinished' = Unfinished
    BY <1>2, PushCounts
  <2>3. Len(tasks)' = Len(tasks) + 1 BY <2>1, <1>0
  <2>4. \A n \in DOMAIN tasks' : tasks'[n] # NoTask
    <3>1. pushed' # NoTask BY <2>1, <1>0 DEF NoTask
    <3>2. \A n \in DOMAIN tasks : tasks[n] # NoTask BY DEF CountInv
    <3>. QED BY <3>1, <3>2, <2>1, <1>0
  <2>5. \A w \in Worker : job'[w] # NoTask <=> wpc'[w] \in {"run", "count"}
    BY <2>1 DEF CountInv
  <2>6. /\ Len(tasks') + Cardinality(Unfinished)' <= pushed'
        /\ pushed' + Cardinality(Entering)' <= MaxTasks
    BY <2>1, <2>2, <2>3, <1>0 DEF CountInv
  <2>7. CountInv' BY <2>4, <2>5, <2>6 DEF CountInv
  <2>8. PICK wrapped \in {0, SizeMax + 1} :
          tasks_total + Cardinality(Uncounted)
            = Len(tasks) + Cardinality(Unfinished) + wrapped
    BY DEF TotalIsRight
  <2>9. tasks_total' + Cardinality(Uncounted)'
          = Len(tasks)' + Cardinality(Unfinished)' + wrapped
    <3>1. /\ Cardinality(Uncounted) \in Nat /\ Cardinality(Unfinished) \in Nat
          /\ wrapped \in Nat
      BY <2>8
    <3>2. /\ tasks_total' = tasks_total
          /\ Cardinality(Unfinished)' = Cardinality(Unfinished)
          /\ Cardinality(Uncounted)' = Cardinality(Uncounted) + 1
          /\ Len(tasks)' = Len(tasks) + 1
      BY <2>1, <2>2, <2>3
    <3>. HIDE CountsAreSmall
    <3>. QED BY <3>1, <3>2, <2>8, <1>0
  <2>. QED BY <2>7, <2>9 DEF TotalIsRight
<1>3. CASE CountTask(t)
  <2>1. /\ tasks' = tasks /\ job' = job /\ wpc' = wpc /\ pushed' = pushed
        /\ tasks_total' = Incremented(tasks_total)
    BY <1>3 DEF CountTask, workerVars
  <2>2. /\ Cardinality(Uncounted)' = Cardinality(Uncounted) - 1
        /\ Entering' = Entering /\ Unfinished' = Unfinished
    BY <1>3, PushCounts
  <2>3. Cardinality(Uncounted)' \in Nat
    <3>1. Uncounted' \in SUBSET Uncounted
      BY <1>3 DEF CountTask, Uncounted, Thread, TypeOK
    <3>2. IsFiniteSet(Uncounted') BY <3>1, FS_Subset
    <3>. QED BY <3>2, FS_CardinalityType
  <2>4. CountInv' BY <2>1, <2>2 DEF CountInv
  <2>5. Len(tasks) + Cardinality(Unfinished) < SizeMax BY <1>0 DEF CountInv
  <2>6. PICK wrapped \in {0, SizeMax + 1} :
          tasks_total + Cardinality(Uncounted)
            = Len(tasks) + Cardinality(Unfinished) + wrapped
    BY DEF TotalIsRight
  <2>7. CASE tasks_total = SizeMax
    <3>1. tasks_total' = 0 BY <2>1, <2>7 DEF Incremented
    <3>2. tasks_total' + Cardinality(Uncounted)'
            = Len(tasks)' + Cardinality(Unfinished)' + 0
      BY <3>1, <2>1, <2>2, <2>3, <2>5, <2>6, <2>7, <1>0
    <3>. QED BY <3>2, <2>4 DEF TotalIsRight
  <2>8. CASE tasks_total # SizeMax
    <3>1. tasks_total' = tasks_total + 1 BY <2>1, <2>8 DEF Incremented
    <3>2. /\ Len(tasks)' = Len(tasks) /\ Cardinality(Unfinished)' = Cardinality(Unfinished)
          /\ wrapped \in Nat
      BY <2>1, <2>2, <1>0
    <3>3. tasks_total' + Cardinality(Uncounted)'
            = Len(tasks)' + Cardinality(Unfinished)' + wrapped
      <4>1. /\ tasks_total \in Nat /\ Len(tasks) \in Nat
            /\ Cardinality(Uncounted) \in Nat /\ Cardinality(Unfinished) \in Nat
        BY <1>0
      <4>. QED BY ONLY <3>1, <3>2, <2>2, <2>6, <4>1
    <3>. QED BY <3>3, <2>4 DEF TotalIsRight
  <2>. QED BY <2>7, <2>8
<1>4. CASE NotifyTask(t)
  <2>1. /\ tasks' = tasks /\ job' = job /\ pushed' = pushed /\ tasks_total' = tasks_total
        /\ Entering' = Entering /\ Uncounted' = Uncounted /\ Unfinished' = Unfinished
    BY <1>4, PushCounts DEF NotifyTask
  <2>2. \A w \in Worker : wpc'[w] \in {"run", "count"} <=> wpc[w] \in {"run", "count"}
    BY <1>4 DEF NotifyTask, Asleep, TypeOK
  <2>. QED BY <2>1, <2>2 DEF CountInv, TotalIsRight
<1>. QED BY <1>1, <1>2, <1>3, <1>4 DEF PushStep

\* The workers keep the account: -- may run ahead of ++, and wraps then.
LEMMA AccountWorker ==
  ASSUME TypeOK, CountInv, TotalIsRight, NEW w \in Worker, WorkerStep(w) \/ WakeUp(w)
  PROVE  CountInv' /\ TotalIsRight'
<1>0. /\ tasks \in Seq(Nat) /\ pushed \in Nat /\ tasks_total \in Nat /\ Len(tasks) \in Nat
      /\ wpc \in [Worker -> WorkerPc] /\ job \in [Worker -> Nat]
      /\ SizeMax \in Nat /\ MaxTasks \in Nat
      /\ Cardinality(Uncounted) \in Nat /\ Cardinality(Unfinished) \in Nat
  BY CountsAreSmall DEF TypeOK
<1>1. CASE TestRunning(w) \/ FindNoTask(w) \/ Sleep(w) \/ LeaveTasks(w)
  <2>1. /\ tasks' = tasks /\ job' = job /\ ppc' = ppc /\ pushed' = pushed
        /\ tasks_total' = tasks_total
    BY <1>1 DEF TestRunning, FindNoTask, Sleep, LeaveTasks
  <2>2. \A v \in Worker : wpc'[v] \in {"run", "count"} <=> wpc[v] \in {"run", "count"}
    BY <1>1, <1>0 DEF TestRunning, FindNoTask, Sleep, LeaveTasks
  <2>. QED BY <2>1, <2>2, SameCounts
<1>2. CASE EndTask(w) \/ WakeUp(w)
  <2>1. /\ tasks' = tasks /\ job' = job /\ ppc' = ppc /\ pushed' = pushed
        /\ tasks_total' = tasks_total
    BY <1>2 DEF EndTask, WakeUp
  <2>2. \A v \in Worker : wpc'[v] \in {"run", "count"} <=> wpc[v] \in {"run", "count"}
    BY <1>2, <1>0 DEF EndTask, WakeUp
  <2>. QED BY <2>1, <2>2, SameCounts
<1>3. CASE TakeTask(w)
  <2>1. /\ job' = [job EXCEPT ![w] = Head(tasks)] /\ tasks # <<>> /\ tasks' = Tail(tasks)
        /\ wpc' = [wpc EXCEPT ![w] = "run"] /\ pushed' = pushed
        /\ tasks_total' = tasks_total /\ ppc' = ppc
    BY <1>3 DEF TakeTask
  <2>2. /\ Cardinality(Unfinished)' = Cardinality(Unfinished) + 1
        /\ Len(tasks)' = Len(tasks) - 1
    BY <1>3, WorkerCounts
  <2>3. Entering' = Entering /\ Uncounted' = Uncounted
    BY <2>1 DEF Entering, Uncounted, Thread
  <2>4. Head(tasks) # NoTask
    <3>1. 1 \in DOMAIN tasks /\ Head(tasks) = tasks[1] BY <2>1, <1>0
    <3>. QED BY <3>1 DEF CountInv
  <2>5. \A n \in DOMAIN tasks' : tasks'[n] # NoTask
    <3>1. ASSUME NEW n \in DOMAIN tasks'
          PROVE  tasks'[n] = tasks[n + 1] /\ n + 1 \in DOMAIN tasks
      BY <2>1, <1>0
    <3>. QED BY <3>1 DEF CountInv
  <2>6. \A v \in Worker : job'[v] # NoTask <=> wpc'[v] \in {"run", "count"}
    BY <2>1, <2>4, <1>0 DEF CountInv
  <2>7. CountInv' BY <2>1, <2>2, <2>3, <2>5, <2>6, <1>0 DEF CountInv
  <2>8. TotalIsRight' BY <2>1, <2>2, <2>3, <1>0 DEF TotalIsRight
  <2>. QED BY <2>7, <2>8
<1>4. CASE CountDone(w)
  <2>1. /\ job' = [job EXCEPT ![w] = NoTask] /\ tasks' = tasks
        /\ wpc' = [wpc EXCEPT ![w] = "loop"] /\ pushed' = pushed
        /\ tasks_total' = Decremented(tasks_total) /\ ppc' = ppc
    BY <1>4 DEF CountDone
  <2>2. Cardinality(Unfinished)' = Cardinality(Unfinished) - 1 BY <1>4, WorkerCounts
  <2>3. Entering' = Entering /\ Uncounted' = Uncounted
    BY <2>1 DEF Entering, Uncounted, Thread
  <2>4. \A v \in Worker : job'[v] # NoTask <=> wpc'[v] \in {"run", "count"}
    BY <2>1, <1>0 DEF CountInv
  <2>5. CountInv' BY <2>1, <2>2, <2>3, <2>4, <1>0 DEF CountInv
  <2>6. Cardinality(Uncounted) < SizeMax BY CountsAreSmall
  <2>7. PICK wrapped \in {0, SizeMax + 1} :
          tasks_total + Cardinality(Uncounted)
            = Len(tasks) + Cardinality(Unfinished) + wrapped
    BY DEF TotalIsRight
  <2>8. CASE tasks_total = 0
    <3>1. tasks_total' = SizeMax BY <2>1, <2>8 DEF Decremented
    <3>2. tasks_total' + Cardinality(Uncounted)'
            = Len(tasks)' + Cardinality(Unfinished)' + (SizeMax + 1)
      BY <3>1, <2>1, <2>2, <2>3, <2>6, <2>7, <2>8, <1>0
    <3>. QED BY <3>2, <2>5 DEF TotalIsRight
  <2>9. CASE tasks_total # 0
    <3>1. tasks_total' = tasks_total - 1 BY <2>1, <2>9 DEF Decremented
    <3>2. /\ Len(tasks)' = Len(tasks) /\ Cardinality(Uncounted)' = Cardinality(Uncounted)
          /\ wrapped \in Nat
      BY <2>1, <2>3, <1>0
    <3>3. tasks_total' + Cardinality(Uncounted)'
            = Len(tasks)' + Cardinality(Unfinished)' + wrapped
      <4>1. /\ tasks_total \in Nat /\ Len(tasks) \in Nat
            /\ Cardinality(Uncounted) \in Nat /\ Cardinality(Unfinished) \in Nat
        BY <1>0
      <4>. QED BY ONLY <3>1, <3>2, <2>2, <2>7, <4>1
    <3>. QED BY <3>3, <2>5 DEF TotalIsRight
  <2>. QED BY <2>8, <2>9
<1>. QED BY <1>1, <1>2, <1>3, <1>4 DEF WorkerStep

\* So do the loader thread and a step that changes nothing.
LEMMA AccountOwner ==
  ASSUME TypeOK, CountInv, TotalIsRight, OwnerStep \/ UNCHANGED vars
  PROVE  CountInv' /\ TotalIsRight'
<1>1. /\ tasks' = tasks /\ job' = job /\ ppc' = ppc /\ pushed' = pushed
      /\ tasks_total' = tasks_total
  BY DEF OwnerStep, ResetPool, SetWaiting, CheckTotal, StopRunning, NotifyAll, JoinAll, vars, workerVars
<1>2. \A w \in Worker : wpc'[w] \in {"run", "count"} <=> wpc[w] \in {"run", "count"}
  BY DEF OwnerStep, ResetPool, SetWaiting, CheckTotal, StopRunning, NotifyAll, JoinAll, vars, workerVars, Asleep
<1>. QED BY <1>1, <1>2, SameCounts

\* A new pool has no tasks and counts none.
LEMMA InitAccount == Init => CountInv /\ TotalIsRight
<1>. SUFFICES ASSUME Init PROVE CountInv /\ TotalIsRight OBVIOUS
<1>1. Entering = {} /\ Uncounted = {} /\ Unfinished = {}
  BY DEF Init, Entering, Uncounted, Unfinished
<1>2. Cardinality({}) = 0 BY FS_EmptySet
<1>3. Len(tasks) = 0 /\ DOMAIN tasks = {} BY DEF Init
<1>4. CountInv BY <1>1, <1>2, <1>3, PoolAssumption DEF CountInv, Init
<1>5. TotalIsRight BY <1>1, <1>2, <1>3 DEF TotalIsRight, Init
<1>. QED BY <1>4, <1>5

\* Every step keeps the account.
LEMMA AccountStep ==
  ASSUME PoolInv, CountInv, TotalIsRight, [Next]_vars
  PROVE  CountInv' /\ TotalIsRight'
<1>. USE DEF PoolInv
<1>1. ASSUME NEW t \in Thread, PushStep(t) PROVE CountInv' /\ TotalIsRight'
  BY <1>1, AccountPush
<1>2. ASSUME NEW w \in Worker, WorkerStep(w) \/ WakeUp(w)
      PROVE  CountInv' /\ TotalIsRight'
  BY <1>2, AccountWorker
<1>3. CASE OwnerStep \/ UNCHANGED vars BY <1>3, AccountOwner
<1>. QED BY <1>1, <1>2, <1>3 DEF Next, Terminated

\* Whatever the order in which pushes are counted and tasks are counted down,
\* and though the counter may wrap below zero: tasks_total stands for the
\* tasks in the queue and with the workers.
THEOREM TotalStaysRight == Spec => []TotalIsRight
<1>1. Init => PoolInv /\ CountInv /\ TotalIsRight BY InitPool, InitAccount
<1>2. PoolInv /\ CountInv /\ TotalIsRight /\ [Next]_vars
        => PoolInv' /\ CountInv' /\ TotalIsRight'
  BY PoolStep, AccountStep
<1>. QED BY <1>1, <1>2, PTL DEF Spec

\* Whatever the order of pushes, wakeups and shutdown: a queued task whose
\* push_task has returned finds a worker that is awake.
THEOREM NoTaskIsLost == Spec => []NoLostTask
<1>1. PoolInv => NoLostTask BY DEF PoolInv
<1>. QED BY <1>1, InitPool, PoolStep, PTL DEF Spec

\* The pool's variables keep their types; its counter wraps as a size_t does.
THEOREM PoolTypes == Spec => []TypeOK
<1>1. PoolInv => TypeOK BY DEF PoolInv
<1>. QED BY <1>1, InitPool, PoolStep, PTL DEF Spec

-----------------------------------------------------------------------------
(* The order.  Tasks leave the queue in the order they came in: the ones    *)
(* taken so far are the first ones, each of them was executed or has a      *)
(* worker of its own, and the queue holds the rest.                         *)

Taken == pushed - Len(tasks)

QueueInv == \A n \in DOMAIN tasks : tasks[n] = Taken + n

TakenInv ==
  /\ done \subseteq 1..Taken
  /\ \A w \in Worker : job[w] \in 0..Taken
  /\ \A k \in 1..Taken : k \in done \/ \E w \in Worker : job[w] = k

JobInv ==
  /\ \A w \in Worker : /\ wpc[w] = "run" => job[w] \notin done
                       /\ wpc[w] = "count" => job[w] \in done
  /\ \A v, w \in Worker : job[v] = job[w] /\ job[v] # NoTask => v = w

OrderInv == QueueInv /\ TakenInv /\ JobInv

\* Who pushes when: a worker only from inside a task, a plugin's thread only
\* while the pool is set; and once wait_for_tasks has returned there is no
\* task in the queue, and none on its way there.
EmptyAgain == {"destroy", "notify", "join", "gone"}

ShutdownInv ==
  /\ \A w \in Worker : ppc[w] # "idle" => wpc[w] = "run"
  /\ owner # "serving" => \A t \in Pusher : ppc[t] = "idle"
  /\ owner \in EmptyAgain => tasks = <<>> /\ Entering = {}
  /\ owner = "gone" => \A w \in Worker : wpc[w] = "ended"

\* How many tasks were taken is a number.
LEMMA TakenType ==
  ASSUME TypeOK, CountInv PROVE Taken \in Nat /\ pushed = Taken + Len(tasks)
<1>1. /\ pushed \in Nat /\ Len(tasks) \in Nat /\ Cardinality(Unfinished) \in Nat
      /\ Len(tasks) + Cardinality(Unfinished) <= pushed
  BY CountsAreSmall DEF TypeOK, CountInv
<1>. QED BY <1>1 DEF Taken

\* A step that moves no task.
LEMMA SameOrder ==
  ASSUME OrderInv, tasks' = tasks, job' = job, done' = done, pushed' = pushed,
         \A w \in Worker : /\ wpc'[w] = "run" <=> wpc[w] = "run"
                           /\ wpc'[w] = "count" <=> wpc[w] = "count"
  PROVE  OrderInv'
<1>1. Taken' = Taken BY DEF Taken
<1>2. QueueInv' /\ TakenInv' BY <1>1 DEF OrderInv, QueueInv, TakenInv
<1>3. JobInv' BY DEF OrderInv, JobInv
<1>. QED BY <1>2, <1>3 DEF OrderInv

\* push: the new task is the last one of the queue.
LEMMA OrderAppend ==
  ASSUME TypeOK, CountInv, OrderInv, NEW t \in Thread, AppendTask(t)
  PROVE  OrderInv'
<1>1. /\ pushed' = pushed + 1 /\ tasks' = Append(tasks, pushed + 1)
      /\ job' = job /\ wpc' = wpc /\ done' = done
  BY DEF AppendTask, workerVars
<1>2. /\ tasks \in Seq(Nat) /\ pushed \in Nat /\ Len(tasks) \in Nat
      /\ DOMAIN tasks = 1..Len(tasks) /\ Taken \in Nat
  BY TakenType DEF TypeOK
<1>3. /\ Len(tasks') = Len(tasks) + 1
      /\ DOMAIN tasks' = 1..(Len(tasks) + 1)
      /\ \A n \in 1..Len(tasks) : tasks'[n] = tasks[n]
      /\ tasks'[Len(tasks) + 1] = pushed + 1
  BY <1>1, <1>2
<1>4. Taken' = Taken BY <1>1, <1>2, <1>3 DEF Taken
<1>5. QueueInv'
  <2>. SUFFICES ASSUME NEW n \in DOMAIN tasks' PROVE tasks'[n] = Taken' + n
    BY DEF QueueInv
  <2>1. CASE n \in 1..Len(tasks)
    BY <2>1, <1>2, <1>3, <1>4 DEF OrderInv, QueueInv
  <2>2. CASE n = Len(tasks) + 1
    BY <2>2, <1>2, <1>3, <1>4 DEF Taken
  <2>. QED BY <2>1, <2>2, <1>2, <1>3
<1>6. TakenInv' /\ JobInv' BY <1>1, <1>4 DEF OrderInv, TakenInv, JobInv
<1>. QED BY <1>5, <1>6 DEF OrderInv

\* The worker that takes the head of the queue takes the next task of all.
LEMMA OrderTake ==
  ASSUME TypeOK, CountInv, OrderInv, NEW w \in Worker, TakeTask(w)
  PROVE  OrderInv' /\ Head(tasks) = Taken + 1 /\ Taken' = Taken + 1 /\ job[w] = NoTask
<1>1. /\ job' = [job EXCEPT ![w] = Head(tasks)] /\ tasks' = Tail(tasks)
      /\ wpc' = [wpc EXCEPT ![w] = "run"] /\ tasks # <<>> /\ wpc[w] = "lock"
      /\ pushed' = pushed /\ done' = done
  BY DEF TakeTask
<1>2. /\ tasks \in Seq(Nat) /\ pushed \in Nat /\ Len(tasks) \in Nat
      /\ DOMAIN tasks = 1..Len(tasks) /\ Taken \in Nat
      /\ job \in [Worker -> Nat] /\ wpc \in [Worker -> WorkerPc]
  BY TakenType DEF TypeOK
<1>3. /\ Len(tasks') = Len(tasks) - 1 /\ Len(tasks) >= 1
      /\ DOMAIN tasks' = 1..(Len(tasks) - 1)
      /\ \A n \in 1..(Len(tasks) - 1) : tasks'[n] = tasks[n + 1]
      /\ Head(tasks) = tasks[1]
  BY <1>1, <1>2
<1>4. Taken' = Taken + 1 BY <1>1, <1>2, <1>3 DEF Taken
<1>5. Head(tasks) = Taken + 1
  <2>1. 1 \in DOMAIN tasks BY <1>2, <1>3
  <2>2. tasks[1] = Taken + 1 BY <2>1 DEF OrderInv, QueueInv
  <2>. QED BY <2>2, <1>3
<1>6. job[w] = NoTask BY <1>1 DEF CountInv
<1>7. QueueInv'
  <2>. SUFFICES ASSUME NEW n \in DOMAIN tasks' PROVE tasks'[n] = Taken' + n
    BY DEF QueueInv
  <2>1. n \in 1..(Len(tasks) - 1) /\ n + 1 \in DOMAIN tasks BY <1>2, <1>3
  <2>2. tasks[n + 1] = Taken + (n + 1) BY <2>1 DEF OrderInv, QueueInv
  <2>. QED BY <2>1, <2>2, <1>2, <1>3, <1>4
<1>8. TakenInv'
  <2>1. done' \subseteq 1..Taken' BY <1>1, <1>2, <1>4 DEF OrderInv, TakenInv
  <2>2. ASSUME NEW v \in Worker PROVE job'[v] \in 0..Taken'
    BY <1>1, <1>2, <1>4, <1>5 DEF OrderInv, TakenInv
  <2>3. ASSUME NEW k \in 1..Taken'
        PROVE  k \in done' \/ \E v \in Worker : job'[v] = k
    <3>1. CASE k = Taken + 1 BY <3>1, <1>1, <1>2, <1>5
    <3>2. CASE k \in 1..Taken
      <4>1. CASE k \in done BY <4>1, <1>1
      <4>2. ASSUME NEW v \in Worker, job[v] = k PROVE job'[v] = k
        BY <4>2, <3>2, <1>1, <1>2, <1>6 DEF NoTask
      <4>. QED BY <4>1, <4>2, <3>2 DEF OrderInv, TakenInv
    <3>. QED BY <3>1, <3>2, <1>2, <1>4
  <2>. QED BY <2>1, <2>2, <2>3 DEF TakenInv
<1>9. JobInv'
  <2>1. Taken + 1 \notin done BY <1>2 DEF OrderInv, TakenInv
  <2>2. \A v \in Worker : job[v] # Taken + 1 BY <1>2 DEF OrderInv, TakenInv
  <2>3. ASSUME NEW v \in Worker
        PROVE  /\ wpc'[v] = "run" => job'[v] \notin done'
               /\ wpc'[v] = "count" => job'[v] \in done'
    BY <2>1, <1>1, <1>2, <1>5 DEF OrderInv, JobInv
  <2>4. ASSUME NEW u \in Worker, NEW v \in Worker, job'[u] = job'[v], job'[u] # NoTask
        PROVE  u = v
    BY <2>2, <2>4, <1>1, <1>2, <1>5 DEF OrderInv, JobInv
  <2>. QED BY <2>3, <2>4 DEF JobInv
<1>. QED BY <1>4, <1>5, <1>6, <1>7, <1>8, <1>9 DEF OrderInv

\* A task ends on the one worker that has it.
LEMMA OrderEnd ==
  ASSUME TypeOK, CountInv, OrderInv, NEW w \in Worker, EndTask(w)
  PROVE  OrderInv' /\ job[w] \in 1..Taken /\ job[w] \notin done
<1>1. /\ done' = done \cup {job[w]} /\ wpc' = [wpc EXCEPT ![w] = "count"]
      /\ wpc[w] = "run" /\ tasks' = tasks /\ job' = job /\ pushed' = pushed
  BY DEF EndTask
<1>2. Taken' = Taken BY <1>1 DEF Taken
<1>3. /\ Taken \in Nat /\ wpc \in [Worker -> WorkerPc] /\ job \in [Worker -> Nat]
  BY TakenType DEF TypeOK
<1>4. job[w] # NoTask BY <1>1 DEF CountInv
<1>5. job[w] \in 1..Taken BY <1>3, <1>4 DEF OrderInv, TakenInv, NoTask
<1>6. job[w] \notin done BY <1>1 DEF OrderInv, JobInv
<1>7. QueueInv' /\ TakenInv' BY <1>1, <1>2, <1>5 DEF OrderInv, QueueInv, TakenInv
<1>8. JobInv'
  <2>1. ASSUME NEW v \in Worker
        PROVE  /\ wpc'[v] = "run" => job'[v] \notin done'
               /\ wpc'[v] = "count" => job'[v] \in done'
    BY <1>1, <1>3, <1>4 DEF OrderInv, JobInv
  <2>. QED BY <2>1, <1>1 DEF OrderInv, JobInv
<1>. QED BY <1>5, <1>6, <1>7, <1>8 DEF OrderInv

\* A task that is counted down is done.
LEMMA OrderDone ==
  ASSUME TypeOK, CountInv, OrderInv, NEW w \in Worker, CountDone(w)
  PROVE  OrderInv' /\ job[w] \in done
<1>1. /\ job' = [job EXCEPT ![w] = NoTask] /\ wpc' = [wpc EXCEPT ![w] = "loop"]
      /\ wpc[w] = "count" /\ tasks' = tasks /\ done' = done /\ pushed' = pushed
  BY DEF CountDone
<1>2. Taken' = Taken BY <1>1 DEF Taken
<1>3. wpc \in [Worker -> WorkerPc] /\ job \in [Worker -> Nat] /\ Taken \in Nat
  BY TakenType DEF TypeOK
<1>4. job[w] \in done BY <1>1 DEF OrderInv, JobInv
<1>5. QueueInv' BY <1>1, <1>2 DEF OrderInv, QueueInv
<1>6. TakenInv'
  <2>1. ASSUME NEW v \in Worker PROVE job'[v] \in 0..Taken'
    <3>1. job[v] \in 0..Taken BY DEF OrderInv, TakenInv
    <3>2. 0 \in 0..Taken BY <1>3
    <3>. QED BY <3>1, <3>2, <1>1, <1>2, <1>3 DEF NoTask
  <2>2. ASSUME NEW k \in 1..Taken PROVE k \in done \/ \E v \in Worker : job'[v] = k
    <3>1. CASE k \in done BY <3>1
    <3>2. ASSUME k \notin done, NEW v \in Worker, job[v] = k PROVE job'[v] = k
      BY <3>2, <1>1, <1>3, <1>4
    <3>. QED BY <3>1, <3>2 DEF OrderInv, TakenInv
  <2>. QED BY <2>1, <2>2, <1>1, <1>2 DEF OrderInv, TakenInv
<1>7. JobInv'
  <2>1. ASSUME NEW v \in Worker
        PROVE  /\ wpc'[v] = "run" => job'[v] \notin done'
               /\ wpc'[v] = "count" => job'[v] \in done'
    BY <1>1, <1>3 DEF OrderInv, JobInv
  <2>2. ASSUME NEW u \in Worker, NEW v \in Worker, job'[u] = job'[v], job'[u] # NoTask
        PROVE  u = v
    BY <2>2, <1>1, <1>3 DEF OrderInv, JobInv
  <2>. QED BY <2>1, <2>2 DEF JobInv
<1>. QED BY <1>4, <1>5, <1>6, <1>7 DEF OrderInv

\* Every step keeps the order.
LEMMA OrderStep == ASSUME TypeOK, CountInv, OrderInv, [Next]_vars PROVE OrderInv'
<1>0. wpc \in [Worker -> WorkerPc] BY DEF TypeOK
<1>1. ASSUME NEW t \in Thread, PushStep(t) PROVE OrderInv'
  <2>1. CASE EnterPush(t) \/ CountTask(t)
    BY <2>1, SameOrder DEF EnterPush, CountTask, workerVars
  <2>2. CASE AppendTask(t) BY <2>2, OrderAppend
  <2>3. CASE NotifyTask(t)
    <3>1. \A w \in Worker : /\ wpc'[w] = "run" <=> wpc[w] = "run"
                            /\ wpc'[w] = "count" <=> wpc[w] = "count"
      BY <2>3, <1>0 DEF NotifyTask, Asleep
    <3>. QED BY <2>3, <3>1, SameOrder DEF NotifyTask
  <2>. QED BY <1>1, <2>1, <2>2, <2>3 DEF PushStep
<1>2. ASSUME NEW w \in Worker, WorkerStep(w) \/ WakeUp(w) PROVE OrderInv'
  <2>1. CASE TestRunning(w) \/ FindNoTask(w) \/ Sleep(w) \/ LeaveTasks(w) \/ WakeUp(w)
    <3>1. \A v \in Worker : /\ wpc'[v] = "run" <=> wpc[v] = "run"
                            /\ wpc'[v] = "count" <=> wpc[v] = "count"
      BY <2>1, <1>0 DEF TestRunning, FindNoTask, Sleep, LeaveTasks, WakeUp
    <3>2. tasks' = tasks /\ job' = job /\ done' = done /\ pushed' = pushed
      BY <2>1 DEF TestRunning, FindNoTask, Sleep, LeaveTasks, WakeUp
    <3>. QED BY <3>1, <3>2, SameOrder
  <2>2. CASE TakeTask(w) BY <2>2, OrderTake
  <2>3. CASE EndTask(w) BY <2>3, OrderEnd
  <2>4. CASE CountDone(w) BY <2>4, OrderDone
  <2>. QED BY <1>2, <2>1, <2>2, <2>3, <2>4 DEF WorkerStep
<1>3. CASE OwnerStep \/ UNCHANGED vars
  <2>1. tasks' = tasks /\ job' = job /\ done' = done /\ pushed' = pushed
    BY <1>3 DEF OwnerStep, ResetPool, SetWaiting, CheckTotal, StopRunning, NotifyAll,
                JoinAll, vars, workerVars
  <2>2. \A w \in Worker : /\ wpc'[w] = "run" <=> wpc[w] = "run"
                          /\ wpc'[w] = "count" <=> wpc[w] = "count"
    BY <1>3 DEF OwnerStep, ResetPool, SetWaiting, CheckTotal, StopRunning, NotifyAll,
                JoinAll, vars, workerVars, Asleep
  <2>. QED BY <2>1, <2>2, SameOrder
<1>. QED BY <1>1, <1>2, <1>3 DEF Next, Terminated

\* A zero read by wait_for_tasks may hide tasks whose push is not counted, but
\* then every worker with such a push is past it: the queue is empty.
LEMMA ZeroMeansEmpty ==
  ASSUME TypeOK, CountInv, TotalIsRight, ShutdownInv, owner = "check", tasks_total = 0
  PROVE  tasks = <<>> /\ Entering = {}
<1>1. /\ IsFiniteSet(Unfinished) /\ Cardinality(Unfinished) \in Nat
      /\ Cardinality(Uncounted) \in Nat /\ SizeMax \in Nat
      /\ MaxTasks \in Nat /\ MaxTasks + Cardinality(Uncounted) < SizeMax
  BY CountsAreSmall
<1>2. tasks \in Seq(Nat) /\ Len(tasks) \in Nat BY DEF TypeOK
<1>3. PICK wrapped \in {0, SizeMax + 1} :
        tasks_total + Cardinality(Uncounted)
          = Len(tasks) + Cardinality(Unfinished) + wrapped
  BY DEF TotalIsRight
<1>4. Cardinality(Uncounted) = Len(tasks) + Cardinality(Unfinished)
  BY <1>1, <1>2, <1>3
<1>5. \A t \in Thread : ppc[t] # "idle" => t \in Unfinished /\ t \in Worker
  BY DEF ShutdownInv, CountInv, Unfinished, Thread
<1>6. Uncounted \in SUBSET Unfinished BY <1>5 DEF Uncounted
<1>7. Cardinality(Uncounted) <= Cardinality(Unfinished) BY <1>1, <1>6, FS_Subset
<1>8. Len(tasks) = 0 /\ Cardinality(Uncounted) = Cardinality(Unfinished)
  BY <1>1, <1>2, <1>4, <1>7
<1>9. Uncounted = Unfinished BY <1>1, <1>6, <1>8, FS_Subset
<1>10. Entering = {} BY <1>5, <1>9 DEF Entering, Uncounted
<1>. QED BY <1>2, <1>8, <1>10

\* Every step keeps to who pushes when.
LEMMA ShutdownStep ==
  ASSUME TypeOK, CountInv, TotalIsRight, ShutdownInv, [Next]_vars
  PROVE  ShutdownInv'
<1>0. /\ wpc \in [Worker -> WorkerPc] /\ ppc \in [Thread -> PushPc]
      /\ Worker \cap Pusher = {}
  BY PoolAssumption DEF TypeOK
<1>. USE DEF ShutdownInv, EmptyAgain, Entering, Thread
<1>1. ASSUME NEW t \in Thread, PushStep(t) PROVE ShutdownInv'
  <2>1. CASE EnterPush(t)
    BY <2>1, <1>0 DEF EnterPush, PoolIsSet, workerVars, ownerVars
  <2>2. CASE AppendTask(t) BY <2>2, <1>0 DEF AppendTask, workerVars, ownerVars
  <2>3. CASE CountTask(t) BY <2>3, <1>0 DEF CountTask, workerVars, ownerVars
  <2>4. CASE NotifyTask(t) BY <2>4, <1>0 DEF NotifyTask, ownerVars, Asleep
  <2>. QED BY <1>1, <2>1, <2>2, <2>3, <2>4 DEF PushStep
<1>2. ASSUME NEW w \in Worker, WorkerStep(w) \/ WakeUp(w) PROVE ShutdownInv'
  <2>1. CASE TestRunning(w) BY <2>1, <1>0 DEF TestRunning, ownerVars
  <2>2. CASE FindNoTask(w) BY <2>2, <1>0 DEF FindNoTask, ownerVars
  <2>3. CASE Sleep(w) BY <2>3, <1>0 DEF Sleep, ownerVars
  <2>4. CASE TakeTask(w) BY <2>4, <1>0 DEF TakeTask, ownerVars
  <2>5. CASE LeaveTasks(w) BY <2>5, <1>0 DEF LeaveTasks, ownerVars
  <2>6. CASE EndTask(w) BY <2>6, <1>0 DEF EndTask, ownerVars
  <2>7. CASE CountDone(w) BY <2>7, <1>0 DEF CountDone
  <2>8. CASE WakeUp(w) BY <2>8, <1>0 DEF WakeUp, ownerVars
  <2>. QED BY <1>2, <2>1, <2>2, <2>3, <2>4, <2>5, <2>6, <2>7, <2>8 DEF WorkerStep
<1>3. CASE OwnerStep
  <2>1. CASE ResetPool \/ SetWaiting
    BY <2>1 DEF ResetPool, SetWaiting, workerVars
  <2>2. CASE CheckTotal BY <2>2, ZeroMeansEmpty DEF CheckTotal, workerVars
  <2>3. CASE StopRunning BY <2>3 DEF StopRunning, workerVars
  <2>4. CASE NotifyAll BY <2>4, <1>0 DEF NotifyAll, Asleep
  <2>5. CASE JoinAll BY <2>5 DEF JoinAll, workerVars
  <2>. QED BY <1>3, <2>1, <2>2, <2>3, <2>4, <2>5 DEF OwnerStep
<1>4. CASE UNCHANGED vars BY <1>4 DEF vars, workerVars, ownerVars
<1>. QED BY <1>1, <1>2, <1>3, <1>4 DEF Next, Terminated

FullInv == PoolInv /\ CountInv /\ TotalIsRight /\ OrderInv /\ ShutdownInv

\* The invariant of the pool, all parts together.
LEMMA FullInvariant == Spec => []FullInv
<1>1. Init => FullInv
  <2>. SUFFICES ASSUME Init PROVE OrderInv /\ ShutdownInv
    BY InitPool, InitAccount DEF FullInv
  <2>1. Taken = 0 /\ DOMAIN tasks = {}
    <3>1. Len(<<>>) = 0 /\ DOMAIN <<>> = {} OBVIOUS
    <3>2. Len(tasks) = 0 /\ DOMAIN tasks = {} /\ pushed = 0 BY <3>1, Zenon DEF Init
    <3>. QED BY <3>2 DEF Taken
  <2>2. OrderInv BY <2>1 DEF Init, OrderInv, QueueInv, TakenInv, JobInv, NoTask
  <2>3. ShutdownInv BY DEF Init, ShutdownInv, EmptyAgain, Thread
  <2>. QED BY <2>2, <2>3
<1>2. FullInv /\ [Next]_vars => FullInv'
  BY PoolStep, AccountStep, OrderStep, ShutdownStep DEF FullInv, PoolInv
<1>. QED BY <1>1, <1>2, PTL DEF Spec

\* ~thread_pool: wait_for_tasks may have returned early, and a worker that
\* sees the pool stop leaves the queue alone, and yet no pushed task is left.
THEOREM NothingIsLeftBehind == Spec => []NothingLeftBehind
<1>1. FullInv => NothingLeftBehind
  <2>. SUFFICES ASSUME FullInv, owner = "gone" PROVE tasks = <<>> /\ done = 1..pushed
    BY DEF NothingLeftBehind
  <2>1. tasks = <<>> /\ \A w \in Worker : wpc[w] = "ended"
    BY DEF FullInv, ShutdownInv, EmptyAgain
  <2>2. \A w \in Worker : job[w] = NoTask BY <2>1 DEF FullInv, CountInv
  <2>3. Taken = pushed BY <2>1 DEF Taken, FullInv, PoolInv, TypeOK
  <2>4. \A k \in 1..Taken : k \in done
    BY <2>2 DEF FullInv, OrderInv, TakenInv, NoTask
  <2>. QED BY <2>1, <2>3, <2>4 DEF FullInv, OrderInv, TakenInv
<1>. QED BY <1>1, FullInvariant, PTL

-----------------------------------------------------------------------------
(* The pool implements TaskExecution.                                      *)

\* What the status of a task says of the pool.
StatusIs(k) ==
  /\ status[k] = "done" <=> k \in done
  /\ status[k] = "running" <=> k \notin done /\ \E w \in Worker : job[w] = k
  /\ status[k] = "queued"
       <=> k \notin done /\ (\A w \in Worker : job[w] # k) /\ k <= pushed
  /\ status[k] = "absent"
       <=> k \notin done /\ (\A w \in Worker : job[w] # k) /\ ~(k <= pushed)

LEMMA StatusCases ==
  /\ status \in [TaskId -> {"absent", "queued", "running", "done"}]
  /\ \A k \in TaskId : StatusIs(k)
<1>1. ASSUME NEW k \in TaskId
      PROVE  StatusIs(k) /\ status[k] \in {"absent", "queued", "running", "done"}
  <2>1. CASE k \in done BY <2>1 DEF status, StatusIs
  <2>2. CASE k \notin done /\ \E w \in Worker : job[w] = k BY <2>2 DEF status, StatusIs
  <2>3. CASE k \notin done /\ (\A w \in Worker : job[w] # k) /\ k <= pushed
    BY <2>3 DEF status, StatusIs
  <2>4. CASE k \notin done /\ (\A w \in Worker : job[w] # k) /\ ~(k <= pushed)
    BY <2>4 DEF status, StatusIs
  <2>. QED BY <2>1, <2>2, <2>3, <2>4
<1>2. status = [k \in TaskId |-> status[k]] BY DEF status
<1>. QED BY <1>1, <1>2

\* The same in the state after a step.
LEMMA StatusCasesNext ==
  /\ status' \in [TaskId -> {"absent", "queued", "running", "done"}]
  /\ \A k \in TaskId : StatusIs(k)'
<1>. DEFINE P == /\ status \in [TaskId -> {"absent", "queued", "running", "done"}]
                /\ \A k \in TaskId : StatusIs(k)
<1>1. P BY StatusCases
<1>2. P' BY <1>1, PTL
<1>. QED BY <1>2

\* The instance counts as the pool does.
LEMMA SameCardinality == \A S : Execution!Cardinality(S) = Cardinality(S)
BY DEF Execution!Cardinality, Cardinality

\* A step that changes the status of one task.
LEMMA OneMoves ==
  ASSUME NEW k \in TaskId, NEW from, NEW to, status[k] = from, status'[k] = to,
         \A j \in TaskId \ {k} : status'[j] = status[j]
  PROVE  Execution!Move(k, from, to)
<1>1. status' = [status EXCEPT ![k] = to] BY StatusCases, StatusCasesNext
<1>. QED BY <1>1 DEF Execution!Move

\* A step that changes the status of no task.
LEMMA NoneMoves ==
  ASSUME done' = done, job' = job, pushed' = pushed PROVE status' = status
BY DEF status

\* push puts the next task into the queue.
LEMMA AppendPushes ==
  ASSUME FullInv, NEW t \in Thread, AppendTask(t) PROVE Execution!Next
<1>. DEFINE k == pushed + 1
<1>1. /\ pushed' = k /\ job' = job /\ done' = done /\ pushed \in Nat
  BY DEF AppendTask, workerVars, FullInv, PoolInv, TypeOK
<1>2. k \in TaskId
  <2>1. t \in Entering BY DEF AppendTask, Entering
  <2>2. Cardinality(Entering) \in Nat /\ Cardinality(Entering) # 0
    BY <2>1, CountsAreSmall, FS_EmptySet
  <2>3. pushed + Cardinality(Entering) <= MaxTasks BY DEF FullInv, CountInv
  <2>. QED BY <2>2, <2>3, <1>1, CountsAreSmall DEF TaskId
<1>3. Taken \in Nat /\ Taken <= pushed
  <2>1. Len(tasks) \in Nat BY DEF FullInv, PoolInv, TypeOK
  <2>. QED BY <2>1, TakenType, <1>1 DEF FullInv, PoolInv
<1>4. k \notin done /\ \A w \in Worker : job[w] # k
  BY <1>1, <1>3 DEF FullInv, OrderInv, TakenInv
<1>5. TaskId \subseteq Nat BY DEF TaskId
<1>. HIDE DEF k
<1>6. status[k] = "absent" /\ status'[k] = "queued"
  <2>1. ~(k <= pushed) /\ k <= pushed' BY <1>1 DEF k
  <2>. QED BY <1>1, <1>2, <1>4, <2>1, StatusCases, StatusCasesNext DEF StatusIs
<1>7. ASSUME NEW j \in TaskId \ {k} PROVE status'[j] = status[j]
  <2>1. j <= pushed' <=> j <= pushed BY <1>1, <1>5 DEF k
  <2>. QED BY <1>1, <2>1 DEF status
<1>8. ASSUME NEW j \in TaskId, j < k PROVE status[j] # "absent"
  <2>1. j <= pushed BY <1>8, <1>1, <1>5 DEF k
  <2>. QED BY <2>1, StatusCases DEF StatusIs
<1>9. Execution!Move(k, "absent", "queued") BY <1>2, <1>6, <1>7, OneMoves
<1>. QED BY <1>2, <1>8, <1>9 DEF Execution!Next, Execution!Push

\* A worker without a task leaves room for one more that is running.
LEMMA RoomForOne ==
  ASSUME FullInv, NEW w \in Worker, job[w] = NoTask
  PROVE  Cardinality({j \in TaskId : status[j] = "running"}) < Cardinality(Worker)
<1>. DEFINE R == {j \in TaskId : status[j] = "running"}
            V == Worker \ {w}
<1>1. /\ IsFiniteSet(Worker) /\ IsFiniteSet(V)
      /\ Cardinality(V) = Cardinality(Worker) - 1
      /\ Cardinality(Worker) \in Nat
  BY PoolAssumption, FS_RemoveElement, FS_CardinalityType
<1>2. {job[v] : v \in V} = {job[v] : v \in V} OBVIOUS
<1>3. IsFiniteSet({job[v] : v \in V}) /\ Cardinality({job[v] : v \in V}) <= Cardinality(V)
  <2>. DEFINE g == [v \in V |-> job[v]]
              I == {job[v] : v \in V}
  <2>1. g \in Surjection(V, I) BY DEF Surjection
  <2>. QED BY <2>1, <1>1, FS_Surjection
<1>4. R \in SUBSET {job[v] : v \in V}
  <2>. SUFFICES ASSUME NEW j \in R PROVE \E v \in V : j = job[v] OBVIOUS
  <2>1. PICK v \in Worker : job[v] = j BY StatusCases DEF StatusIs
  <2>2. j # NoTask BY DEF TaskId, NoTask
  <2>. QED BY <2>1, <2>2
<1>5. Cardinality(R) <= Cardinality({job[v] : v \in V}) /\ IsFiniteSet(R)
  BY <1>3, <1>4, FS_Subset
<1>6. /\ Cardinality(R) \in Nat /\ Cardinality(V) \in Nat
      /\ Cardinality({job[v] : v \in V}) \in Nat
  BY <1>1, <1>3, <1>5, FS_CardinalityType
<1>. QED BY <1>1, <1>3, <1>5, <1>6

\* TakeTask starts the first task that is not started.
LEMMA TakeStarts ==
  ASSUME FullInv, NEW w \in Worker, TakeTask(w) PROVE Execution!Next
<1>. DEFINE k == Taken + 1
<1>1. job' = [job EXCEPT ![w] = k] /\ done' = done /\ pushed' = pushed /\ job[w] = NoTask
  BY OrderTake DEF TakeTask, FullInv, PoolInv
<1>2. /\ Taken \in Nat /\ job \in [Worker -> Nat]
      /\ k <= pushed /\ pushed <= MaxTasks /\ pushed \in Nat
  <2>1. Len(tasks) \in Nat /\ Len(tasks) # 0 /\ pushed \in Nat
    BY DEF FullInv, PoolInv, TypeOK, TakeTask
  <2>2. Cardinality(Entering) \in Nat /\ pushed + Cardinality(Entering) <= MaxTasks
    BY CountsAreSmall DEF FullInv, CountInv
  <2>3. Taken \in Nat /\ pushed = Taken + Len(tasks)
    BY TakenType DEF FullInv, PoolInv
  <2>. QED BY <2>1, <2>2, <2>3, CountsAreSmall DEF FullInv, PoolInv, TypeOK
<1>3. k \in TaskId BY <1>2, CountsAreSmall DEF TaskId
<1>4. k \notin done /\ \A v \in Worker : job[v] # k
  BY <1>2 DEF FullInv, OrderInv, TakenInv
<1>5. TaskId \subseteq Nat BY DEF TaskId
<1>6. ASSUME NEW j \in TaskId, j < k PROVE status[j] # "queued"
  <2>1. j \in 1..Taken BY <1>6, <1>2 DEF TaskId
  <2>2. j \in done \/ \E v \in Worker : job[v] = j BY <2>1 DEF FullInv, OrderInv, TakenInv
  <2>. QED BY <2>2, StatusCases DEF StatusIs
<1>. HIDE DEF k
<1>7. status[k] = "queued" /\ status'[k] = "running"
  <2>1. job'[w] = k BY <1>1, <1>2
  <2>. QED BY <1>1, <1>2, <1>3, <1>4, <2>1, StatusCases, StatusCasesNext DEF StatusIs
<1>8. ASSUME NEW j \in TaskId \ {k} PROVE status'[j] = status[j]
  <2>1. j # NoTask BY DEF TaskId, NoTask
  <2>2. \A v \in Worker : job'[v] = j <=> job[v] = j BY <1>1, <1>2, <2>1
  <2>. QED BY <1>1, <2>2 DEF status
<1>9. Execution!Move(k, "queued", "running") BY <1>3, <1>7, <1>8, OneMoves
<1>10. Execution!Cardinality({j \in TaskId : status[j] = "running"}) < Cardinality(Worker)
  BY <1>1, RoomForOne, SameCardinality
<1>. QED BY <1>3, <1>6, <1>9, <1>10 DEF Execution!Next, Execution!Start

\* The task that returns is the one the worker had, once.
LEMMA EndFinishes ==
  ASSUME FullInv, NEW w \in Worker, EndTask(w) PROVE Execution!Next
<1>. DEFINE k == job[w]
<1>1. /\ done' = done \cup {k} /\ job' = job /\ pushed' = pushed BY DEF EndTask
<1>2. k \in 1..Taken /\ k \notin done BY OrderEnd DEF FullInv, PoolInv
<1>3. k \in TaskId
  <2>1. Len(tasks) \in Nat /\ pushed \in Nat BY DEF FullInv, PoolInv, TypeOK
  <2>2. Cardinality(Entering) \in Nat /\ pushed + Cardinality(Entering) <= MaxTasks
    BY CountsAreSmall DEF FullInv, CountInv
  <2>3. Taken \in Nat /\ pushed = Taken + Len(tasks)
    BY TakenType DEF FullInv, PoolInv
  <2>. QED BY <1>2, <2>1, <2>2, <2>3, CountsAreSmall DEF TaskId
<1>4. status[k] = "running" BY <1>2, <1>3, StatusCases DEF StatusIs
<1>5. status'[k] = "done" BY <1>1, <1>3, StatusCasesNext DEF StatusIs
<1>. HIDE DEF k
<1>6. ASSUME NEW j \in TaskId \ {k} PROVE status'[j] = status[j]
  BY <1>1 DEF status
<1>7. Execution!Move(k, "running", "done") BY <1>3, <1>4, <1>5, <1>6, OneMoves
<1>. QED BY <1>3, <1>7 DEF Execution!Next, Execution!Finish

\* Counting a task down changes the status of none: it is done already.
LEMMA DoneStays ==
  ASSUME FullInv, NEW w \in Worker, CountDone(w) PROVE status' = status
<1>1. /\ job' = [job EXCEPT ![w] = NoTask] /\ done' = done /\ pushed' = pushed
      /\ job \in [Worker -> Nat]
  BY DEF CountDone, FullInv, PoolInv, TypeOK
<1>2. job[w] \in done BY OrderDone DEF FullInv, PoolInv
<1>3. ASSUME NEW j \in TaskId PROVE status'[j] = status[j]
  <2>1. CASE j \in done BY <2>1, <1>1, StatusCases, StatusCasesNext DEF StatusIs
  <2>2. CASE j \notin done
    <3>1. j # NoTask BY DEF TaskId, NoTask
    <3>2. \A v \in Worker : job'[v] = j <=> job[v] = j BY <1>1, <1>2, <2>2, <3>1
    <3>. QED BY <1>1, <3>2 DEF status
  <2>. QED BY <2>1, <2>2
<1>. QED BY <1>3, StatusCases, StatusCasesNext

\* The pool implements TaskExecution: pushed tasks are started in the order of
\* the pushes, each by one worker and no more at a time than there are workers,
\* and executed once; whatever the threads do in between.
THEOREM PoolExecutesTasks == Spec => ExecutionSpec
<1>1. Init => Execution!Init
  <2>. SUFFICES ASSUME Init PROVE Execution!Init OBVIOUS
  <2>1. ASSUME NEW k \in TaskId PROVE status[k] = "absent"
    <3>1. k \notin done /\ (\A w \in Worker : job[w] # k) /\ ~(k <= pushed)
      BY DEF Init, TaskId, NoTask
    <3>. QED BY <3>1, StatusCases DEF StatusIs
  <2>. QED BY <2>1, StatusCases DEF Execution!Init
<1>2. FullInv /\ [Next]_vars => [Execution!Next]_status
  <2>. SUFFICES ASSUME FullInv, [Next]_vars
                PROVE  Execution!Next \/ status' = status
    OBVIOUS
  <2>1. ASSUME NEW t \in Thread, PushStep(t) PROVE Execution!Next \/ status' = status
    <3>1. CASE AppendTask(t) BY <3>1, AppendPushes
    <3>2. CASE EnterPush(t) \/ CountTask(t) \/ NotifyTask(t)
      BY <3>2, NoneMoves DEF EnterPush, CountTask, NotifyTask, workerVars
    <3>. QED BY <2>1, <3>1, <3>2 DEF PushStep
  <2>2. ASSUME NEW w \in Worker, WorkerStep(w) \/ WakeUp(w)
        PROVE  Execution!Next \/ status' = status
    <3>1. CASE TakeTask(w) BY <3>1, TakeStarts
    <3>2. CASE EndTask(w) BY <3>2, EndFinishes
    <3>3. CASE CountDone(w) BY <3>3, DoneStays
    <3>4. CASE TestRunning(w) \/ FindNoTask(w) \/ Sleep(w) \/ LeaveTasks(w) \/ WakeUp(w)
      BY <3>4, NoneMoves DEF TestRunning, FindNoTask, Sleep, LeaveTasks, WakeUp
    <3>. QED BY <2>2, <3>1, <3>2, <3>3, <3>4 DEF WorkerStep
  <2>3. CASE OwnerStep \/ UNCHANGED vars
    BY <2>3, NoneMoves DEF OwnerStep, ResetPool, SetWaiting, CheckTotal, StopRunning,
                           NotifyAll, JoinAll, vars, workerVars
  <2>. QED BY <2>1, <2>2, <2>3 DEF Next, Terminated
<1>. QED BY <1>1, <1>2, FullInvariant, PTL DEF Spec, ExecutionSpec, Execution!Spec
=============================================================================
