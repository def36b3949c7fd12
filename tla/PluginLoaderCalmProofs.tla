------------------------ MODULE PluginLoaderCalmProofs ------------------------
(***************************************************************************)
(* The calm case of PluginLoader.  First the order of a worker's jobs, for *)
(* which no job may throw or outlast its join; then CalmInv, for which no  *)
(* listed plugin may be loaded again either.  With them the whole of IInv  *)
(* is inductive: plugin code runs only from a mapped library, the loader   *)
(* exits clean, and every plugin sees the lifecycle it was promised.       *)
(***************************************************************************)
EXTENDS PluginLoaderProofs

USE DEF NoLib, NoThread

-----------------------------------------------------------------------------
(* The order of a worker's jobs, when no job throws or is given up.        *)

\* give_job: the new job is the last one.
LEMMA JobAppended ==
  ASSUME NEW q \in Seq(Job), NEW job \in Job
  PROVE  /\ Append(q, job) # <<>> /\ Len(Append(q, job)) = Len(q) + 1
         /\ Len(q) + 1 \in DOMAIN Append(q, job) /\ Append(q, job)[Len(q) + 1] = job
         /\ \A i \in DOMAIN q : i \in DOMAIN Append(q, job) /\ Append(q, job)[i] = q[i]
         /\ \A i \in DOMAIN Append(q, job) :
              \/ i \in DOMAIN q /\ Append(q, job)[i] = q[i]
              \/ i = Len(q) + 1 /\ i \notin DOMAIN q /\ Append(q, job)[i] = job
  <1>1. /\ DOMAIN q = 1..Len(q) /\ Len(q) \in Nat
        /\ DOMAIN Append(q, job) = 1..(Len(q) + 1)
    OBVIOUS
  <1>2. Append(q, job) # <<>> /\ Len(Append(q, job)) = Len(q) + 1
    <2>1. Len(Append(q, job)) = Len(q) + 1
      OBVIOUS
    <2>2. Len(q) + 1 # Len(<<>>)
      BY <1>1
    <2> QED
      BY <2>1, <2>2
  <1>3. ASSUME NEW i \in DOMAIN q PROVE Append(q, job)[i] = q[i]
    <2>1. i \in 1..Len(q)
      BY <1>1, <1>3
    <2> QED
      BY <2>1
  <1>4. Append(q, job)[Len(q) + 1] = job
    OBVIOUS
  <1>5. ASSUME NEW i \in DOMAIN Append(q, job)
        PROVE  \/ i \in DOMAIN q /\ Append(q, job)[i] = q[i]
               \/ i = Len(q) + 1 /\ i \notin DOMAIN q /\ Append(q, job)[i] = job
    <2>1. CASE i = Len(q) + 1
      BY <1>1, <1>4, <2>1
    <2>2. CASE i # Len(q) + 1
      <3>1. i \in 1..Len(q)
        BY ONLY <1>1, <1>5, <2>2
      <3> QED
        BY <1>1, <1>3, <3>1
    <2> QED
      BY <2>1, <2>2
  <1>6. Len(q) + 1 \in DOMAIN Append(q, job)
    BY <1>1
  <1>7. \A i \in DOMAIN q : i \in DOMAIN Append(q, job)
    BY <1>1
  <1> QED
    BY <1>1, <1>2, <1>3, <1>4, <1>5, <1>6, <1>7

\* The loop of run() takes the first job; the others move up by one.
LEMMA JobPopped ==
  ASSUME NEW q \in Seq(Job), q # <<>>
  PROVE  /\ 1 \in DOMAIN q /\ Head(q) = q[1] /\ Head(q) \in Job
         /\ Len(q) = 1 => Tail(q) = <<>>
         /\ \A i \in DOMAIN Tail(q) : /\ i + 1 \in DOMAIN q /\ i + 1 # 1 /\ Tail(q)[i] = q[i + 1]
                                      /\ i + 1 = Len(q) => i = Len(Tail(q))
         /\ \A i \in DOMAIN q : i # 1 => i - 1 \in DOMAIN Tail(q) /\ Tail(q)[i - 1] = q[i]
  <1>1. /\ DOMAIN q = 1..Len(q) /\ Len(q) \in Nat /\ Len(q) >= 1
        /\ DOMAIN Tail(q) = 1..(Len(q) - 1) /\ Len(Tail(q)) = Len(q) - 1
    OBVIOUS
  <1>2. 1 \in DOMAIN q /\ Head(q) = q[1] /\ Head(q) \in Job
    BY <1>1
  <1>3. Len(q) = 1 => Tail(q) = <<>>
    BY <1>1
  <1>4. \A i \in DOMAIN Tail(q) : /\ i + 1 \in DOMAIN q /\ i + 1 # 1 /\ Tail(q)[i] = q[i + 1]
                                  /\ i + 1 = Len(q) => i = Len(Tail(q))
    BY <1>1
  <1>5. \A i \in DOMAIN q : i # 1 => i - 1 \in DOMAIN Tail(q) /\ Tail(q)[i - 1] = q[i]
    BY <1>1
  <1> QED
    BY <1>2, <1>3, <1>4, <1>5

\* A worker that takes no part in a step.
LEMMA JobOrderKept ==
  ASSUME NEW t \in Thread, JobOrder(t), exit'[t] => exit[t] \/ ExitComes(t),
         job_queue'[t] = job_queue[t], pc'[t] = pc[t], running'[t] = running[t], life'[t] = life[t]
  PROVE  JobOrder(t)' /\ (ExitComes(t)' <=> ExitComes(t))
  <1>1. /\ \A kind \in JobKind : (HasJob(t, kind)' <=> HasJob(t, kind)) /\ (Runs(t, kind)' <=> Runs(t, kind))
        /\ ExitComes(t)' <=> ExitComes(t)
    BY DEF HasJob, Runs, Executing, ExitComes
  <1> QED
    BY <1>1 DEF JobOrder, JobKind

\* A step of the loader that touches no worker.
LEMMA OrderKept ==
  ASSUME OrderInv, UNCHANGED workerVars,
         (lpc \notin {"end", "join"} /\ lpc' # "end") \/ UNCHANGED <<lpc, target>>
  PROVE  OrderInv'
  BY DEF OrderInv, JobOrder, HasJob, Runs, Executing, ExitComes, workerVars

\* A step that leaves the loader where it is and gives no exit job.
LEMMA OrderOfWorkers ==
  ASSUME OrderInv, UNCHANGED <<freed, thread_memory, lpc, target>>,
         \A u \in Thread : JobOrder(u)' /\ (ExitComes(u)' <=> ExitComes(u)),
         \A u \in freed : pc'[u] = pc[u] /\ life'[u] = life[u],
         lpc = "end" => thread_memory[target] \in Thread
  PROVE  OrderInv'
  BY DEF OrderInv

\* The worker takes a job: an entrance job was its first, an exit job its last.
LEMMA StartInOrder ==
  ASSUME BaseInv, NEW t \in Thread, JobOrder(t), RunJob(t)
  PROVE  JobOrder(t)' /\ (ExitComes(t)' <=> ExitComes(t))
  <1> DEFINE q == job_queue[t]
             r == Tail(q)
             kind == Head(q).kind
  <1>1. q \in Seq(Job) /\ q # <<>> /\ pc[t] = "loop" /\ WorkerTypeOK
    BY DEF BaseInv, TypeOK, WorkerTypeOK, RunJob, StartJob
  <1>2. /\ 1 \in DOMAIN q /\ Head(q) = q[1] /\ Head(q) \in Job
        /\ Len(q) = 1 => r = <<>>
        /\ \A i \in DOMAIN r : /\ i + 1 \in DOMAIN q /\ i + 1 # 1 /\ r[i] = q[i + 1]
                               /\ i + 1 = Len(q) => i = Len(r)
        /\ \A i \in DOMAIN q : i # 1 => i - 1 \in DOMAIN r /\ r[i - 1] = q[i]
    BY <1>1, JobPopped
  <1>3. /\ job_queue'[t] = r /\ pc'[t] = "job" /\ life'[t] = life[t] /\ exit'[t] = exit[t]
        /\ running'[t].kind = kind
    BY <1>1, <1>2 DEF RunJob, StartJob, WorkerTypeOK, Job
  <1> HIDE DEF q, r, kind
  <1>4. ~Executing(t) /\ Executing(t)'
    BY <1>1, <1>3 DEF Executing
  <1>5. \A i \in DOMAIN q : (q[i].kind = "entrance" => i = 1 /\ life[t] = "none")
                            /\ (q[i].kind = "exit" => i = Len(q))
    BY DEF JobOrder, q
  <1>6. \A i \in DOMAIN r : r[i].kind # "entrance" /\ (r[i].kind = "exit" => i = Len(r))
    BY <1>2, <1>5
  <1>7. kind = q[1].kind
    BY <1>2 DEF kind
  <1>8. life[t] # "exit"
    BY <1>1 DEF JobOrder, q
  <1>9. HasJob(t, "exit") <=> kind = "exit" \/ HasJob(t, "exit")'
    <2>1. ASSUME HasJob(t, "exit"), kind # "exit" PROVE HasJob(t, "exit")'
      BY <1>2, <1>3, <1>7, <2>1 DEF HasJob, q
    <2>2. ASSUME HasJob(t, "exit")' PROVE HasJob(t, "exit")
      BY <1>2, <1>3, <2>2 DEF HasJob, q
    <2> QED
      BY <1>2, <1>7, <2>1, <2>2 DEF HasJob, q
  <1>10. ExitComes(t)' <=> ExitComes(t)
    BY <1>3, <1>4, <1>9 DEF ExitComes, Runs
  <1>11. life[t] = "none" => kind = "entrance"
    BY <1>1, <1>4, <1>5, <1>7 DEF JobOrder, Runs, HasJob, q
  <1>12. kind = "entrance" => life[t] = "none"
    BY <1>2, <1>5, <1>7
  <1>13. kind = "exit" => r = <<>>
    BY <1>2, <1>5, <1>7
  <1>14. exit[t] => ExitComes(t)
    BY DEF JobOrder
  <1> QED
    BY <1>3, <1>4, <1>6, <1>8, <1>10, <1>11, <1>12, <1>13, <1>14 DEF JobOrder, Runs

\* A job returns: the lifecycle jobs are counted in life.
LEMMA FinishInOrder ==
  ASSUME BaseInv, NEW t \in Thread, JobOrder(t), CompleteJob(t)
  PROVE  JobOrder(t)' /\ (ExitComes(t)' <=> ExitComes(t))
  <1>1. /\ WorkerTypeOK /\ pc[t] = "job" /\ pc'[t] = "loop" /\ Executing(t)
        /\ job_queue'[t] = job_queue[t] /\ exit'[t] = exit[t]
        /\ life'[t] = IF running[t].kind = "event" THEN life[t] ELSE running[t].kind
    BY DEF BaseInv, TypeOK, WorkerTypeOK, CompleteJob, FinishJob, Executing
  <1>2. running[t].kind \in {"entrance", "event", "exit"}
    BY <1>1 DEF BaseInv, ThreadInv, WorkerOK, Job, JobKind
  <1>3. ~Executing(t)' /\ (HasJob(t, "exit")' <=> HasJob(t, "exit"))
        /\ (HasJob(t, "entrance")' <=> HasJob(t, "entrance"))
    BY <1>1 DEF Executing, HasJob
  <1>4. \A i \in DOMAIN job_queue[t] : job_queue[t][i].kind # "entrance"
    BY <1>1 DEF JobOrder
  <1>5. life'[t] # "none"
    BY <1>1, <1>2, <1>4 DEF JobOrder, Runs, HasJob
  <1>6. life'[t] = "exit" <=> life[t] = "exit" \/ Runs(t, "exit")
    BY <1>1, <1>2 DEF JobOrder, Runs
  <1>7. ExitComes(t)' <=> ExitComes(t)
    BY <1>3, <1>6 DEF ExitComes, Runs
  <1> QED
    BY <1>1, <1>3, <1>4, <1>5, <1>6, <1>7 DEF JobOrder, Runs

\* The other steps of run() take no job and finish none.
LEMMA WaitInOrder ==
  ASSUME NEW t \in Thread, JobOrder(t), AskForList(t) \/ ReadList(t) \/ DrainedQueue(t) \/ ReturnFromRun(t),
         BaseInv
  PROVE  JobOrder(t)' /\ (ExitComes(t)' <=> ExitComes(t))
  <1> USE DEF AskForList, ReadList, DrainedQueue, ReturnFromRun,
              WaitForList, GotList, Drained, Return
  <1>1. /\ job_queue'[t] = job_queue[t] /\ exit'[t] = exit[t]
        /\ running'[t] = running[t] /\ life'[t] = life[t]
    OBVIOUS
  <1>2. HasJob(t, "exit")' <=> HasJob(t, "exit")
    BY <1>1 DEF HasJob
  <1>3. HasJob(t, "entrance")' <=> HasJob(t, "entrance")
    BY <1>1 DEF HasJob
  <1>4. WorkerTypeOK
    BY DEF BaseInv, TypeOK
  <1>5. CASE AskForList(t) \/ ReadList(t)
    <2>1. pc[t] \in {"job", "wait"} /\ pc'[t] \in {"job", "wait"}
      BY <1>4, <1>5 DEF WorkerTypeOK
    <2>2. Executing(t) /\ Executing(t)'
      BY <2>1 DEF Executing
    <2>3. ExitComes(t)' <=> ExitComes(t)
      BY <1>1, <1>2, <2>2 DEF ExitComes, Runs
    <2> HIDE DEF AskForList, ReadList, DrainedQueue, ReturnFromRun
    <2> QED
      BY <1>1, <1>2, <1>3, <2>1, <2>2, <2>3 DEF JobOrder, Runs
  <1>6. CASE DrainedQueue(t) \/ ReturnFromRun(t)
    <2>1. /\ pc[t] \in {"loop", "returning"} /\ pc'[t] \in {"returning", "done"}
          /\ pc[t] = "loop" => exit[t] /\ job_queue[t] = <<>>
      BY <1>4, <1>6 DEF WorkerTypeOK
    <2>2. ~Executing(t) /\ ~Executing(t)'
      BY <2>1 DEF Executing
    <2>3. life[t] = "exit"
      BY <2>1, <2>2 DEF JobOrder, ExitComes, Runs, HasJob
    <2>4. job_queue[t] = <<>>
      BY <2>3 DEF JobOrder
    <2>5. ExitComes(t)' <=> ExitComes(t)
      BY <1>1, <1>2, <2>2 DEF ExitComes, Runs
    <2> HIDE DEF AskForList, ReadList, DrainedQueue, ReturnFromRun
    <2> QED
      BY <1>1, <1>2, <1>3, <2>1, <2>2, <2>3, <2>4, <2>5 DEF JobOrder, Runs
  <1> QED
    BY <1>5, <1>6

\* A job for a worker that has no exit job yet: an event, or its exit job.
LEMMA GiveInOrder ==
  ASSUME NEW t \in Thread, job_queue[t] \in Seq(Job), NEW job \in Job, JobOrder(t), ~ExitComes(t),
         job.kind \in {"event", "exit"}, job_queue'[t] = Append(job_queue[t], job),
         exit'[t] = exit[t], pc'[t] = pc[t], running'[t] = running[t], life'[t] = life[t]
  PROVE  JobOrder(t)' /\ (ExitComes(t)' <=> job.kind = "exit")
  <1> DEFINE q == job_queue[t]
             r == Append(q, job)
  <1>1. /\ r # <<>> /\ Len(r) = Len(q) + 1
        /\ Len(q) + 1 \in DOMAIN r /\ r[Len(q) + 1] = job
        /\ \A i \in DOMAIN q : i \in DOMAIN r /\ r[i] = q[i]
        /\ \A i \in DOMAIN r : \/ i \in DOMAIN q /\ r[i] = q[i]
                               \/ i = Len(q) + 1 /\ i \notin DOMAIN q /\ r[i] = job
    BY JobAppended
  <1>2. job_queue'[t] = r
    OBVIOUS
  <1> HIDE DEF r, q
  <1>3. /\ \A i \in DOMAIN q : /\ q[i].kind = "entrance" => i = 1 /\ pc[t] = "loop" /\ life[t] = "none"
                               /\ q[i].kind # "exit"
        /\ life[t] # "exit" /\ ~Runs(t, "exit") /\ ~exit[t]
    BY DEF JobOrder, ExitComes, HasJob, q
  <1>4. /\ Executing(t)' <=> Executing(t)
        /\ \A kind \in JobKind : Runs(t, kind)' <=> Runs(t, kind)
    BY DEF Executing, Runs
  <1>5. \A i \in DOMAIN r : /\ r[i].kind = "entrance" => i = 1 /\ pc[t] = "loop" /\ life[t] = "none"
                            /\ r[i].kind = "exit" => i = Len(r)
    BY <1>1, <1>3
  <1>6. HasJob(t, "entrance") => HasJob(t, "entrance")'
    BY <1>1, <1>2 DEF HasJob, q
  <1>7. HasJob(t, "exit")' <=> job.kind = "exit"
    BY <1>1, <1>2, <1>3 DEF HasJob
  <1>8. ExitComes(t)' <=> job.kind = "exit"
    BY <1>3, <1>4, <1>7 DEF ExitComes, JobKind
  <1>9. JobOrder(t)'
    BY <1>2, <1>3, <1>4, <1>5, <1>6 DEF JobOrder, JobKind
  <1> QED
    BY <1>8, <1>9

\* addThread: the worker's first job is the entrance function.
LEMMA NewInOrder ==
  ASSUME BaseInv, OrderInv, NEW p \in Plugin, NEW lib \in Nat, AddThread(p, EntranceJob(lib)),
         lpc \notin {"end", "join"}, lpc' \notin {"end"}
  PROVE  OrderInv'
  <1>1. CASE UNCHANGED workerVars
    BY <1>1, OrderKept
  <1>2. ASSUME NEW t \in Thread, IsNext(t),
               pc' = [pc EXCEPT ![t] = "loop"],
               GiveJob({t}, EntranceJob(lib)),
               UNCHANGED <<freed, exit, running, life>>
        PROVE  OrderInv'
    <2>1. /\ WorkerTypeOK /\ pc[t] = "unborn" /\ t \notin freed /\ ~exit[t]
          /\ job_queue[t] = <<>> /\ life[t] = "none"
      BY <1>2 DEF BaseInv, TypeOK, ThreadInv, WorkerOK, IsNext
    <2>2. pc'[t] = "loop" /\ life'[t] = "none" /\ ~exit'[t] /\ running'[t] = running[t]
      BY <1>2, <2>1 DEF WorkerTypeOK
    <2>3. job_queue'[t] = <<EntranceJob(lib)>>
      <3>1. job_queue'[t] = Append(<<>>, EntranceJob(lib))
        BY <1>2, <2>1 DEF GiveJob
      <3>2. \A e : Append(<<>>, e) = <<e>>
        OBVIOUS
      <3> QED
        BY <3>1, <3>2
    <2>4. DOMAIN job_queue'[t] = {1} /\ job_queue'[t][1].kind = "entrance"
      BY <2>3 DEF EntranceJob
    <2>5. ~Executing(t)'
      BY <2>2 DEF Executing
    <2>6. JobOrder(t)' /\ ~ExitComes(t)'
      BY <2>2, <2>4, <2>5 DEF JobOrder, ExitComes, Runs, HasJob
    <2>7. ASSUME NEW u \in Thread, u # t PROVE JobOrder(u)' /\ (ExitComes(u)' <=> ExitComes(u))
      <3>1. /\ job_queue'[u] = job_queue[u] /\ pc'[u] = pc[u] /\ running'[u] = running[u]
            /\ life'[u] = life[u] /\ exit'[u] = exit[u]
        BY <1>2, <2>1, <2>7 DEF WorkerTypeOK, GiveJob
      <3> QED
        BY <3>1, JobOrderKept DEF OrderInv
    <2>8. \A u \in Thread : u \notin freed => ~ExitComes(u)
      BY DEF OrderInv
    <2>9. \A u \in freed : pc'[u] = "done" /\ life'[u] = "exit"
      BY <1>2, <2>1 DEF WorkerTypeOK, OrderInv
    <2> QED
      BY <1>2, <2>6, <2>7, <2>8, <2>9 DEF OrderInv
  <1> QED
    BY <1>1, <1>2 DEF AddThread

\* OrderInv is inductive when no job throws or outlasts its join: the loader
\* gives the exit job before it sets exit, and to a worker that has none yet.
LEMMA OrderStep ==
  ASSUME BaseInv, NoExceptionTask, OrderInv, Mishaps \cap {"throw", "overrun"} = {}, [Next]_vars
  PROVE  OrderInv'
  <1> USE DEF loaderVars, listVars, libVars, envVars
  <1>0. /\ LoaderTypeOK /\ WorkerTypeOK /\ TargetInv /\ ThreadInv
        /\ thread_memory \in [Plugin -> Thread \cup {NoThread}]
        /\ lpc \in EntrySteps => target \in Plugin
    BY DEF BaseInv, TypeOK, LoaderTypeOK, WorkerTypeOK, TargetInv
  <1>1. CASE PopTask \/ ShutdownLoader \/ AcquireList \/ ReleaseList \/ MarkDisabled
             \/ CloseLibrary \/ MarkUnloaded \/ LoadPlugin \/ LoadFails \/ OpenNew \/ AddNewPlugin
    <2>1. UNCHANGED workerVars /\ lpc \notin {"end", "join"} /\ lpc' # "end"
      BY <1>1 DEF PopTask, ShutdownLoader, AcquireList, ReleaseList, MarkDisabled,
                  CloseLibrary, MarkUnloaded, LoadPlugin, LoadFails, OpenNew, AddNewPlugin
    <2> QED
      BY <2>1, OrderKept
  <1>2. ASSUME NEW p \in Plugin, Visit(p) PROVE OrderInv'
    <2>1. UNCHANGED workerVars /\ lpc \notin {"end", "join"} /\ lpc' # "end"
      BY <1>2, FirstStepFacts DEF Visit
    <2> QED
      BY <2>1, OrderKept
  <1>3. CASE EnablePlugin
    <2>1. target \in Plugin /\ handle[target] \in Nat /\ lpc = "enable" /\ lpc' = "next"
      BY <1>0, <1>3 DEF EnablePlugin, EntrySteps, Locked, LoaderTypeOK
    <2>2. CASE UNCHANGED workerVars
      BY <2>1, <2>2, OrderKept
    <2>3. CASE AddThread(target, EntranceJob(handle[target]))
      BY <2>1, <2>3, NewInOrder
    <2> QED
      BY <1>3, <2>2, <2>3 DEF EnablePlugin
  <1>4. CASE ActivateNew
    <2>1. target \in Plugin /\ local \in Nat /\ lpc = "activate" /\ lpc' = "insert"
          /\ AddThread(target, EntranceJob(local))
      BY <1>0, <1>4 DEF ActivateNew, TargetInv, NewSteps, LoaderTypeOK
    <2> QED
      BY <2>1, NewInOrder
  <1>5. CASE CallThreadEnd
    <2>1. target \in Plugin /\ lpc = "callThreadEnd" /\ UNCHANGED target
      BY <1>0, <1>5 DEF CallThreadEnd, EntrySteps, Locked
    <2>2. CASE UNCHANGED workerVars /\ lpc' = "disable"
      BY <2>1, <2>2, OrderKept
    <2>3. CASE /\ thread_memory[target] # NoThread /\ lpc' = "end"
               /\ GiveJob({thread_memory[target]}, ExitJob(handle[target]))
               /\ UNCHANGED <<thread_memory, freed, pluginid, exit, pc, running, life>>
      <3>0. PICK t \in Thread : t = thread_memory[target]
        BY <1>0, <2>1, <2>3
      <3>1. t \in Thread /\ t \notin freed
        BY <1>0, <2>1, <2>3, <3>0 DEF ThreadInv, BoundOK
      <3>2. \A u \in Thread : u \notin freed => ~ExitComes(u)
        BY <2>1 DEF OrderInv
      <3>3. ExitJob(handle[target]) \in Job /\ ExitJob(handle[target]).kind = "exit"
        BY <1>0, <2>1 DEF ExitJob, Job, JobKind, LoaderTypeOK
      <3>4. job_queue[t] \in Seq(Job) /\ job_queue'[t] = Append(job_queue[t], ExitJob(handle[target]))
        BY <1>0, <2>3, <3>0 DEF GiveJob, WorkerTypeOK
      <3>5. JobOrder(t) /\ ~ExitComes(t)
        BY <3>1, <3>2 DEF OrderInv
      <3>a. UNCHANGED <<thread_memory, freed, exit, pc, running, life>> /\ lpc' = "end"
        BY <2>3
      <3>b. ASSUME NEW u \in Thread
            PROVE  exit'[u] = exit[u] /\ pc'[u] = pc[u] /\ running'[u] = running[u] /\ life'[u] = life[u]
        BY <3>a
      <3>c. \A u \in Thread : u # t => job_queue'[u] = job_queue[u]
        BY <2>3, <3>0 DEF GiveJob
      <3>6. JobOrder(t)' /\ ExitComes(t)'
        BY <3>b, <3>1, <3>3, <3>4, <3>5, GiveInOrder
      <3>7. ASSUME NEW u \in Thread, u # t PROVE JobOrder(u)' /\ (ExitComes(u)' <=> ExitComes(u))
        BY <3>b, <3>c, <3>7, JobOrderKept DEF OrderInv
      <3>8. thread_memory'[target'] = t
        BY <2>1, <3>a, <3>0
      <3>9. \A u \in freed' : pc'[u] = "done" /\ life'[u] = "exit"
        BY <3>a DEF OrderInv
      <3>10. \A u \in Thread : JobOrder(u)' /\ (u \notin freed' /\ ExitComes(u)' => u = t)
        BY <3>a, <3>2, <3>6, <3>7
      <3> QED
        BY <3>a, <3>6, <3>8, <3>9, <3>10 DEF OrderInv
    <2> QED
      BY <1>5, <2>2, <2>3 DEF CallThreadEnd
  <1>6. CASE EndWorker
    <2> DEFINE t == thread_memory[target]
    <2>1. /\ target \in Plugin /\ lpc = "end" /\ lpc' = "join" /\ UNCHANGED target
          /\ t \in Thread /\ ExitComes(t)
      BY <1>0, <1>6 DEF EndWorker, EntrySteps, Locked, TargetInv, OrderInv
    <2>2. /\ UNCHANGED <<thread_memory, freed, pluginid, job_queue, pc, running, life>>
          /\ exit' = [exit EXCEPT ![t] = TRUE]
      BY <1>6 DEF EndWorker, End
    <2>3. ASSUME NEW u \in Thread PROVE JobOrder(u)' /\ (ExitComes(u)' <=> ExitComes(u))
      <3>1. exit'[u] => exit[u] \/ ExitComes(u)
        BY <1>0, <2>1, <2>2 DEF WorkerTypeOK
      <3> QED
        BY <2>2, <3>1, JobOrderKept DEF OrderInv
    <2>4. \A u \in Thread : u \notin freed /\ ExitComes(u) => thread_memory[target] = u
      BY DEF OrderInv
    <2>5. \A u \in freed : pc[u] = "done" /\ life[u] = "exit"
      BY DEF OrderInv
    <2> HIDE DEF t
    <2> QED
      BY <2>1, <2>2, <2>3, <2>4, <2>5 DEF OrderInv
  <1>7. CASE JoinWorker
    <2> DEFINE t == thread_memory[target]
    <2>1. /\ target \in Plugin /\ lpc = "join" /\ lpc' = "disable"
          /\ t \in Thread /\ pc[t] = "done" /\ freed' = freed \cup {t}
          /\ UNCHANGED <<pluginid, job_queue, exit, pc, running, life>>
      BY <1>0, <1>7 DEF JoinWorker, JoinAndErase, Erase, isBusy, EntrySteps, Locked, TargetInv
    <2>2. life[t] = "exit"
      BY <2>1 DEF OrderInv, JobOrder
    <2>3. \A u \in Thread : u \notin freed /\ ExitComes(u) => u = t
      BY DEF OrderInv
    <2>4. ASSUME NEW u \in Thread PROVE JobOrder(u)' /\ (ExitComes(u)' <=> ExitComes(u))
      BY <2>1, JobOrderKept DEF OrderInv
    <2>5. \A u \in freed' : pc'[u] = "done" /\ life'[u] = "exit"
      BY <2>1, <2>2 DEF OrderInv
    <2> HIDE DEF t
    <2> QED
      BY <2>1, <2>3, <2>4, <2>5 DEF OrderInv
  <1>8. CASE GiveUpJoin \/ EndThreadOfCrashed
    BY <1>8 DEF GiveUpJoin, EndThreadOfCrashed, NoExceptionTask
  <1>9. ASSUME NEW t \in Thread, WorkerStep(t) PROVE OrderInv'
    <2>1. JobOrder(t) /\ pc[t] # "throwing"
      BY DEF OrderInv, NoExceptionTask
    <2>2. ~CrashJob(t) /\ ~ReportException(t)
      BY <2>1 DEF CrashJob, ReportException, Reported
    <2>3. JobOrder(t)' /\ (ExitComes(t)' <=> ExitComes(t))
      BY <1>9, <2>1, <2>2, StartInOrder, FinishInOrder, WaitInOrder DEF WorkerStep
    <2>4. /\ UNCHANGED <<freed, thread_memory, exit>> /\ pc[t] # "done" /\ pc[t] # "unborn"
          /\ \A u \in Thread : u # t =>
               /\ job_queue'[u] = job_queue[u] /\ pc'[u] = pc[u] /\ running'[u] = running[u]
               /\ life'[u] = life[u]
      BY <1>0, <1>9, <2>2 DEF WorkerTypeOK, WorkerStep, RunJob, StartJob, CompleteJob, FinishJob,
         AskForList, WaitForList, ReadList, GotList, DrainedQueue, Drained, ReturnFromRun, Return
    <2>5. ASSUME NEW u \in Thread PROVE JobOrder(u)' /\ (ExitComes(u)' <=> ExitComes(u))
      BY <2>3, <2>4, JobOrderKept DEF OrderInv
    <2>6. \A u \in freed : u # t /\ u \in Thread
      BY <1>0, <2>4 DEF OrderInv, WorkerTypeOK
    <2>7. UNCHANGED <<lpc, target>>
      BY <1>9, OthersKeepLoader
    <2>8. lpc = "end" => thread_memory[target] \in Thread
      BY <1>0 DEF EntrySteps, Locked, TargetInv
    <2> QED
      BY <2>4, <2>5, <2>6, <2>7, <2>8, OrderOfWorkers
  <1>10. CASE Event
    <2> DEFINE ts == {thread_memory[p] : p \in {q \in listed : handle[q] # NoLib /\ enabled[q]}} \ {NoThread}
    <2>1. /\ GiveJob(ts, EventJob) /\ lpc \notin {"end", "join"} /\ UNCHANGED <<lpc, target>>
          /\ UNCHANGED <<thread_memory, freed, pluginid, exit, pc, running, life>>
      BY <1>10 DEF Event, SubmitJob, Holding, Locked
    <2>2. ts \subseteq Thread /\ \A u \in ts : u \notin freed
      BY <1>0 DEF LoaderTypeOK, ThreadInv, BoundOK
    <2>3. EventJob \in Job /\ EventJob.kind = "event"
      BY DEF EventJob, Job, JobKind
    <2> HIDE DEF ts
    <2>4. ASSUME NEW u \in Thread PROVE JobOrder(u)' /\ (ExitComes(u)' <=> ExitComes(u))
      <3>1. JobOrder(u) /\ job_queue[u] \in Seq(Job)
        BY <1>0 DEF OrderInv, WorkerTypeOK
      <3>2. CASE u \in ts
        <4>1. ~ExitComes(u)
          BY <2>1, <2>2, <3>2 DEF OrderInv
        <4>2. job_queue'[u] = Append(job_queue[u], EventJob)
          BY <2>1, <3>2 DEF GiveJob
        <4> QED
          BY <2>1, <2>3, <3>1, <4>1, <4>2, GiveInOrder
      <3>3. CASE u \notin ts
        <4>1. job_queue'[u] = job_queue[u]
          BY <2>1, <3>3 DEF GiveJob
        <4> QED
          BY <2>1, <3>1, <4>1, JobOrderKept
      <3> QED
        BY <3>2, <3>3
    <2> QED
      BY <2>1, <2>4, OrderOfWorkers
  <1>11. CASE LoaderExit \/ (\E c \in Commands : Request(c)) \/ UNCHANGED vars
    <2>1. UNCHANGED workerVars
      BY <1>11 DEF LoaderExit, Request, vars
    <2>2. UNCHANGED <<lpc, target>>
      BY <1>11, OthersKeepLoader DEF KtStep
    <2> QED
      BY <2>1, <2>2, OrderKept
  <1> QED
    BY <1>1, <1>2, <1>3, <1>4, <1>5, <1>6, <1>7, <1>8, <1>9, <1>10, <1>11
       DEF Next, LoaderStep, KtStep, Terminated

\* OrderInv holds when loaderMain starts.
LEMMA InitOrder == Init => OrderInv
  BY DEF Init, WorkerInit, OrderInv, JobOrder, ExitComes, HasJob, Runs, Executing

\* As long as no job throws or outlasts the ten seconds, a worker object is
\* destroyed only when its thread has returned from FUNC_EXIT and left run().
THEOREM DestroyedAfterItsExit ==
  ASSUME Mishaps \cap {"throw", "overrun"} = {}
  PROVE  Spec => []DestroyedAfterExit
  <1> DEFINE Inv == BaseInv /\ NoExceptionTask /\ OrderInv
  <1>1. Init => Inv
    BY InitBase, InitNoException, InitOrder
  <1>2. Inv /\ [Next]_vars => Inv'
    BY NextBase, NoExceptionStep, OrderStep
  <1>3. Inv => DestroyedAfterExit
    BY DEF OrderInv, DestroyedAfterExit
  <1> QED
    BY <1>1, <1>2, <1>3, PTL DEF Spec

-----------------------------------------------------------------------------
(* CalmInv: one lemma per action, one step per conjunct.                   *)

\* CalmInv holds when loaderMain starts.
LEMMA InitCalm == Init => CalmInv
  <1> SUFFICES ASSUME Init PROVE CalmInv
    OBVIOUS
  <1> USE DEF Init, WorkerInit, ToAll
  <1>1. LiveIsBound
    BY DEF LiveIsBound, LiveOK
  <1>2. JobsAreCurrent
    BY DEF JobsAreCurrent, JobsOK
  <1> QED
    BY <1>1, <1>2 DEF CalmInv

\* LiveIsBound survives a step of the loader that touches no worker.
LEMMA LiveKept ==
  ASSUME LiveIsBound, UNCHANGED workerVars,
         lpc = "join" => lpc' = "join" /\ target' = target
  PROVE  LiveIsBound'
  BY DEF LiveIsBound, LiveOK, workerVars

\* JobsAreCurrent survives as long as no plugin with a thread changes its
\* library.
LEMMA JobsKept ==
  ASSUME BaseInv, LiveIsBound, JobsAreCurrent, UNCHANGED workerVars, listed \subseteq listed',
         \A p \in Plugin : thread_memory[p] # NoThread => Handle(p)' = Handle(p)
  PROVE  JobsAreCurrent'
  <1> SUFFICES ASSUME NEW t \in Thread, pc[t] \notin {"unborn", "done"} PROVE JobsOK(t)'
    BY DEF JobsAreCurrent, JobsOK, workerVars
  <1>1. JobsOK(t) /\ LiveOK(t) /\ WorkerOK(t)
    BY DEF BaseInv, ThreadInv, LiveIsBound, JobsAreCurrent
  <1>2. thread_memory[pluginid[t]] # NoThread /\ pluginid[t] \in Plugin
    BY <1>1 DEF LiveOK, WorkerOK, Thread
  <1>3. Handle(pluginid[t])' = Handle(pluginid[t])
    BY <1>2 DEF workerVars
  <1> QED
    BY <1>1, <1>3 DEF JobsOK, Executing, workerVars

\* The steps of the loader and the kt thread that touch no worker and no
\* handle preserve CalmInv.
LEMMA QuietStepCalm ==
  ASSUME BaseInv, CalmInv,
         \/ PopTask \/ ShutdownLoader \/ AcquireList \/ ReleaseList \/ MarkDisabled
         \/ CloseLibrary \/ LoadFails \/ LoaderExit
         \/ \E p \in Plugin : Visit(p)
         \/ \E c \in Commands : Request(c)
  PROVE  CalmInv'
  <1> USE DEF loaderVars, listVars, libVars, envVars
  <1>0. LiveIsBound /\ JobsAreCurrent
    BY DEF CalmInv
  <1>1. CASE (\E c \in Commands : Request(c)) \/ LoaderExit
    <2>1. UNCHANGED <<workerVars, listVars, loaderVars>>
      BY <1>1 DEF Request, LoaderExit
    <2>2. \A q \in Plugin : Handle(q)' = Handle(q)
      BY <2>1 DEF Handle, IsNew
    <2> QED
      BY <1>0, <2>1, <2>2, LiveKept, JobsKept DEF CalmInv
  <1>2. CASE ~((\E c \in Commands : Request(c)) \/ LoaderExit)
    <2>1. /\ UNCHANGED <<workerVars, listed, handle>> /\ lpc # "join"
          /\ lpc \notin {"activate", "insert"} /\ lpc' \notin {"activate", "insert"}
      BY <1>2, FirstStepFacts DEF PopTask, ShutdownLoader, AcquireList, ReleaseList, MarkDisabled,
                                  CloseLibrary, LoadFails, Visit
    <2>2. \A q \in Plugin : Handle(q)' = Handle(q)
      BY <2>1 DEF Handle, IsNew
    <2> QED
      BY <1>0, <2>1, <2>2, LiveKept, JobsKept DEF CalmInv
  <1> QED
    BY <1>1, <1>2

\* MarkUnloaded preserves CalmInv in the calm case.
LEMMA MarkUnloadedCalm ==
  ASSUME BaseInv, QuietInv, CalmInv, MarkUnloaded
  PROVE  CalmInv'
  <1> USE DEF MarkUnloaded, loaderVars, listVars, libVars, envVars
  <1>0. LoadsAreNew /\ SlotInv /\ LiveIsBound /\ JobsAreCurrent
    BY DEF QuietInv, CalmInv
  <1>a. target \in Plugin /\ target \in listed /\ thread_memory[target] = NoThread
    BY <1>0 DEF BaseInv, TypeOK, LoaderTypeOK, TargetInv, EntrySteps, Locked, SlotInv, Halfway
  <1>1. LiveIsBound'
    BY <1>0, LiveKept
  <1>2. JobsAreCurrent'
    <2>1. \A q \in Plugin : thread_memory[q] # NoThread => Handle(q)' = Handle(q)
      BY <1>a DEF BaseInv, TypeOK, LoaderTypeOK, Handle, IsNew
    <2> QED
      BY <1>0, <2>1, JobsKept
  <1> QED
    BY <1>1, <1>2 DEF CalmInv

\* LoadPlugin preserves CalmInv in the calm case.
LEMMA LoadPluginCalm ==
  ASSUME BaseInv, QuietInv, CalmInv, LoadPlugin
  PROVE  CalmInv'
  <1> USE DEF LoadPlugin, loaderVars, listVars, libVars, envVars
  <1>0. LoadsAreNew /\ SlotInv /\ LiveIsBound /\ JobsAreCurrent
    BY DEF QuietInv, CalmInv
  <1>a. target \in Plugin /\ target \in listed /\ thread_memory[target] = NoThread
    BY <1>0 DEF BaseInv, TypeOK, LoaderTypeOK, TargetInv, EntrySteps, Locked, SlotInv, Halfway
  <1>1. LiveIsBound'
    BY <1>0, LiveKept
  <1>2. JobsAreCurrent'
    <2>1. \A q \in Plugin : thread_memory[q] # NoThread => Handle(q)' = Handle(q)
      BY <1>a DEF BaseInv, TypeOK, LoaderTypeOK, Handle, IsNew
    <2> QED
      BY <1>0, <2>1, JobsKept
  <1> QED
    BY <1>1, <1>2 DEF CalmInv

\* OpenNew preserves CalmInv in the calm case.
LEMMA OpenNewCalm ==
  ASSUME BaseInv, QuietInv, CalmInv, OpenNew
  PROVE  CalmInv'
  <1> USE DEF OpenNew, loaderVars, listVars, libVars, envVars
  <1>0. LoadsAreNew /\ SlotInv /\ LiveIsBound /\ JobsAreCurrent
    BY DEF QuietInv, CalmInv
  <1>a. target \in Plugin /\ target \notin listed
    BY <1>0 DEF BaseInv, TargetInv, NewSteps, LoadsAreNew
  <1>b. thread_memory[target] = NoThread
    BY <1>0, <1>a DEF BaseInv, LibraryInv, LibraryOK, SlotInv, Halfway
  <1>1. LiveIsBound'
    BY <1>0, LiveKept
  <1>2. JobsAreCurrent'
    <2>1. \A q \in Plugin : thread_memory[q] # NoThread => Handle(q)' = Handle(q)
      BY <1>b DEF Handle, IsNew
    <2> QED
      BY <1>0, <2>1, JobsKept
  <1> QED
    BY <1>1, <1>2 DEF CalmInv

\* AddNewPlugin preserves CalmInv in the calm case.
LEMMA AddNewPluginCalm ==
  ASSUME BaseInv, QuietInv, CalmInv, AddNewPlugin
  PROVE  CalmInv'
  <1> USE DEF AddNewPlugin, loaderVars, listVars, libVars, envVars
  <1>0. LoadsAreNew /\ SlotInv /\ LiveIsBound /\ JobsAreCurrent
    BY DEF QuietInv, CalmInv
  <1>a. target \in Plugin /\ target \notin listed
    BY <1>0 DEF BaseInv, TargetInv, NewSteps, LoadsAreNew
  <1>b. thread_memory[target] # NoThread => task.kind = "LOAD_NEW_ACTIVATENOW"
    BY <1>0, <1>a DEF BaseInv, LibraryInv, LibraryOK, SlotInv, Halfway
  <1>c. /\ handle'[target] = local
        /\ enabled'[target] = (task.kind = "LOAD_NEW_ACTIVATENOW")
        /\ \A q \in Plugin : q # target => handle'[q] = handle[q] /\ enabled'[q] = enabled[q]
    BY <1>a DEF BaseInv, TypeOK, LoaderTypeOK
  <1>1. LiveIsBound'
    BY <1>0, LiveKept
  <1>2. JobsAreCurrent'
    <2>1. \A q \in Plugin : thread_memory[q] # NoThread => Handle(q)' = Handle(q)
      BY <1>a, <1>c DEF Handle, IsNew
    <2> QED
      BY <1>0, <2>1, JobsKept
  <1> QED
    BY <1>1, <1>2 DEF CalmInv

\* addThread for a plugin without a thread: the new worker's only job is the
\* entrance function of the library the plugin has now.
LEMMA ThreadAddedCalm ==
  ASSUME BaseInv, LiveIsBound, JobsAreCurrent,
         NEW p \in Plugin, thread_memory[p] = NoThread, AddThread(p, EntranceJob(Handle(p)')),
         \A q \in Plugin : thread_memory[q] # NoThread => Handle(q)' = Handle(q),
         listed \subseteq listed', lpc # "join"
  PROVE  /\ LiveIsBound' /\ JobsAreCurrent'
         /\ \A q \in Plugin : thread_memory'[q] # NoThread => thread_memory[q] # NoThread \/ q = p
  <1>1. PICK t \in Thread : /\ IsNext(t)
                            /\ thread_memory' = [thread_memory EXCEPT ![p] = t]
                            /\ pluginid' = [pluginid EXCEPT ![t] = p]
                            /\ pc' = [pc EXCEPT ![t] = "loop"]
                            /\ GiveJob({t}, EntranceJob(Handle(p)'))
                            /\ UNCHANGED <<freed, exit, running, life>>
    <2>1. UNCHANGED workerVars => thread_memory' = thread_memory
      BY DEF workerVars
    <2> QED
      BY DEF AddThread
  <1>2. TypeOK /\ WorkerTypeOK /\ ThreadInv /\ pc[t] = "unborn" /\ ~exit[t] /\ job_queue[t] = <<>>
    BY <1>1 DEF BaseInv, TypeOK, ThreadInv, WorkerOK, IsNext
  <1>3. pc'[t] = "loop" /\ pluginid'[t] = p /\ thread_memory'[p] = t /\ ~exit'[t] /\ exit' = exit
    BY <1>1, <1>2 DEF WorkerTypeOK
  <1>4. ASSUME NEW u \in Thread, u # t
        PROVE  /\ pc'[u] = pc[u] /\ pluginid'[u] = pluginid[u] /\ job_queue'[u] = job_queue[u]
               /\ running'[u] = running[u]
               /\ pc[u] \notin {"unborn", "done"} => /\ pluginid[u] \in Plugin
                                                     /\ thread_memory[pluginid[u]] = u
                                                     /\ pluginid[u] # p
                                                     /\ thread_memory'[pluginid[u]] = u
    <2>1. LiveOK(u) /\ WorkerOK(u)
      BY <1>2 DEF LiveIsBound, ThreadInv
    <2>2. pc[u] \notin {"unborn", "done"} => /\ pluginid[u] \in Plugin
                                             /\ thread_memory[pluginid[u]] = u
                                             /\ u # NoThread
      BY <2>1 DEF LiveOK, WorkerOK, Thread
    <2> QED
      BY <1>1, <1>2, <1>4, <2>2 DEF WorkerTypeOK, GiveJob
  <1>5. ASSUME NEW u \in Thread PROVE LiveOK(u)'
    <2>1. CASE u = t
      BY <1>3, <2>1 DEF LiveOK
    <2>2. CASE u # t
      <3>1. LiveOK(u)
        BY DEF LiveIsBound
      <3> QED
        BY <1>1, <1>4, <2>2, <3>1 DEF LiveOK
    <2> QED
      BY <2>1, <2>2
  <1>6. ASSUME NEW u \in Thread PROVE JobsOK(u)'
    <2>1. CASE u = t
      <3>1. job_queue'[t] = Append(<<>>, EntranceJob(Handle(p)'))
        BY <1>1, <1>2 DEF GiveJob
      <3>2. DOMAIN job_queue'[t] = {1} /\ job_queue'[t][1] = EntranceJob(Handle(p)')
        BY <3>1
      <3> QED
        BY <1>3, <2>1, <3>2 DEF JobsOK, EntranceJob, Executing
    <2>2. CASE u # t
      <3>1. JobsOK(u)
        BY DEF JobsAreCurrent
      <3>2. pc[u] \notin {"unborn", "done"} => Handle(pluginid[u])' = Handle(pluginid[u])
        BY <1>4, <2>2 DEF Thread
      <3> QED
        BY <1>4, <2>2, <3>1, <3>2 DEF JobsOK, Executing
    <2> QED
      BY <2>1, <2>2
  <1>7. \A q \in Plugin : thread_memory'[q] # NoThread => thread_memory[q] # NoThread \/ q = p
    BY <1>1, <1>2 DEF WorkerTypeOK
  <1> QED
    BY <1>5, <1>6, <1>7 DEF LiveIsBound, JobsAreCurrent

\* EnablePlugin preserves CalmInv in the calm case.
LEMMA EnablePluginCalm ==
  ASSUME BaseInv, QuietInv, CalmInv, EnablePlugin
  PROVE  CalmInv'
  <1> USE DEF EnablePlugin, loaderVars, listVars, libVars, envVars
  <1>0. LoadsAreNew /\ SlotInv /\ LiveIsBound /\ JobsAreCurrent
    BY DEF QuietInv, CalmInv
  <1>a. target \in Plugin /\ target \in listed /\ TypeOK /\ TargetInv /\ LibraryInv /\ ThreadInv
    BY DEF BaseInv, TypeOK, LoaderTypeOK, TargetInv, EntrySteps, Locked
  <1>b. \A p \in Plugin : Handle(p)' = Handle(p)
    BY DEF Handle, IsNew
  <1>c. CASE enabled[target] \/ handle[target] = NoLib
    <2>1. UNCHANGED workerVars /\ enabled' = enabled
      BY <1>c
    <2>2. LiveIsBound' /\ JobsAreCurrent'
      BY <1>0, <1>b, <2>1, LiveKept, JobsKept
    <2> QED
      BY <2>2 DEF CalmInv
  <1>d. CASE ~enabled[target] /\ handle[target] # NoLib
    <2>1. /\ enabled' = [enabled EXCEPT ![target] = TRUE]
          /\ AddThread(target, EntranceJob(handle[target]))
      BY <1>d
    <2>2. thread_memory[target] = NoThread
      BY <1>0, <1>a, <1>d DEF SlotInv, Halfway
    <2>3. Handle(target)' = handle[target]
      BY <1>a DEF Handle, IsNew
    <2>4. /\ LiveIsBound' /\ JobsAreCurrent'
          /\ \A q \in Plugin : thread_memory'[q] # NoThread => thread_memory[q] # NoThread \/ q = target
      BY <1>0, <1>a, <1>b, <2>1, <2>2, <2>3, ThreadAddedCalm
    <2> QED
      BY <2>4 DEF CalmInv
  <1> QED
    BY <1>c, <1>d

\* ActivateNew preserves CalmInv in the calm case.
LEMMA ActivateNewCalm ==
  ASSUME BaseInv, QuietInv, CalmInv, ActivateNew
  PROVE  CalmInv'
  <1> USE DEF ActivateNew, loaderVars, listVars, libVars, envVars
  <1>0. LoadsAreNew /\ SlotInv /\ LiveIsBound /\ JobsAreCurrent
    BY DEF QuietInv, CalmInv
  <1>a. /\ target \in Plugin /\ target \notin listed /\ local # NoLib
        /\ TypeOK /\ TargetInv /\ LibraryInv /\ ThreadInv
    BY <1>0 DEF BaseInv, TargetInv, NewSteps, LoadsAreNew
  <1>b. thread_memory[target] = NoThread
    BY <1>0, <1>a DEF LibraryInv, LibraryOK, SlotInv, Halfway
  <1>c. Handle(target)' = local
    BY <1>a DEF Handle, IsNew
  <1>d. \A p \in Plugin : Handle(p)' = Handle(p)
    BY DEF Handle, IsNew
  <1>e. task.kind = "LOAD_NEW_ACTIVATENOW"
    BY <1>a DEF TargetInv
  <1>f. /\ LiveIsBound' /\ JobsAreCurrent'
        /\ \A q \in Plugin : thread_memory'[q] # NoThread => thread_memory[q] # NoThread \/ q = target
    BY <1>0, <1>a, <1>b, <1>c, <1>d, ThreadAddedCalm
  <1>1. LiveIsBound'
    BY <1>f
  <1>2. JobsAreCurrent'
    BY <1>f
  <1> QED
    BY <1>1, <1>2 DEF CalmInv

\* give_job of a job that is about the plugin's present library.
LEMMA JobGivenCalm ==
  ASSUME BaseInv, JobsAreCurrent, NEW ts \in SUBSET Thread, NEW job \in Job, GiveJob(ts, job),
         UNCHANGED <<pluginid, pc, running, listed>>,
         \A q \in Plugin : Handle(q)' = Handle(q),
         \A t \in ts : IF job.kind = "event" THEN pluginid[t] \in listed
                       ELSE job.lib = Handle(pluginid[t])
  PROVE  JobsAreCurrent'
  <1> SUFFICES ASSUME NEW t \in Thread, pc[t] \notin {"unborn", "done"} PROVE JobsOK(t)'
    BY DEF JobsAreCurrent, JobsOK
  <1>1. /\ JobsOK(t) /\ pluginid[t] \in Plugin /\ job_queue[t] \in Seq(Job)
    BY DEF BaseInv, TypeOK, WorkerTypeOK, ThreadInv, WorkerOK, JobsAreCurrent
  <1>2. Handle(pluginid[t])' = Handle(pluginid[t])
    BY <1>1
  <1>3. ASSUME NEW i \in DOMAIN job_queue'[t]
        PROVE  IF job_queue'[t][i].kind = "event" THEN pluginid[t] \in listed
               ELSE job_queue'[t][i].lib = Handle(pluginid[t])
    <2>1. CASE t \in ts
      <3>1. job_queue'[t] = Append(job_queue[t], job)
        BY <2>1 DEF GiveJob
      <3>2. CASE i \in DOMAIN job_queue[t] /\ job_queue'[t][i] = job_queue[t][i]
        BY <1>1, <3>2 DEF JobsOK
      <3>3. CASE job_queue'[t][i] = job
        BY <2>1, <3>3
      <3> QED
        BY <1>1, <1>3, <3>1, <3>2, <3>3, JobAppended
    <2>2. CASE t \notin ts
      <3>1. job_queue'[t] = job_queue[t]
        BY <2>2 DEF GiveJob
      <3> QED
        BY <1>1, <1>3, <3>1 DEF JobsOK
    <2> QED
      BY <2>1, <2>2
  <1>4. (Executing(t) => running[t].lib = Handle(pluginid[t]))'
    BY <1>1, <1>2 DEF JobsOK, Executing
  <1> QED
    BY <1>2, <1>3, <1>4 DEF JobsOK

\* CallThreadEnd preserves CalmInv in the calm case.
LEMMA CallThreadEndCalm ==
  ASSUME BaseInv, QuietInv, CalmInv, CallThreadEnd
  PROVE  CalmInv'
  <1> USE DEF CallThreadEnd, loaderVars, listVars, libVars, envVars
  <1>0. LoadsAreNew /\ SlotInv /\ LiveIsBound /\ JobsAreCurrent
    BY DEF QuietInv, CalmInv
  <1>a. target \in Plugin /\ target \in listed /\ TypeOK /\ TargetInv /\ LibraryInv /\ ThreadInv
    BY DEF BaseInv, TypeOK, LoaderTypeOK, TargetInv, EntrySteps, Locked
  <1>b. \A q \in Plugin : Handle(q)' = Handle(q)
    BY DEF Handle, IsNew
  <1>c. CASE thread_memory[target] = NoThread
    <2>1. UNCHANGED workerVars /\ lpc' = "disable"
      BY <1>c
    <2>2. LiveIsBound' /\ JobsAreCurrent'
      BY <1>0, <1>b, <2>1, LiveKept, JobsKept
    <2> QED
      BY <2>2 DEF CalmInv
  <1>d. CASE thread_memory[target] # NoThread
    <2> DEFINE t == thread_memory[target]
               job == ExitJob(handle[target])
    <2>1. /\ lpc' = "end" /\ GiveJob({t}, job)
          /\ UNCHANGED <<thread_memory, freed, pluginid, exit, pc, running, life>>
      BY <1>d
    <2>2. t \in Thread /\ pluginid[t] = target /\ job \in Job /\ handle[target] \in Nat
      BY <1>a, <1>d DEF TypeOK, WorkerTypeOK, LoaderTypeOK, ThreadInv, BoundOK, ExitJob, Job, JobKind
    <2>3. job.kind = "exit" /\ job.lib = Handle(target)
      BY <1>a DEF ExitJob, Handle, IsNew
    <2>4. JobsAreCurrent'
      BY <1>0, <1>b, <2>1, <2>2, <2>3, JobGivenCalm
    <2>5. LiveIsBound'
      BY <1>0, <2>1 DEF LiveIsBound, LiveOK
    <2> QED
      BY <2>4, <2>5 DEF CalmInv
  <1> QED
    BY <1>c, <1>d

\* EndWorker preserves CalmInv in the calm case.
LEMMA EndWorkerCalm ==
  ASSUME BaseInv, QuietInv, CalmInv, EndWorker
  PROVE  CalmInv'
  <1> USE DEF EndWorker, loaderVars, listVars, libVars, envVars, End
  <1>0. LoadsAreNew /\ SlotInv /\ LiveIsBound /\ JobsAreCurrent
    BY DEF QuietInv, CalmInv
  <1>a. target \in Plugin /\ target \in listed /\ TypeOK /\ TargetInv /\ LibraryInv /\ ThreadInv
    BY DEF BaseInv, TypeOK, LoaderTypeOK, TargetInv, EntrySteps, Locked
  <1>b. thread_memory[target] \in Thread
    BY <1>a DEF TargetInv, TypeOK, WorkerTypeOK
  <1>1. LiveIsBound'
    BY <1>0, <1>a, <1>b DEF LiveIsBound, LiveOK, TypeOK, WorkerTypeOK
  <1>2. JobsAreCurrent'
    <2>1. \A q \in Plugin : Handle(q)' = Handle(q)
      BY DEF Handle, IsNew
    <2> QED
      BY <1>0, <1>a, <2>1 DEF JobsAreCurrent, JobsOK, Executing, ThreadInv, WorkerOK
  <1> QED
    BY <1>1, <1>2 DEF CalmInv

\* JoinWorker preserves CalmInv in the calm case.
LEMMA JoinWorkerCalm ==
  ASSUME BaseInv, QuietInv, CalmInv, JoinWorker
  PROVE  CalmInv'
  <1> USE DEF JoinWorker, loaderVars, listVars, libVars, envVars
  <1>0. LoadsAreNew /\ SlotInv /\ LiveIsBound /\ JobsAreCurrent
    BY DEF QuietInv, CalmInv
  <1>a. target \in Plugin /\ target \in listed /\ TypeOK /\ TargetInv /\ LibraryInv /\ ThreadInv
    BY DEF BaseInv, TypeOK, LoaderTypeOK, TargetInv, EntrySteps, Locked
  <1>b. thread_memory[target] \in Thread /\ pc[thread_memory[target]] = "done"
    BY <1>a DEF TargetInv, TypeOK, WorkerTypeOK, isBusy
  <1>c. /\ thread_memory' = [thread_memory EXCEPT ![target] = NoThread]
        /\ freed' = freed \cup {thread_memory[target]}
        /\ UNCHANGED <<pluginid, job_queue, exit, pc, running, life>>
    BY DEF JoinAndErase, Erase
  <1>1. LiveIsBound'
    <2> SUFFICES ASSUME NEW u \in Thread PROVE LiveOK(u)'
      BY DEF LiveIsBound
    <2>1. LiveOK(u) /\ WorkerOK(u)
      BY <1>0, <1>a DEF LiveIsBound, ThreadInv
    <2>2. pc[u] \notin {"unborn", "done"} => thread_memory'[pluginid[u]] = u
      BY <1>a, <1>b, <1>c, <2>1 DEF LiveOK, WorkerOK, TypeOK, WorkerTypeOK
    <2>3. exit[u] => u \in freed'
      BY <1>c, <2>1 DEF LiveOK
    <2> QED
      BY <1>c, <2>1, <2>2, <2>3 DEF LiveOK
  <1>2. JobsAreCurrent'
    <2>1. \A q \in Plugin : Handle(q)' = Handle(q)
      BY DEF Handle, IsNew
    <2> QED
      BY <1>0, <1>a, <1>c, <2>1 DEF JobsAreCurrent, JobsOK, Executing, ThreadInv, WorkerOK
  <1> QED
    BY <1>1, <1>2 DEF CalmInv

\* Event preserves CalmInv in the calm case.
LEMMA EventCalm ==
  ASSUME BaseInv, QuietInv, CalmInv, Event
  PROVE  CalmInv'
  <1> USE DEF Event, loaderVars, listVars, libVars, envVars
  <1>0. LoadsAreNew /\ SlotInv /\ LiveIsBound /\ JobsAreCurrent
    BY DEF QuietInv, CalmInv
  <1>a. TypeOK /\ ThreadInv
    BY DEF BaseInv
  <1> DEFINE ts == {thread_memory[p] : p \in {q \in listed : handle[q] # NoLib /\ enabled[q]}} \ {NoThread}
  <1>b. /\ GiveJob(ts, EventJob) /\ UNCHANGED <<listVars, libVars, queue, loaderVars>>
        /\ UNCHANGED <<thread_memory, freed, pluginid, exit, pc, running, life>>
    BY DEF SubmitJob
  <1>c. ts \in SUBSET Thread /\ \A t \in ts : pluginid[t] \in listed
    BY <1>a DEF TypeOK, LoaderTypeOK, WorkerTypeOK, ThreadInv, BoundOK
  <1>d. EventJob \in Job /\ EventJob.kind = "event"
    BY DEF EventJob, Job, JobKind
  <1>1. LiveIsBound'
    BY <1>0, <1>b DEF LiveIsBound, LiveOK
  <1>2. JobsAreCurrent'
    <2>1. \A q \in Plugin : Handle(q)' = Handle(q)
      BY <1>b DEF Handle, IsNew
    <2> QED
      BY <1>0, <1>b, <1>c, <1>d, <2>1, JobGivenCalm
  <1> QED
    BY <1>1, <1>2 DEF CalmInv

\* A worker's step that takes jobs only from its own queue preserves CalmInv.
LEMMA WorkerSteppedCalm ==
  ASSUME BaseInv, CalmInv, othersUnchanged, NEW t \in Thread, pc[t] \notin {"unborn", "done"},
         UNCHANGED <<thread_memory, freed, pluginid, exit>>,
         pc'[t] # "unborn", pc'[t] \in {"returning", "done"} => exit[t],
         \A u \in Thread : u # t => pc'[u] = pc[u] /\ running'[u] = running[u] /\ job_queue'[u] = job_queue[u],
         \A i \in DOMAIN job_queue'[t] : \E j \in DOMAIN job_queue[t] : job_queue'[t][i] = job_queue[t][j],
         pc'[t] \in {"job", "wait"} => running'[t].lib = Handle(pluginid[t])
  PROVE  CalmInv'
  <1> USE DEF othersUnchanged, listVars, loaderVars, libVars, envVars
  <1>0. LiveIsBound /\ JobsAreCurrent
    BY DEF CalmInv
  <1>1. LiveIsBound'
    BY <1>0 DEF LiveIsBound, LiveOK
  <1>2. ASSUME NEW u \in Thread PROVE JobsOK(u)'
    <2>1. JobsOK(u)
      BY <1>0 DEF JobsAreCurrent
    <2>2. Handle(pluginid[u])' = Handle(pluginid[u])
      BY DEF Handle, IsNew
    <2>3. CASE u = t
      <3>1. \A i \in DOMAIN job_queue'[t] :
              IF job_queue'[t][i].kind = "event" THEN pluginid[t] \in listed
              ELSE job_queue'[t][i].lib = Handle(pluginid[t])
        BY <2>1, <2>3 DEF JobsOK
      <3> QED
        BY <2>2, <2>3, <3>1 DEF JobsOK, Executing
    <2>4. CASE u # t
      BY <2>1, <2>2, <2>4 DEF JobsOK, Executing
    <2> QED
      BY <2>3, <2>4
  <1> QED
    BY <1>1, <1>2 DEF CalmInv, JobsAreCurrent

\* RunJob preserves CalmInv in the calm case.
LEMMA RunJobCalm ==
  ASSUME BaseInv, QuietInv, CalmInv, NEW t \in Thread, RunJob(t)
  PROVE  CalmInv'
  <1> USE DEF RunJob, StartJob
  <1>0. TypeOK /\ WorkerOK(t) /\ JobsOK(t)
    BY DEF BaseInv, TypeOK, ThreadInv, CalmInv, JobsAreCurrent
  <1>1. /\ DOMAIN job_queue[t] = 1..Len(job_queue[t]) /\ 1 \in DOMAIN job_queue[t]
        /\ Head(job_queue[t]) = job_queue[t][1] /\ job_queue[t][1] \in Job
        /\ job_queue'[t] = Tail(job_queue[t]) /\ pc'[t] = "job"
    BY <1>0 DEF TypeOK, WorkerTypeOK
  <1>2. ASSUME NEW i \in DOMAIN job_queue'[t]
        PROVE  i + 1 \in DOMAIN job_queue[t] /\ job_queue'[t][i] = job_queue[t][i + 1]
    BY <1>0, <1>1, <1>2 DEF TypeOK, WorkerTypeOK
  <1>3. running'[t].lib = Handle(pluginid[t])
    <2>1. CASE job_queue[t][1].kind = "event"
      <3>1. running'[t].lib = handle[pluginid[t]]
        BY <1>0, <1>1, <2>1 DEF TypeOK, WorkerTypeOK, Job
      <3>2. pluginid[t] \in listed
        BY <1>0, <1>1, <2>1 DEF JobsOK
      <3> QED
        BY <3>1, <3>2 DEF Handle, IsNew
    <2>2. CASE job_queue[t][1].kind # "event"
      <3>1. running'[t] = job_queue[t][1]
        BY <1>0, <1>1, <2>2 DEF TypeOK, WorkerTypeOK
      <3> QED
        BY <1>0, <1>1, <2>2, <3>1 DEF JobsOK
    <2> QED
      BY <2>1, <2>2
  <1>4. /\ pc[t] = "loop" /\ othersUnchanged /\ UNCHANGED <<thread_memory, freed, pluginid, exit>>
        /\ \A u \in Thread : u # t => /\ pc'[u] = pc[u] /\ running'[u] = running[u]
                                      /\ job_queue'[u] = job_queue[u]
    BY <1>0 DEF TypeOK, WorkerTypeOK
  <1> HIDE DEF RunJob, StartJob
  <1> QED
    BY <1>1, <1>2, <1>3, <1>4, WorkerSteppedCalm

\* The other steps of run() preserve CalmInv.
LEMMA OtherStepsCalm ==
  ASSUME BaseInv, CalmInv, NEW t \in Thread,
         CompleteJob(t) \/ AskForList(t) \/ ReadList(t) \/ DrainedQueue(t) \/ ReturnFromRun(t)
  PROVE  CalmInv'
  <1> USE DEF CompleteJob, FinishJob, AskForList, WaitForList, ReadList, GotList,
              DrainedQueue, Drained, ReturnFromRun, Return
  <1>1. WorkerTypeOK /\ LiveOK(t) /\ JobsOK(t)
    BY DEF BaseInv, TypeOK, CalmInv, LiveIsBound, JobsAreCurrent
  <1>2. UNCHANGED job_queue /\ UNCHANGED <<thread_memory, freed, pluginid, exit>> /\ othersUnchanged
    OBVIOUS
  <1>3. /\ pc[t] \notin {"unborn", "done"} /\ pc'[t] # "unborn"
        /\ pc'[t] \in {"returning", "done"} => exit[t]
        /\ \A u \in Thread : u # t => pc'[u] = pc[u]
    BY <1>1 DEF WorkerTypeOK, LiveOK
  <1>4. CASE CompleteJob(t)
    <2>1. /\ pc'[t] \notin {"job", "wait"}
          /\ \A u \in Thread : u # t => running'[u] = running[u]
      BY <1>1, <1>4 DEF WorkerTypeOK
    <2> HIDE DEF CompleteJob, AskForList, ReadList, DrainedQueue, ReturnFromRun
    <2> QED
      BY <1>2, <1>3, <2>1, WorkerSteppedCalm
  <1>5. CASE ~CompleteJob(t)
    <2>1. running' = running /\ (pc'[t] \in {"job", "wait"} => Executing(t))
      BY <1>1, <1>5 DEF WorkerTypeOK, Executing
    <2>2. pc'[t] \in {"job", "wait"} => running'[t].lib = Handle(pluginid[t])
      BY <1>1, <1>3, <2>1 DEF JobsOK
    <2> HIDE DEF CompleteJob, AskForList, ReadList, DrainedQueue, ReturnFromRun
    <2> QED
      BY <1>2, <1>3, <2>1, <2>2, WorkerSteppedCalm
  <1> QED
    BY <1>4, <1>5

\* In the calm case every step preserves CalmInv.
LEMMA NextCalm ==
  ASSUME BaseInv, QuietInv, CalmInv, Mishaps \cap {"throw", "overrun"} = {}, [Next]_vars
  PROVE  CalmInv'
  <1>1. CASE LoaderStep
    <2>1. ~GiveUpJoin /\ ~EndThreadOfCrashed
      BY DEF QuietInv, NoExceptionTask, GiveUpJoin, EndThreadOfCrashed
    <2> QED
      BY <1>1, <2>1, QuietStepCalm, EnablePluginCalm, CallThreadEndCalm, EndWorkerCalm,
         JoinWorkerCalm, MarkUnloadedCalm, LoadPluginCalm, OpenNewCalm, ActivateNewCalm,
         AddNewPluginCalm
         DEF LoaderStep
  <1>2. ASSUME NEW t \in Thread, WorkerStep(t) PROVE CalmInv'
    <2>1. ~CrashJob(t) /\ ~ReportException(t)
      BY DEF QuietInv, NoExceptionTask, CrashJob, ReportException, Reported
    <2> QED
      BY <1>2, <2>1, RunJobCalm, OtherStepsCalm DEF WorkerStep
  <1>3. CASE KtStep
    BY <1>3, EventCalm, QuietStepCalm DEF KtStep
  <1>4. CASE UNCHANGED vars
    <2>1. UNCHANGED <<workerVars, listVars, loaderVars>>
      BY <1>4 DEF vars
    <2>2. \A q \in Plugin : Handle(q)' = Handle(q)
      BY <2>1 DEF Handle, IsNew, listVars, loaderVars
    <2> QED
      BY <2>1, <2>2, LiveKept, JobsKept DEF CalmInv, listVars, loaderVars
  <1> QED
    BY <1>1, <1>2, <1>3, <1>4 DEF Next, Terminated

-----------------------------------------------------------------------------
(* The whole invariant, and what it implies.                               *)

\* IInv holds when loaderMain starts.
LEMMA InitIInv == Init => IInv
  BY InitBase, InitStage, InitRefs, InitLoads, InitSlot, InitNoException, InitOrder, InitCalm DEF IInv

\* Every step preserves IInv, each part with the parts it rests on.
LEMMA NextIInv == IInv /\ [Next]_vars => IInv'
  <1> SUFFICES ASSUME IInv, [Next]_vars PROVE IInv'
    OBVIOUS
  <1>1. BaseInv' /\ StageInv'
    BY NextBase, StageStep DEF IInv
  <1>2. "badSymbols" \notin Mishaps => RefsAreExact'
    BY RefsStep DEF IInv
  <1>3. "duplicate" \notin Mishaps => LoadsAreNew' /\ SlotInv'
    BY LoadsStep, SlotStep DEF IInv
  <1>4. "throw" \notin Mishaps => NoExceptionTask'
    BY NoExceptionStep DEF IInv
  <1>5. Mishaps \cap {"throw", "overrun"} = {} => OrderInv'
    BY OrderStep DEF IInv
  <1>6. Calm => CalmInv'
    BY NextCalm DEF IInv, Calm, QuietInv
  <1> QED
    BY <1>1, <1>2, <1>3, <1>4, <1>5, <1>6 DEF IInv, Calm

\* IInv is an invariant of the loader for every set of plugins, commands and
\* mishaps and any number of threads, requests and events.
THEOREM Invariance == Spec => []IInv
  BY InitIInv, NextIInv, PTL DEF Spec

\* The invariants answer for each job a live worker executes: its plugin is
\* enabled, or just being added, and holds the handle of the mapped library.
LEMMA CalmSafe ==
  ASSUME BaseInv, QuietInv, CalmInv
  PROVE  NoUseAfterUnload
  <1> SUFFICES ASSUME NEW t \in Thread, Executing(t)
               PROVE  running[t].lib # NoLib /\ running[t].lib = image[pluginid[t]]
    BY DEF NoUseAfterUnload
  <1> DEFINE p == pluginid[t]
  <1>1. p \in Plugin /\ thread_memory[p] = t /\ running[t].lib = Handle(p)
    BY DEF BaseInv, ThreadInv, WorkerOK, CalmInv, LiveIsBound, LiveOK, JobsAreCurrent, JobsOK, Executing
  <1>2. /\ enabled[p] \/ (lpc = "insert" /\ target = p)
        /\ ~(lpc = "unload" /\ target = p) /\ LibraryOK(p)
    BY <1>1 DEF QuietInv, SlotInv, Halfway, Thread, BaseInv, LibraryInv
  <1>3. CASE enabled[p]
    <2>1. handle[p] # NoLib /\ p \in listed /\ Holds(p)
      BY <1>2, <1>3 DEF LibraryOK, Holds
    <2>2. handle[p] = image[p] /\ Handle(p) = handle[p]
      BY <1>2, <2>1 DEF LibraryOK, Handle, IsNew
    <2> QED
      BY <1>1, <2>1, <2>2
  <1>4. CASE lpc = "insert" /\ target = p
    <2>1. p \notin listed /\ local # NoLib /\ HoldsNew(p)
      BY <1>4 DEF QuietInv, LoadsAreNew, NewSteps, BaseInv, TargetInv, HoldsNew
    <2>2. Handle(p) = local /\ local = image[p]
      BY <1>2, <1>4, <2>1 DEF Handle, IsNew, LibraryOK
    <2> QED
      BY <1>1, <2>1, <2>2
  <1> QED
    BY <1>2, <1>3, <1>4

\* While no job throws or outlasts its join and no listed plugin is loaded a
\* second time, plugin code runs only from the library instance that is
\* mapped: unload_plugin closes it after joinAndShutdownThread, and never
\* under a running entrance, event or exit function.
THEOREM CalmIsSafe ==
  ASSUME Calm
  PROVE  Spec => []NoUseAfterUnload
  <1>1. IInv => NoUseAfterUnload
    BY CalmSafe DEF IInv, Calm, QuietInv
  <1> QED
    BY <1>1, Invariance, PTL

\* The invariants at the end of shutdownLoader: unloadAll has unloaded every
\* entry, so no plugin is enabled, bound or mapped, and no thread is left.
LEMMA CalmExit ==
  ASSUME BaseInv, StageInv, RefsAreExact, QuietInv, CalmInv
  PROVE  ShutdownIsClean
  <1> SUFFICES ASSUME stage = "exited"
               PROVE  /\ \A p \in Plugin : image[p] = NoLib /\ thread_memory[p] = NoThread
                      /\ \A t \in Thread : pc[t] \in {"unborn", "done"}
    BY DEF ShutdownIsClean
  <1>1. lpc = "idle" /\ \A p \in listed : handle[p] = NoLib
    BY DEF StageInv
  <1>2. ASSUME NEW p \in Plugin PROVE image[p] = NoLib /\ thread_memory[p] = NoThread
    <2>1. LibraryOK(p) /\ handle[p] = NoLib
      BY <1>1 DEF BaseInv, LibraryInv, LibraryOK
    <2>2. refs[p] = 0
      BY <1>1, <2>1 DEF RefsAreExact, Holds, HoldsNew
    <2> QED
      BY <1>1, <2>1, <2>2 DEF LibraryOK, QuietInv, SlotInv, Halfway
  <1>3. ASSUME NEW t \in Thread PROVE pc[t] \in {"unborn", "done"}
    BY <1>2 DEF BaseInv, ThreadInv, WorkerOK, CalmInv, LiveIsBound, LiveOK, Thread
  <1> QED
    BY <1>2, <1>3

\* In the calm case, and when every file that opens is a plugin, shutdownLoader
\* ends with every library closed and every plugin thread at its end,
\* whatever was requested or broadcast before and is still queued.
THEOREM CalmShutdownIsClean ==
  ASSUME Calm, "badSymbols" \notin Mishaps
  PROVE  Spec => []ShutdownIsClean
  <1>1. IInv => ShutdownIsClean
    BY CalmExit DEF IInv, Calm, QuietInv
  <1> QED
    BY <1>1, Invariance, PTL

-----------------------------------------------------------------------------
(* The lifecycle of the plugins.                                           *)

\* A plugin moves from one phase to another, and no other plugin does.
LEMMA Moved ==
  ASSUME NEW p \in Plugin, NEW from, NEW to, PhaseOf(p) = from, PhaseOf(p)' = to,
         \A q \in Plugin \ {p} : PhaseOf(q)' = PhaseOf(q)
  PROVE  Lifecycle!Move(p, from, to)
  BY DEF phase, Lifecycle!Move

\* No plugin moves.
LEMMA NobodyMoved ==
  ASSUME \A q \in Plugin : PhaseOf(q)' = PhaseOf(q)
  PROVE  phase' = phase
  BY DEF phase

\* What a config and a worker say of the phase, one value at a time.
LEMMA PhaseOfConfig ==
  ASSUME NEW p \in Plugin
  PROVE  /\ Handle(p) = NoLib => PhaseOf(p) = "unloaded"
         /\ Handle(p) # NoLib /\ ~Enabled(p) => PhaseOf(p) = "loaded"
         /\ Handle(p) # NoLib /\ Enabled(p) =>
              /\ thread_memory[p] = NoThread => PhaseOf(p) = "stopped"
              /\ \A t \in Thread : thread_memory[p] = t => PhaseOf(p) = ThreadPhase(t)
  BY DEF PhaseOf, Thread

LEMMA PhaseOfThread ==
  ASSUME NEW t \in Thread
  PROVE  /\ Runs(t, "entrance") => ThreadPhase(t) = "starting"
         /\ Runs(t, "event") => ThreadPhase(t) = "handling"
         /\ Runs(t, "exit") => ThreadPhase(t) = "stopping"
         /\ ~Executing(t) /\ life[t] = "none" => ThreadPhase(t) = "fresh"
         /\ ~Executing(t) /\ life[t] = "entrance" => ThreadPhase(t) = "ready"
         /\ ~Executing(t) /\ life[t] = "exit" => ThreadPhase(t) = "stopped"
  BY DEF ThreadPhase, Runs

\* A plugin stays in its phase while its config and its worker stay.
LEMMA ThreadStays ==
  ASSUME NEW t \in Thread, Executing(t)' <=> Executing(t), running'[t] = running[t], life'[t] = life[t]
  PROVE  ThreadPhase(t)' = ThreadPhase(t)
  <1>1. CASE Executing(t)
    BY <1>1 DEF ThreadPhase
  <1>2. CASE ~Executing(t)
    BY <1>2 DEF ThreadPhase
  <1> QED
    BY <1>1, <1>2

LEMMA ConfigStays ==
  ASSUME NEW p \in Plugin, UNCHANGED listVars,
         \/ UNCHANGED <<lpc, task, target, local>>
         \/ lpc \notin {"activate", "insert"} /\ lpc' \notin {"activate", "insert"}
  PROVE  Handle(p)' = Handle(p) /\ (Enabled(p)' <=> Enabled(p))
  BY DEF Handle, Enabled, IsNew, listVars

LEMMA PhaseStays ==
  ASSUME TypeOK, NEW p \in Plugin, Handle(p)' = Handle(p), Enabled(p)' <=> Enabled(p),
         thread_memory'[p] = thread_memory[p],
         \A t \in Thread : thread_memory[p] = t => ThreadPhase(t)' = ThreadPhase(t)
  PROVE  PhaseOf(p)' = PhaseOf(p)
  <1>1. thread_memory[p] \in Thread \cup {NoThread}
    BY DEF TypeOK, WorkerTypeOK
  <1>2. CASE Handle(p) = NoLib \/ ~Enabled(p) \/ thread_memory[p] = NoThread
    BY <1>2 DEF PhaseOf
  <1>3. CASE Handle(p) # NoLib /\ Enabled(p) /\ thread_memory[p] # NoThread
    <2>1. PICK t \in Thread : t = thread_memory[p]
      BY <1>1, <1>3
    <2>2. PhaseOf(p) = ThreadPhase(t)
      BY <1>3, <2>1 DEF PhaseOf
    <2>3. PhaseOf(p)' = ThreadPhase(t)'
      BY <1>3, <2>1 DEF PhaseOf
    <2> QED
      BY <2>1, <2>2, <2>3
  <1> QED
    BY <1>2, <1>3

\* The abstract initial state: the registered plugins are loaded, the others not.
LEMMA InitLifecycle == Init => Lifecycle!Init
  <1> SUFFICES ASSUME Init, NEW p \in Plugin PROVE PhaseOf(p) \in {"unloaded", "loaded"}
    BY DEF Lifecycle!Init, phase
  <1>1. ~Enabled(p)
    BY DEF Init, Enabled, IsNew
  <1> QED
    BY <1>1, PhaseOfConfig

\* The loader starts, ends and interrupts no job of a worker.
LEMMA LoaderKeepsThreads ==
  ASSUME TypeOK, LoaderStep, NEW t \in Thread
  PROVE  ThreadPhase(t)' = ThreadPhase(t)
  <1>0. WorkerTypeOK /\ target \in Plugin \cup {NoPlugin}
    BY DEF TypeOK, LoaderTypeOK
  <1>1. ASSUME UNCHANGED <<pc, running, life>> PROVE ThreadPhase(t)' = ThreadPhase(t)
    BY <1>1, ThreadStays DEF Executing
  <1>2. CASE EnablePlugin \/ ActivateNew
    <2>1. CASE UNCHANGED workerVars
      BY <1>1, <2>1 DEF workerVars
    <2>2. ASSUME NEW u \in Thread, IsNext(u), pc' = [pc EXCEPT ![u] = "loop"],
                 UNCHANGED <<running, life>>
          PROVE  ThreadPhase(t)' = ThreadPhase(t)
      <3>1. Executing(t)' <=> Executing(t)
        BY <1>0, <2>2 DEF Executing, IsNext, WorkerTypeOK
      <3> QED
        BY <2>2, <3>1, ThreadStays
    <2> QED
      BY <1>2, <2>1, <2>2 DEF EnablePlugin, ActivateNew, AddThread
  <1>3. CASE LoaderStep /\ ~EnablePlugin /\ ~ActivateNew
    BY <1>1, <1>3 DEF LoaderStep, workerVars, PopTask, ShutdownLoader, AcquireList, ReleaseList,
       Visit, CallThreadEnd, EndWorker, End, JoinWorker, GiveUpJoin, JoinAndErase, MarkDisabled,
       EndThreadOfCrashed, EndThread, CloseLibrary, MarkUnloaded, LoadPlugin, LoadFails, OpenNew,
       AddNewPlugin
  <1> QED
    BY <1>2, <1>3

\* A step of the loader that changes one config only.
LEMMA OthersStay ==
  ASSUME TypeOK, LoaderStep, NEW p \in Plugin, target = p, target' \in {p, NoPlugin},
         NEW q \in Plugin \ {p},
         handle'[q] = handle[q], enabled'[q] <=> enabled[q], thread_memory'[q] = thread_memory[q]
  PROVE  PhaseOf(q)' = PhaseOf(q)
  <1>1. q \in Plugin /\ target # q /\ target' # q
    BY LoaderAssumption
  <1>2. Handle(q) = handle[q] /\ Handle(q)' = handle'[q]
    BY <1>1 DEF Handle, IsNew
  <1>3. (Enabled(q) <=> enabled[q]) /\ (Enabled(q)' <=> enabled'[q])
    BY <1>1 DEF Enabled, IsNew
  <1> QED
    BY <1>1, <1>2, <1>3, LoaderKeepsThreads, PhaseStays

\* The loader's steps on the way between two changes of a config.
LEMMA QuietPhase ==
  ASSUME TypeOK,
         \/ PopTask \/ ShutdownLoader \/ AcquireList \/ ReleaseList
         \/ CallThreadEnd \/ EndWorker \/ CloseLibrary \/ LoadFails
         \/ \E p \in Plugin : Visit(p)
  PROVE  phase' = phase
  <1> USE DEF loaderVars, listVars, libVars, envVars
  <1>1. UNCHANGED <<listVars, thread_memory>> /\ lpc \notin {"activate", "insert"}
    BY DEF PopTask, ShutdownLoader, AcquireList, ReleaseList, CallThreadEnd, EndWorker, End,
           CloseLibrary, LoadFails, Visit, workerVars
  <1>2. lpc' \notin {"activate", "insert"}
    BY FirstStepFacts DEF PopTask, ShutdownLoader, AcquireList, ReleaseList, CallThreadEnd,
           EndWorker, CloseLibrary, LoadFails, Visit
  <1>3. LoaderStep
    BY DEF LoaderStep
  <1>4. ASSUME NEW q \in Plugin PROVE PhaseOf(q)' = PhaseOf(q)
    <2>1. Handle(q)' = Handle(q) /\ (Enabled(q)' <=> Enabled(q)) /\ thread_memory'[q] = thread_memory[q]
      BY <1>1, <1>2, ConfigStays
    <2> QED
      BY <1>3, <2>1, LoaderKeepsThreads, PhaseStays
  <1> QED
    BY <1>4, NobodyMoved

\* LoadPlugin and OpenNew load a plugin that was not.
LEMMA LoadPhase ==
  ASSUME BaseInv, LoadsAreNew, LoadPlugin \/ OpenNew
  PROVE  Lifecycle!Next
  <1> USE DEF LoadPlugin, OpenNew, listVars, libVars, envVars
  <1>0. TypeOK /\ TargetInv /\ LibraryInv
    BY DEF BaseInv
  <1>1. PICK p \in Plugin : p = target
    BY <1>0 DEF TargetInv, TypeOK, LoaderTypeOK, EntrySteps, NewSteps, Locked
  <1>2. target' = target /\ ~IsNew(p) /\ handle[p] = NoLib /\ LibraryOK(p) /\ LoaderStep
        /\ thread_memory' = thread_memory
    BY <1>0, <1>1 DEF IsNew, TargetInv, LoadsAreNew, NewSteps, LibraryInv, LibraryOK, LoaderStep, workerVars
  <1>3. image'[p] # NoLib
    BY <1>0, <1>1 DEF libOpen, TypeOK, LoaderTypeOK
  <1>4. PhaseOf(p) = "unloaded"
    BY <1>2, PhaseOfConfig DEF Handle
  <1>5. Handle(p)' # NoLib /\ ~Enabled(p)'
    <2>1. CASE LoadPlugin
      <3>1. handle'[p] = image'[p] /\ ~enabled'[p] /\ ~IsNew(p)'
        BY <1>0, <1>1, <2>1 DEF TypeOK, LoaderTypeOK, IsNew
      <3> QED
        BY <1>3, <3>1 DEF Handle, Enabled
    <2>2. CASE OpenNew
      <3>1. IsNew(p)' /\ local' # NoLib /\ ~(lpc' = "insert" /\ task'.kind = "LOAD_NEW_ACTIVATENOW")
        BY <1>1, <1>3, <2>2 DEF IsNew, LoadsAreNew, NewSteps
      <3> QED
        BY <3>1 DEF Handle, Enabled
    <2> QED
      BY <2>1, <2>2
  <1>6. PhaseOf(p)' = "loaded"
    BY <1>5 DEF PhaseOf
  <1>7. ASSUME NEW q \in Plugin \ {p} PROVE PhaseOf(q)' = PhaseOf(q)
    <2>1. handle'[q] = handle[q] /\ (enabled'[q] <=> enabled[q])
      BY <1>0, <1>1 DEF TypeOK, LoaderTypeOK
    <2> QED
      BY <1>0, <1>1, <1>2, <2>1, OthersStay
  <1>8. Lifecycle!Load(p)
    BY <1>4, <1>6, <1>7, Moved DEF Lifecycle!Load
  <1> QED
    BY <1>8 DEF Lifecycle!Next

\* enable_plugin makes the plugin's thread, which has called nothing yet.
LEMMA EnablePhase ==
  ASSUME BaseInv, LoadsAreNew, SlotInv, EnablePlugin \/ ActivateNew
  PROVE  [Lifecycle!Next]_phase
  <1> USE DEF EnablePlugin, ActivateNew, listVars, libVars, envVars
  <1>0. TypeOK /\ TargetInv /\ LibraryInv /\ ThreadInv
    BY DEF BaseInv
  <1>1. PICK p \in Plugin : p = target
    BY <1>0 DEF TargetInv, TypeOK, LoaderTypeOK, EntrySteps, NewSteps, Locked
  <1>2. target' = target /\ LibraryOK(p) /\ LoaderStep
    BY <1>1, <1>0 DEF LibraryInv, LoaderStep
  <1>3. CASE EnablePlugin /\ (enabled[target] \/ handle[target] = NoLib)
    <2>1. UNCHANGED <<listVars, thread_memory>> /\ lpc = "enable" /\ lpc' = "next"
      BY <1>3 DEF workerVars
    <2>2. ASSUME NEW q \in Plugin PROVE PhaseOf(q)' = PhaseOf(q)
      <3>1. Handle(q)' = Handle(q) /\ (Enabled(q)' <=> Enabled(q)) /\ thread_memory'[q] = thread_memory[q]
        BY <2>1, ConfigStays
      <3> QED
        BY <1>0, <1>2, <3>1, LoaderKeepsThreads, PhaseStays
    <2> QED
      BY <2>2, NobodyMoved
  <1>4. CASE ActivateNew \/ (~enabled[target] /\ handle[target] # NoLib)
    <2>1. Handle(p) # NoLib /\ ~Enabled(p)
      <3>1. CASE EnablePlugin
        BY <1>1, <1>4, <3>1 DEF Handle, Enabled, IsNew
      <3>2. CASE ActivateNew
        BY <1>0, <1>1, <3>2 DEF Handle, Enabled, IsNew, LoadsAreNew, NewSteps, TargetInv
      <3> QED
        BY <3>1, <3>2
    <2>2. Handle(p)' # NoLib /\ Enabled(p)'
      <3>1. CASE EnablePlugin
        <4>1. enabled'[p] /\ handle'[p] # NoLib /\ ~IsNew(p)'
          BY <1>0, <1>1, <1>4, <3>1 DEF TypeOK, LoaderTypeOK, IsNew
        <4> QED
          BY <4>1 DEF Handle, Enabled
      <3>2. CASE ActivateNew
        <4>1. IsNew(p)' /\ local' # NoLib /\ lpc' = "insert" /\ task'.kind = "LOAD_NEW_ACTIVATENOW"
          BY <1>0, <1>1, <3>2 DEF IsNew, LoadsAreNew, NewSteps, TargetInv
        <4> QED
          BY <4>1 DEF Handle, Enabled
      <3> QED
        BY <3>1, <3>2
    <2>3. thread_memory[p] = NoThread
      <3>1. ~enabled[p] /\ lpc \notin Halfway
        BY <1>0, <1>1, <1>2, <1>4 DEF LoadsAreNew, NewSteps, LibraryOK, Halfway
      <3> QED
        BY <3>1 DEF SlotInv
    <2>4. PICK job : AddThread(p, job)
      BY <1>1, <1>4
    <2>5. PICK t \in Thread : IsNext(t) /\ thread_memory' = [thread_memory EXCEPT ![p] = t]
      BY <2>3, <2>4 DEF AddThread
    <2>6. ThreadPhase(t) = "fresh" /\ ThreadPhase(t)' = ThreadPhase(t)
      <3>1. life[t] = "none" /\ ~Executing(t)
        BY <1>0, <2>5 DEF ThreadInv, WorkerOK, IsNext, Executing
      <3> QED
        BY <1>0, <1>2, <3>1, PhaseOfThread, LoaderKeepsThreads
    <2>7. PhaseOf(p) = "loaded"
      BY <2>1, PhaseOfConfig
    <2>8. PhaseOf(p)' = "fresh"
      <3>1. thread_memory'[p] = t /\ t # NoThread
        BY <1>0, <2>5 DEF TypeOK, WorkerTypeOK, Thread
      <3>2. PhaseOf(p)' = ThreadPhase(t)'
        BY <2>2, <3>1 DEF PhaseOf
      <3> QED
        BY <2>6, <3>2
    <2>9. ASSUME NEW q \in Plugin \ {p} PROVE PhaseOf(q)' = PhaseOf(q)
      <3>1. /\ handle'[q] = handle[q] /\ (enabled'[q] <=> enabled[q])
            /\ thread_memory'[q] = thread_memory[q]
        BY <1>0, <1>1, <2>5 DEF TypeOK, LoaderTypeOK, WorkerTypeOK
      <3> QED
        BY <1>0, <1>1, <1>2, <3>1, OthersStay
    <2>10. Lifecycle!Enable(p)
      BY <2>7, <2>8, <2>9, Moved DEF Lifecycle!Enable
    <2> QED
      BY <2>10 DEF Lifecycle!Next
  <1> QED
    BY <1>3, <1>4

\* The worker that is joined has returned from its exit function: its plugin
\* stays stopped.
LEMMA JoinPhase ==
  ASSUME BaseInv, OrderInv, JoinWorker
  PROVE  phase' = phase
  <1> USE DEF JoinWorker, JoinAndErase, Erase, listVars, libVars, envVars
  <1>0. TypeOK /\ TargetInv /\ LoaderStep
    BY DEF BaseInv, LoaderStep
  <1>1. PICK p \in Plugin : p = target
    BY <1>0 DEF TargetInv, TypeOK, LoaderTypeOK, EntrySteps, Locked
  <1>2. PICK t \in Thread : t = thread_memory[p]
    BY <1>0, <1>1 DEF TargetInv, TypeOK, WorkerTypeOK
  <1>3. ~Executing(t) /\ life[t] = "exit"
    BY <1>1, <1>2 DEF isBusy, OrderInv, JobOrder, Executing
  <1>4. Handle(p) # NoLib /\ Enabled(p)
    BY <1>0, <1>1 DEF TargetInv, DisableSteps, Handle, Enabled, IsNew
  <1>5. PhaseOf(p) = "stopped"
    BY <1>2, <1>3, <1>4, PhaseOfConfig, PhaseOfThread
  <1>6. PhaseOf(p)' = "stopped"
    <2>1. Handle(p)' = Handle(p) /\ (Enabled(p)' <=> Enabled(p))
      BY ConfigStays
    <2>2. thread_memory'[p] = NoThread
      BY <1>0, <1>1 DEF TypeOK, WorkerTypeOK
    <2> QED
      BY <1>4, <2>1, <2>2 DEF PhaseOf
  <1>7. ASSUME NEW q \in Plugin \ {p} PROVE PhaseOf(q)' = PhaseOf(q)
    <2>1. /\ handle'[q] = handle[q] /\ (enabled'[q] <=> enabled[q])
          /\ thread_memory'[q] = thread_memory[q] /\ target' = target
      BY <1>0, <1>1 DEF TypeOK, WorkerTypeOK
    <2> QED
      BY <1>0, <1>1, <2>1, OthersStay
  <1> QED
    BY <1>5, <1>6, <1>7, NobodyMoved

\* addNewPlugin moves the local config to the list as it is.
LEMMA AddPhase ==
  ASSUME BaseInv, LoadsAreNew, AddNewPlugin
  PROVE  phase' = phase
  <1> USE DEF AddNewPlugin, listVars, libVars, envVars
  <1>0. TypeOK /\ TargetInv /\ LoaderStep
    BY DEF BaseInv, LoaderStep
  <1>1. PICK p \in Plugin : p = target
    BY <1>0 DEF TargetInv, NewSteps
  <1>2. p \notin listed /\ lpc' = "idle" /\ target' = NoPlugin /\ thread_memory' = thread_memory
    BY <1>1 DEF LoadsAreNew, NewSteps, workerVars
  <1>3. IsNew(p) /\ ~IsNew(p)'
    BY <1>1, <1>2 DEF IsNew
  <1>4. handle'[p] = local /\ (enabled'[p] <=> task.kind = "LOAD_NEW_ACTIVATENOW")
    BY <1>0, <1>1, <1>2 DEF TypeOK, LoaderTypeOK
  <1>5. Handle(p)' = Handle(p) /\ (Enabled(p)' <=> Enabled(p))
    BY <1>3, <1>4 DEF Handle, Enabled
  <1>6. PhaseOf(p)' = PhaseOf(p)
    BY <1>0, <1>2, <1>5, LoaderKeepsThreads, PhaseStays
  <1>7. ASSUME NEW q \in Plugin \ {p} PROVE PhaseOf(q)' = PhaseOf(q)
    <2>1. handle'[q] = handle[q] /\ (enabled'[q] <=> enabled[q])
      BY <1>0, <1>1, <1>2 DEF TypeOK, LoaderTypeOK
    <2> QED
      BY <1>0, <1>1, <1>2, <2>1, OthersStay
  <1> QED
    BY <1>6, <1>7, NobodyMoved

\* A plugin is marked disabled when its thread is gone, and unloaded when it
\* is disabled.
LEMMA DisablePhase ==
  ASSUME BaseInv, SlotInv, NoExceptionTask, MarkDisabled \/ MarkUnloaded
  PROVE  Lifecycle!Next
  <1> USE DEF MarkDisabled, MarkUnloaded, listVars, libVars, envVars
  <1>0. TypeOK /\ TargetInv /\ LoaderStep
    BY DEF BaseInv, LoaderStep
  <1>1. PICK p \in Plugin : p = target
    BY <1>0 DEF TargetInv, TypeOK, LoaderTypeOK, EntrySteps, Locked
  <1>2. /\ ~IsNew(p) /\ ~IsNew(p)' /\ handle[p] # NoLib /\ target' = target
        /\ thread_memory' = thread_memory
    BY <1>0, <1>1 DEF IsNew, TargetInv, DisableSteps, workerVars
  <1>3. ASSUME NEW q \in Plugin \ {p} PROVE PhaseOf(q)' = PhaseOf(q)
    <2>1. handle'[q] = handle[q] /\ (enabled'[q] <=> enabled[q])
      BY <1>0, <1>1 DEF TypeOK, LoaderTypeOK
    <2> QED
      BY <1>0, <1>1, <1>2, <2>1, OthersStay
  <1>4. CASE MarkDisabled
    <2>1. PhaseOf(p) = "stopped"
      <3>1. enabled[p] /\ thread_memory[p] = NoThread
        BY <1>0, <1>1, <1>4 DEF TargetInv, DisableSteps, SlotInv
      <3> QED
        BY <1>2, <3>1, PhaseOfConfig DEF Handle, Enabled
    <2>2. PhaseOf(p)' = "loaded"
      <3>1. handle'[p] # NoLib /\ ~enabled'[p]
        BY <1>0, <1>1, <1>2, <1>4 DEF TypeOK, LoaderTypeOK
      <3> QED
        BY <1>2, <3>1 DEF PhaseOf, Handle, Enabled
    <2>3. Lifecycle!Disable(p)
      BY <1>3, <2>1, <2>2, Moved DEF Lifecycle!Disable
    <2> QED
      BY <2>3 DEF Lifecycle!Next
  <1>5. CASE MarkUnloaded
    <2>1. PhaseOf(p) = "loaded"
      <3>1. ~enabled[p]
        BY <1>1, <1>5 DEF NoExceptionTask
      <3> QED
        BY <1>2, <3>1, PhaseOfConfig DEF Handle, Enabled
    <2>2. PhaseOf(p)' = "unloaded"
      <3>1. handle'[p] = NoLib
        BY <1>0, <1>1, <1>5 DEF TypeOK, LoaderTypeOK
      <3> QED
        BY <1>2, <3>1 DEF PhaseOf, Handle
    <2>3. Lifecycle!Unload(p)
      BY <1>3, <2>1, <2>2, Moved DEF Lifecycle!Unload
    <2> QED
      BY <2>3 DEF Lifecycle!Next
  <1> QED
    BY <1>4, <1>5

\* A live worker is the one that the phase of its plugin speaks of, and what
\* it does moves no other plugin.
LEMMA WorkerMoves ==
  ASSUME BaseInv, QuietInv, CalmInv, NEW t \in Thread, pc[t] \notin {"unborn", "done"},
         UNCHANGED <<thread_memory, listVars, loaderVars>>,
         \A u \in Thread \ {t} : pc'[u] = pc[u] /\ running'[u] = running[u] /\ life'[u] = life[u]
  PROVE  \E p \in Plugin :
           /\ PhaseOf(p) = ThreadPhase(t)
           /\ PhaseOf(p)' = ThreadPhase(t)'
           /\ \A q \in Plugin \ {p} : PhaseOf(q)' = PhaseOf(q)
  <1>0. TypeOK /\ TargetInv /\ ThreadInv /\ LibraryInv
    BY DEF BaseInv
  <1>1. PICK p \in Plugin : p = pluginid[t] /\ thread_memory[p] = t
    BY <1>0 DEF ThreadInv, WorkerOK, CalmInv, LiveIsBound, LiveOK
  <1>2. t # NoThread
    BY DEF Thread
  <1>3. \/ enabled[p] /\ ~IsNew(p)
        \/ IsNew(p) /\ lpc = "insert" /\ task.kind = "LOAD_NEW_ACTIVATENOW"
    <2>1. enabled[p] \/ (lpc = "insert" /\ target = p /\ task.kind = "LOAD_NEW_ACTIVATENOW")
      BY <1>1, <1>2 DEF QuietInv, SlotInv, Halfway
    <2>2. lpc = "insert" /\ target = p => IsNew(p)
      BY DEF IsNew, QuietInv, LoadsAreNew, NewSteps
    <2>3. enabled[p] => ~IsNew(p)
      BY <1>0 DEF IsNew, LibraryInv, LibraryOK
    <2> QED
      BY <2>1, <2>2, <2>3
  <1>4. Handle(p) # NoLib /\ Enabled(p)
    BY <1>0, <1>3 DEF Handle, Enabled, TargetInv, LibraryInv, LibraryOK
  <1>5. ASSUME NEW q \in Plugin
        PROVE  /\ Handle(q)' = Handle(q) /\ (Enabled(q)' <=> Enabled(q))
               /\ thread_memory'[q] = thread_memory[q]
    BY ConfigStays DEF loaderVars
  <1>6. PhaseOf(p) = ThreadPhase(t)
    BY <1>1, <1>4, PhaseOfConfig
  <1>7. PhaseOf(p)' = ThreadPhase(t)'
    <2>1. Handle(p)' # NoLib /\ Enabled(p)' /\ thread_memory'[p] = t
      BY <1>1, <1>4, <1>5
    <2> QED
      BY <1>2, <2>1 DEF PhaseOf
  <1>8. ASSUME NEW q \in Plugin \ {p} PROVE PhaseOf(q)' = PhaseOf(q)
    <2>1. ASSUME NEW u \in Thread, thread_memory[q] = u PROVE ThreadPhase(u)' = ThreadPhase(u)
      <3>1. u # t
        BY <1>0, <1>1, <1>2, <2>1 DEF ThreadInv, BoundOK
      <3> QED
        BY <3>1, ThreadStays DEF Executing
    <2> QED
      BY <1>0, <1>5, <2>1, PhaseStays
  <1> QED
    BY <1>6, <1>7, <1>8

\* A job is called when the plugin is ready for it: the entrance function by
\* a fresh plugin, the others once that has returned.
LEMMA RunPhase ==
  ASSUME BaseInv, QuietInv, CalmInv, OrderInv, NEW t \in Thread, RunJob(t)
  PROVE  Lifecycle!Next
  <1> USE DEF RunJob, StartJob, othersUnchanged
  <1>0. TypeOK /\ JobOrder(t) /\ pc[t] = "loop" /\ ~Executing(t)
    BY DEF BaseInv, OrderInv, Executing
  <1>1. /\ 1 \in DOMAIN job_queue[t] /\ Head(job_queue[t]) = job_queue[t][1]
        /\ job_queue[t][1] \in Job
    BY <1>0 DEF TypeOK, WorkerTypeOK
  <1>2. \A u \in Thread \ {t} : pc'[u] = pc[u] /\ running'[u] = running[u] /\ life'[u] = life[u]
    BY <1>0 DEF TypeOK, WorkerTypeOK
  <1>3. PICK p \in Plugin : /\ PhaseOf(p) = ThreadPhase(t)
                            /\ PhaseOf(p)' = ThreadPhase(t)'
                            /\ \A q \in Plugin \ {p} : PhaseOf(q)' = PhaseOf(q)
    <2>1. pc[t] \notin {"unborn", "done"} /\ UNCHANGED <<thread_memory, listVars, loaderVars>>
      BY <1>0
    <2> HIDE DEF RunJob, StartJob, othersUnchanged
    <2> QED
      BY <1>2, <2>1, WorkerMoves
  <1>4. Executing(t)' /\ running'[t].kind = job_queue[t][1].kind
    BY <1>0, <1>1 DEF TypeOK, WorkerTypeOK, Executing, Job
  <1>5. life[t] # "exit"
    BY <1>0, <1>1 DEF JobOrder
  <1>6. job_queue[t][1].kind \in {"entrance", "event", "exit"}
    BY <1>1 DEF Job, JobKind
  <1>7. CASE job_queue[t][1].kind = "entrance"
    <2>1. PhaseOf(p) = "fresh"
      BY <1>0, <1>1, <1>3, <1>7, PhaseOfThread DEF JobOrder
    <2>2. PhaseOf(p)' = "starting"
      BY <1>3, <1>4, <1>7 DEF ThreadPhase
    <2>3. Lifecycle!CallEntrance(p)
      BY <1>3, <2>1, <2>2, Moved DEF Lifecycle!CallEntrance
    <2> QED
      BY <2>3 DEF Lifecycle!Next
  <1>8. CASE job_queue[t][1].kind # "entrance"
    <2>1. life[t] = "entrance"
      <3>1. life[t] # "none"
        BY <1>0, <1>8 DEF JobOrder, HasJob, Runs
      <3> QED
        BY <1>0, <1>5, <3>1 DEF TypeOK, WorkerTypeOK
    <2>2. PhaseOf(p) = "ready"
      BY <1>0, <1>3, <2>1, PhaseOfThread
    <2>3. CASE job_queue[t][1].kind = "event"
      <3>1. PhaseOf(p)' = "handling"
        BY <1>3, <1>4, <2>3 DEF ThreadPhase
      <3>2. Lifecycle!CallEvent(p)
        BY <1>3, <2>2, <3>1, Moved DEF Lifecycle!CallEvent
      <3> QED
        BY <3>2 DEF Lifecycle!Next
    <2>4. CASE job_queue[t][1].kind = "exit"
      <3>1. PhaseOf(p)' = "stopping"
        BY <1>3, <1>4, <2>4 DEF ThreadPhase
      <3>2. Lifecycle!CallExit(p)
        BY <1>3, <2>2, <3>1, Moved DEF Lifecycle!CallExit
      <3> QED
        BY <3>2 DEF Lifecycle!Next
    <2> QED
      BY <1>6, <1>8, <2>3, <2>4
  <1> QED
    BY <1>7, <1>8

\* A job returns to where the next one may be called.
LEMMA CompletePhase ==
  ASSUME BaseInv, QuietInv, CalmInv, OrderInv, NEW t \in Thread, CompleteJob(t)
  PROVE  Lifecycle!Next
  <1> USE DEF CompleteJob, FinishJob, othersUnchanged
  <1>0. TypeOK /\ JobOrder(t) /\ pc[t] = "job" /\ Executing(t) /\ running[t] \in Job
    BY DEF BaseInv, OrderInv, Executing, ThreadInv, WorkerOK
  <1>2. \A u \in Thread \ {t} : pc'[u] = pc[u] /\ running'[u] = running[u] /\ life'[u] = life[u]
    BY <1>0 DEF TypeOK, WorkerTypeOK
  <1>3. PICK p \in Plugin : /\ PhaseOf(p) = ThreadPhase(t)
                            /\ PhaseOf(p)' = ThreadPhase(t)'
                            /\ \A q \in Plugin \ {p} : PhaseOf(q)' = PhaseOf(q)
    <2>1. pc[t] \notin {"unborn", "done"} /\ UNCHANGED <<thread_memory, listVars, loaderVars>>
      BY <1>0
    <2> HIDE DEF CompleteJob, FinishJob, othersUnchanged
    <2> QED
      BY <1>2, <2>1, WorkerMoves
  <1>4. ~Executing(t)' /\ life'[t] = (IF running[t].kind = "event" THEN life[t] ELSE running[t].kind)
    BY <1>0 DEF TypeOK, WorkerTypeOK, Executing
  <1>5. running[t].kind \in {"entrance", "event", "exit"}
    BY <1>0 DEF Job, JobKind
  <1>6. CASE running[t].kind = "entrance"
    <2>1. PhaseOf(p) = "starting"
      BY <1>0, <1>3, <1>6, PhaseOfThread DEF Runs
    <2>2. PhaseOf(p)' = "ready"
      BY <1>3, <1>4, <1>6 DEF ThreadPhase
    <2>3. Lifecycle!EntranceReturn(p)
      BY <1>3, <2>1, <2>2, Moved DEF Lifecycle!EntranceReturn
    <2> QED
      BY <2>3 DEF Lifecycle!Next
  <1>7. CASE running[t].kind = "event"
    <2>1. life[t] = "entrance"
      <3>1. life[t] # "none"
        BY <1>0, <1>7 DEF JobOrder, HasJob, Runs
      <3>2. life[t] # "exit"
        BY <1>0, <1>7 DEF JobOrder, Runs
      <3> QED
        BY <1>0, <3>1, <3>2 DEF TypeOK, WorkerTypeOK
    <2>2. PhaseOf(p) = "handling"
      BY <1>0, <1>3, <1>7, PhaseOfThread DEF Runs
    <2>3. PhaseOf(p)' = "ready"
      BY <1>3, <1>4, <1>7, <2>1 DEF ThreadPhase
    <2>4. Lifecycle!EventReturn(p)
      BY <1>3, <2>2, <2>3, Moved DEF Lifecycle!EventReturn
    <2> QED
      BY <2>4 DEF Lifecycle!Next
  <1>8. CASE running[t].kind = "exit"
    <2>1. PhaseOf(p) = "stopping"
      BY <1>0, <1>3, <1>8, PhaseOfThread DEF Runs
    <2>2. PhaseOf(p)' = "stopped"
      BY <1>3, <1>4, <1>8 DEF ThreadPhase
    <2>3. Lifecycle!ExitReturn(p)
      BY <1>3, <2>1, <2>2, Moved DEF Lifecycle!ExitReturn
    <2> QED
      BY <2>3 DEF Lifecycle!Next
  <1> QED
    BY <1>5, <1>6, <1>7, <1>8

\* The steps of run() between two jobs.
LEMMA BetweenJobsPhase ==
  ASSUME BaseInv, QuietInv, CalmInv, NEW t \in Thread,
         AskForList(t) \/ ReadList(t) \/ DrainedQueue(t) \/ ReturnFromRun(t)
  PROVE  phase' = phase
  <1> USE DEF AskForList, WaitForList, ReadList, GotList, DrainedQueue, Drained,
              ReturnFromRun, Return, othersUnchanged
  <1>0. TypeOK
    BY DEF BaseInv
  <1>1. /\ pc[t] \notin {"unborn", "done"} /\ UNCHANGED <<thread_memory, listVars, loaderVars>>
        /\ UNCHANGED <<running, life>> /\ \A u \in Thread \ {t} : pc'[u] = pc[u]
    BY <1>0 DEF TypeOK, WorkerTypeOK
  <1>2. Executing(t)' <=> Executing(t)
    BY <1>0 DEF TypeOK, WorkerTypeOK, Executing
  <1> HIDE DEF AskForList, ReadList, DrainedQueue, ReturnFromRun
  <1>3. PICK p \in Plugin : /\ PhaseOf(p) = ThreadPhase(t)
                            /\ PhaseOf(p)' = ThreadPhase(t)'
                            /\ \A q \in Plugin \ {p} : PhaseOf(q)' = PhaseOf(q)
    BY <1>1, WorkerMoves
  <1>4. ThreadPhase(t)' = ThreadPhase(t)
    BY <1>1, <1>2, ThreadStays
  <1> QED
    BY <1>3, <1>4, NobodyMoved

\* In the calm case every step of the loader is one step of one plugin's
\* lifecycle, or of none.
LEMMA NextLifecycle ==
  ASSUME BaseInv, QuietInv, CalmInv, OrderInv, Mishaps \cap {"throw", "overrun"} = {}, [Next]_vars
  PROVE  [Lifecycle!Next]_phase
  <1>0. TypeOK /\ LoadsAreNew /\ SlotInv /\ NoExceptionTask
    BY DEF BaseInv, QuietInv
  <1>1. CASE LoaderStep
    <2>1. ~GiveUpJoin /\ ~EndThreadOfCrashed
      BY <1>0 DEF NoExceptionTask, GiveUpJoin, EndThreadOfCrashed
    <2> QED
      BY <1>0, <1>1, <2>1, QuietPhase, LoadPhase, EnablePhase, JoinPhase, AddPhase, DisablePhase
         DEF LoaderStep
  <1>2. ASSUME NEW t \in Thread, WorkerStep(t) PROVE [Lifecycle!Next]_phase
    <2>1. ~CrashJob(t) /\ ~ReportException(t)
      BY <1>0 DEF NoExceptionTask, CrashJob, ReportException, Reported
    <2> QED
      BY <1>2, <2>1, RunPhase, CompletePhase, BetweenJobsPhase DEF WorkerStep
  <1>3. CASE KtStep \/ UNCHANGED vars
    <2>1. UNCHANGED <<listVars, loaderVars, thread_memory, pc, running, life>>
      BY <1>3 DEF KtStep, Event, SubmitJob, LoaderExit, Request, vars, workerVars
    <2>2. ASSUME NEW q \in Plugin PROVE PhaseOf(q)' = PhaseOf(q)
      <3>1. /\ Handle(q)' = Handle(q) /\ (Enabled(q)' <=> Enabled(q))
            /\ thread_memory'[q] = thread_memory[q]
        BY <2>1, ConfigStays DEF loaderVars
      <3>2. \A t \in Thread : ThreadPhase(t)' = ThreadPhase(t)
        BY <2>1, ThreadStays DEF Executing
      <3> QED
        BY <1>0, <3>1, <3>2, PhaseStays
    <2> QED
      BY <2>2, NobodyMoved
  <1> QED
    BY <1>1, <1>2, <1>3 DEF Next, Terminated

\* What doc/libloader.md promises the author of a plugin, in the calm case:
\* the loader, its task queue and the plugin threads implement the lifecycle
\* of every plugin, entrance first, one event at a time, exit last, and no
\* unload before that, whatever tasks and events arrive meanwhile.
THEOREM CalmLifecycle ==
  ASSUME Calm
  PROVE  Spec => LifecycleSpec
  <1>1. IInv => BaseInv /\ QuietInv /\ CalmInv /\ OrderInv
    BY DEF IInv, Calm, QuietInv
  <1>2. Mishaps \cap {"throw", "overrun"} = {}
    BY DEF Calm
  <1>3. IInv /\ [Next]_vars => [Lifecycle!Next]_phase
    BY <1>1, <1>2, NextLifecycle
  <1> QED
    BY <1>3, InitLifecycle, Invariance, PTL DEF Spec, LifecycleSpec, Lifecycle!Spec
===============================================================================
