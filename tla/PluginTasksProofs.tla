--------------------------- MODULE PluginTasksProofs ---------------------------
(***************************************************************************)
(* FunctionsRunEnabled and StoreIsExact of PluginTasks for any number of   *)
(* workers, tasks and sessions.  The careful plugin waits in onDisable for *)
(* the tasks it made itself only.  That no task of a task is left then is  *)
(* an argument about the whole tree: a task has a greater number than the  *)
(* one that made it, so the smallest one whose function has not ended was  *)
(* made by one whose function has, and who waited for it.                  *)
(***************************************************************************)
EXTENDS PluginTasks, WellFoundedInduction, TLAPS

\* The function of task k has not ended.
Live(k) == step[k] \in {"numbered", "stored", "queued", "lookup", "invoke"}

\* The steps in which the function of a task is in the store.
Stored == {"stored", "queued", "lookup", "invoke", "log", "remove"}

\* The tasks are numbered in the order they are made in.
NumbersInv ==
  /\ \A k \in Id : step[k] = "absent" <=> k > auto_id
  /\ \A k \in 1..auto_id : maker[k] < k

\* A task whose function has ended has waited for the tasks it made.
MakersInv == \A k, j \in Id : step[k] \in Over /\ j \in Made(k) => step[j] \in Over

\* Functions have not ended only while the plugin may wait for them.
EnabledInv ==
  /\ loader_apis <=> plugin \in {"enabled", "exit"}
  /\ \A k \in Id : Live(k) => loader_apis

PlainInv == \A k \in Id : step[k] \in {"absent", "numbered", "lookup"} => k \notin plain

\* The store has no more than it needs as long as nothing has crashed.
StoreInv ==
  /\ Mapped => \A k \in Id \ plain : step[k] \in Stored => k \in function_storer
  /\ Mapped /\ Alive => \A k \in function_storer : k \in Id \ plain /\ step[k] \in Stored

NoneMissing == \A k \in Id : step[k] # "missing"

Inv == /\ TypeOK /\ NumbersInv /\ MakersInv /\ EnabledInv /\ PlainInv /\ StoreInv
       /\ NoneMissing

-----------------------------------------------------------------------------

\* A set of numbers that is not empty has a smallest one.
LEMMA SmallestIsThere ==
  ASSUME NEW T, T \subseteq Nat, T # {}
  PROVE  \E x \in T : \A y \in T : x <= y
<1>1. IsWellFoundedOn(OpToRel(<, Nat), Nat)
  BY NatLessThanWellFounded, Zenon
<1>2. PICK x \in T : \A y \in T : <<y, x>> \notin OpToRel(<, Nat)
  BY <1>1, WFMin, Zenon
<1>3. \A y \in T : ~(y < x)
  BY <1>2 DEF OpToRel
<1>4. \A y \in T : x \in Nat /\ y \in Nat
  OBVIOUS
<1>. QED
  BY <1>3, <1>4

\* When the plugin's own tasks have ended, every task has.
LEMMA AllHaveEnded ==
  ASSUME TypeOK, NumbersInv, MakersInv, NoneMissing, FunctionsEnded(0)
  PROVE  \A k \in Id : ~Live(k)
<1>. DEFINE T == {k \in Id : k <= auto_id /\ step[k] \notin Over}
<1>1. T = {}
  <2>. SUFFICES ASSUME T # {} PROVE FALSE
    OBVIOUS
  <2>1. T \subseteq Nat
    BY DEF Id
  <2>2. PICK k \in T : \A j \in T : k <= j
    BY <2>1, SmallestIsThere
  <2>3. /\ k \in Id /\ k \in 1..auto_id /\ step[k] \notin Over
        /\ maker[k] \in 0..MaxTasks /\ maker[k] < k
    BY TasksAssumption DEF NumbersInv, TypeOK, Id
  <2>4. k \in Made(maker[k])
    BY <2>3 DEF Made
  <2>5. CASE maker[k] = 0
    BY <2>3, <2>4, <2>5 DEF FunctionsEnded
  <2>6. CASE maker[k] # 0
    <3>1. maker[k] \in Id /\ maker[k] <= auto_id
      BY <2>3, <2>6, TasksAssumption DEF Id, TypeOK
    <3>2. step[maker[k]] \in Over
      <4>. SUFFICES ASSUME step[maker[k]] \notin Over PROVE FALSE
        OBVIOUS
      <4>1. maker[k] \in T
        BY <3>1
      <4>2. k <= maker[k]
        BY <2>2, <4>1
      <4>. QED
        BY <2>3, <3>1, <4>2, TasksAssumption DEF Id
    <3>. QED
      BY <2>3, <2>4, <3>1, <3>2 DEF MakersInv
  <2>. QED
    BY <2>5, <2>6
<1>2. ASSUME NEW k \in Id, Live(k) PROVE FALSE
  <2>1. ~(k > auto_id)
    BY <1>2 DEF Live, NumbersInv
  <2>2. k <= auto_id
    BY <2>1, TasksAssumption DEF Id, TypeOK
  <2>. QED
    BY <1>1, <1>2, <2>2 DEF Live, Over
<1>. QED
  BY <1>2

-----------------------------------------------------------------------------

LEMMA InitInv == Init => Inv
<1>. SUFFICES ASSUME Init PROVE Inv
  OBVIOUS
<1>. USE TasksAssumption DEF Id
<1>1. TypeOK
  BY DEF Init, TypeOK, Over
<1>2. NumbersInv
  BY DEF Init, NumbersInv
<1>3. MakersInv /\ EnabledInv /\ PlainInv /\ NoneMissing
  BY DEF Init, MakersInv, EnabledInv, PlainInv, NoneMissing, Live, Over
<1>4. StoreInv
  BY DEF Init, StoreInv, Stored
<1>. QED
  BY <1>1, <1>2, <1>3, <1>4 DEF Inv

LEMMA TypeStep == Inv /\ [Next]_vars => TypeOK'
<1>. SUFFICES ASSUME Inv, [Next]_vars PROVE TypeOK'
  OBVIOUS
<1>0. TypeOK /\ \A k \in Id : k \in Nat /\ k # 0
  BY TasksAssumption DEF Inv, Id
<1>1. ASSUME NEW p \in 0..MaxTasks, NEW isPlain \in BOOLEAN, NewTask(p, isPlain) PROVE TypeOK'
  <2>1. auto_id + 1 \in Id /\ auto_id' = auto_id + 1
    BY <1>1 DEF NewTask
  <2>2. auto_id' \in 0..MaxTasks
    BY <2>1, TasksAssumption DEF Id
  <2>3. maker' \in [Id -> 0..MaxTasks]
    BY <1>0, <1>1 DEF NewTask, TypeOK
  <2>4. plain' \subseteq Id
    BY <1>0, <1>1, <2>1 DEF NewTask, TypeOK
  <2>5. step' \in [Id -> {"absent", "numbered", "stored", "queued", "lookup", "missing", "invoke"} \cup Over]
    BY <1>0, <1>1, <2>1 DEF NewTask, TypeOK, At
  <2>. QED
    BY <1>0, <1>1, <2>2, <2>3, <2>4, <2>5 DEF NewTask, TypeOK
<1>2. CASE TakeTask
  <2>1. tasks \in Seq(Id) /\ tasks # <<>>
    BY <1>0, <1>2 DEF TakeTask, TypeOK
  <2>2. tasks' \in Seq(Id) /\ Head(tasks) \in Id
    BY <2>1, <1>2 DEF TakeTask
  <2>. QED
    BY <1>0, <1>2, <2>2 DEF TakeTask, TypeOK, At
<1>3. ASSUME NEW k \in Id, StoreTask(k) PROVE TypeOK'
  BY <1>0, <1>3 DEF StoreTask, TypeOK, At
<1>4. ASSUME NEW k \in Id, PushTask(k) PROVE TypeOK'
  <2>1. tasks' \in Seq(Id)
    BY <1>0, <1>4 DEF PushTask, TypeOK
  <2>. QED
    BY <1>0, <1>4, <2>1 DEF PushTask, TypeOK, At, Over
<1>5. ASSUME NEW k \in Id, task_interface(k) PROVE TypeOK'
  BY <1>0, <1>5 DEF task_interface, TypeOK, Runs, At, Over
<1>6. ASSUME NEW k \in Id, EndFunction(k) PROVE TypeOK'
  BY <1>0, <1>6 DEF EndFunction, TypeOK, Runs, At, Over
<1>7. ASSUME NEW k \in Id, LogFailure(k) PROVE TypeOK'
  BY <1>0, <1>7 DEF LogFailure, TypeOK, Runs, At, Over
<1>8. ASSUME NEW k \in Id, remove_task(k) PROVE TypeOK'
  BY <1>0, <1>8 DEF remove_task, TypeOK, Runs, At, Over
<1>9. ASSUME NEW k \in Id, Return(k) PROVE TypeOK'
  BY <1>0, <1>9 DEF Return, TypeOK, Runs, At, Over
<1>10. CASE FUNC_EXIT \/ reset_loader_apis \/ FUNC_ENTRANCE \/ Unload
  <2>1. sessions' \in Nat
    BY <1>0, <1>10 DEF FUNC_EXIT, reset_loader_apis, FUNC_ENTRANCE, Unload, TypeOK
  <2>2. UNCHANGED <<auto_id, tasks, step, plain, maker>>
    BY <1>10 DEF FUNC_EXIT, reset_loader_apis, FUNC_ENTRANCE, Unload
  <2>3. function_storer' \in {function_storer, {}}
    BY <1>10 DEF FUNC_EXIT, reset_loader_apis, FUNC_ENTRANCE, Unload
  <2>4. loader_apis' \in {loader_apis, TRUE, FALSE} /\ plugin' \in {"enabled", "exit", "disabled", "unloaded"}
    BY <1>10, Zenon DEF FUNC_EXIT, reset_loader_apis, FUNC_ENTRANCE, Unload
  <2>. QED
    BY <1>0, <2>1, <2>2, <2>3, <2>4 DEF TypeOK
<1>11. CASE Terminated \/ UNCHANGED vars
  BY <1>0, <1>11 DEF Terminated, vars, TypeOK
<1>. QED
  BY <1>1, <1>2, <1>3, <1>4, <1>5, <1>6, <1>7, <1>8, <1>9, <1>10, <1>11 DEF Next, TaskStep

\* How a task moves.  It finds its library mapped and, until its function has
\* ended, the loader's functions set, so nothing crashes before.
Ends(k)   == step[k] = "invoke" /\ FunctionsEnded(k) /\ step'[k] \in Over
StaysOver(k) == step[k] \in Over /\ step'[k] \in Over

LEMMA LiveMoves ==
  ASSUME Inv, NEW k \in Id, TaskStep(k) \/ (TakeTask /\ k = Head(tasks))
  PROVE  /\ \A j \in Id \ {k} : step'[j] = step[j]
         /\ UNCHANGED <<auto_id, plain, maker, loader_apis, plugin>>
         /\ (Live(k) /\ Live(k)') \/ Ends(k) \/ StaysOver(k)
         /\ step'[k] \notin {"absent", "numbered"}
         /\ step'[k] = "lookup" => k \notin plain
<1>0. TypeOK /\ EnabledInv /\ PlainInv /\ StoreInv
  BY DEF Inv
<1>a. Live(k) => loader_apis /\ Mapped
  BY <1>0 DEF EnabledInv, Mapped
<1>b. step[k] = "lookup" => k \in function_storer
  BY <1>0, <1>a DEF StoreInv, PlainInv, Stored, Live
<1>1. UNCHANGED <<auto_id, plain, maker, loader_apis, plugin>>
  BY DEF TaskStep, TakeTask, StoreTask, PushTask, task_interface, EndFunction, LogFailure,
         remove_task, Return
<1>2. CASE TakeTask /\ k = Head(tasks)
  BY <1>0, <1>1, <1>2 DEF TakeTask, At, Live, TypeOK
<1>3. CASE StoreTask(k)
  BY <1>0, <1>1, <1>3 DEF StoreTask, At, Live, TypeOK
<1>4. CASE PushTask(k)
  BY <1>0, <1>a, <1>1, <1>4 DEF PushTask, At, Live, TypeOK
<1>5. CASE task_interface(k)
  BY <1>0, <1>a, <1>b, <1>1, <1>5 DEF task_interface, Runs, At, Live, TypeOK
<1>6. CASE EndFunction(k)
  BY <1>0, <1>a, <1>1, <1>6 DEF EndFunction, Runs, At, Ends, Over, TypeOK
<1>7. CASE LogFailure(k)
  BY <1>0, <1>1, <1>7 DEF LogFailure, Runs, At, StaysOver, Over, TypeOK
<1>8. CASE remove_task(k)
  BY <1>0, <1>1, <1>8 DEF remove_task, Runs, At, StaysOver, Over, TypeOK
<1>9. CASE Return(k)
  BY <1>0, <1>1, <1>9 DEF Return, Runs, At, StaysOver, Over, TypeOK
<1>. QED
  BY <1>2, <1>3, <1>4, <1>5, <1>6, <1>7, <1>8, <1>9 DEF TaskStep

\* Such a move keeps everything but the store.
LEMMA MoveKeeps ==
  ASSUME Inv, NEW k \in Id, TaskStep(k) \/ (TakeTask /\ k = Head(tasks))
  PROVE  NumbersInv' /\ MakersInv' /\ EnabledInv' /\ PlainInv' /\ NoneMissing'
<1>0. NumbersInv /\ MakersInv /\ EnabledInv /\ PlainInv /\ NoneMissing
  BY DEF Inv
<1>1. /\ \A j \in Id \ {k} : step'[j] = step[j]
      /\ UNCHANGED <<auto_id, plain, maker, loader_apis, plugin>>
      /\ (Live(k) /\ Live(k)') \/ Ends(k) \/ StaysOver(k)
      /\ step'[k] \notin {"absent", "numbered"}
      /\ step'[k] = "lookup" => k \notin plain
  BY LiveMoves
<1>2. NumbersInv'
  <2>1. step[k] # "absent"
    BY <1>1 DEF Live, Ends, StaysOver, Over
  <2>. QED
    BY <1>0, <1>1, <2>1 DEF NumbersInv
<1>3. MakersInv'
  <2>. SUFFICES ASSUME NEW i \in Id, NEW j \in Id, step'[i] \in Over, j \in Made(i)
                PROVE  step'[j] \in Over
    BY <1>1 DEF MakersInv, Made
  <2>1. CASE i = k /\ Ends(k)
    <3>1. step[j] \in Over
      BY <2>1 DEF Ends, FunctionsEnded
    <3>. QED
      BY <1>1, <2>1, <3>1 DEF Ends
  <2>2. CASE step[i] \in Over
    <3>1. step[j] \in Over
      BY <1>0, <2>2 DEF MakersInv
    <3>. QED
      BY <1>1, <3>1 DEF Live, Ends, StaysOver, Over
  <2>. QED
    BY <1>1, <2>1, <2>2 DEF Live, Ends, StaysOver, Over
<1>4. EnabledInv'
  BY <1>0, <1>1 DEF EnabledInv, Live, Ends, StaysOver, Over
<1>5. PlainInv'
  BY <1>0, <1>1 DEF PlainInv
<1>6. NoneMissing'
  BY <1>0, <1>1 DEF NoneMissing, Live, Ends, StaysOver, Over
<1>. QED
  BY <1>2, <1>3, <1>4, <1>5, <1>6


\* A new task: its maker's function has not ended.
LEMMA NewTaskKeeps ==
  ASSUME Inv, NEW p \in 0..MaxTasks, NEW isPlain \in BOOLEAN, NewTask(p, isPlain)
  PROVE  NumbersInv' /\ MakersInv' /\ EnabledInv' /\ PlainInv' /\ NoneMissing' /\ StoreInv'
<1>0. TypeOK /\ NumbersInv /\ MakersInv /\ EnabledInv /\ PlainInv /\ NoneMissing /\ StoreInv
  BY DEF Inv
<1>. DEFINE k == auto_id + 1
<1>1. /\ k \in Id /\ auto_id' = k /\ auto_id \in Nat
      /\ step[k] = "absent" /\ step'[k] \in {"stored", "numbered"}
      /\ \A j \in Id \ {k} : step'[j] = step[j]
      /\ UNCHANGED <<function_storer, loader_apis, plugin>>
  BY <1>0, TasksAssumption DEF NewTask, At, TypeOK
<1>2. /\ maker'[k] = p /\ \A j \in Id \ {k} : maker'[j] = maker[j]
      /\ step'[k] = "numbered" => k \notin plain'
      /\ step'[k] # "numbered" => k \in plain'
      /\ \A j \in Id \ {k} : j \in plain' <=> j \in plain
  BY <1>0, <1>1 DEF NewTask, At, TypeOK, PlainInv
<1>3. /\ \A j \in Id : j \in Nat /\ j >= 1
      /\ 1..auto_id \subseteq Id
      /\ \A j \in Id \ {k} : j > k <=> j > auto_id
      /\ \A j \in 1..k : j # k => j \in 1..auto_id
  BY <1>1, TasksAssumption DEF Id
<1>4. loader_apis /\ p < k /\ (p # 0 => p \in Id /\ p # k /\ step[p] = "invoke")
  <2>1. CASE p = 0
    BY <1>0, <1>1, <2>1 DEF NewTask, EnabledInv
  <2>2. CASE p # 0
    <3>1. p \in Id /\ step[p] = "invoke"
      BY <2>2, TasksAssumption DEF NewTask, Id
    <3>2. ~(p > auto_id)
      BY <1>0, <3>1 DEF NumbersInv
    <3>. QED
      BY <1>0, <1>1, <1>3, <3>1, <3>2 DEF EnabledInv, Live
  <2>. QED
    BY <2>1, <2>2
<1>. HIDE DEF k
<1>5. NumbersInv'
  <2>1. ASSUME NEW j \in Id PROVE step'[j] = "absent" <=> j > auto_id'
    <3>1. CASE j = k
      BY <1>1, <1>3, <3>1
    <3>2. CASE j # k
      BY <1>0, <1>1, <1>3, <3>2 DEF NumbersInv
    <3>. QED
      BY <3>1, <3>2
  <2>2. ASSUME NEW j \in 1..k PROVE maker'[j] < j
    <3>1. CASE j = k
      BY <1>2, <1>4, <3>1
    <3>2. CASE j # k
      BY <1>0, <1>2, <1>3, <3>2 DEF NumbersInv
    <3>. QED
      BY <3>1, <3>2
  <2>. QED
    BY <1>1, <2>1, <2>2 DEF NumbersInv
<1>6. MakersInv'
  <2>. SUFFICES ASSUME NEW i \in Id, NEW j \in Id, step'[i] \in Over, j \in 1..k, maker'[j] = i
                PROVE  step'[j] \in Over
    BY <1>1 DEF MakersInv, Made
  <2>1. i # k /\ step[i] \in Over
    BY <1>1 DEF Over
  <2>2. j # k
    <3>1. i # 0
      BY TasksAssumption DEF Id
    <3>2. i = p => step[i] = "invoke"
      BY <1>4, <3>1
    <3>3. i # p
      BY <2>1, <3>2 DEF Over
    <3>. QED
      BY <1>2, <3>3
  <2>3. j \in Made(i)
    BY <1>2, <1>3, <2>2 DEF Made
  <2>. QED
    BY <1>0, <1>1, <2>1, <2>2, <2>3 DEF MakersInv
<1>7. EnabledInv'
  BY <1>0, <1>1, <1>4 DEF EnabledInv, Live
<1>8. PlainInv'
  BY <1>0, <1>1, <1>2 DEF PlainInv
<1>9. NoneMissing'
  BY <1>0, <1>1 DEF NoneMissing
<1>10. StoreInv'
  <2>1. k \notin function_storer \/ ~Mapped \/ ~Alive
    BY <1>0, <1>1 DEF StoreInv, Stored
  <2>2. Mapped' = Mapped /\ Alive
    BY <1>1 DEF Mapped, NewTask, At
  <2>3. ASSUME Mapped, NEW j \in Id \ plain', step'[j] \in Stored PROVE j \in function_storer
    <3>1. j # k
      BY <1>1, <1>2, <2>3 DEF Stored
    <3>. QED
      BY <1>0, <1>1, <1>2, <2>3, <3>1 DEF StoreInv
  <2>4. ASSUME Mapped, NEW j \in function_storer PROVE j \in Id \ plain' /\ step'[j] \in Stored
    <3>1. j # k
      BY <2>1, <2>2, <2>4
    <3>. QED
      BY <1>0, <1>1, <1>2, <2>2, <2>4, <3>1 DEF StoreInv
  <2>. QED
    BY <1>1, <2>2, <2>3, <2>4 DEF StoreInv
<1>. QED
  BY <1>5, <1>6, <1>7, <1>8, <1>9, <1>10


\* The store through the steps of a task.
LEMMA MoveKeepsStore ==
  ASSUME Inv, NEW k \in Id, TaskStep(k) \/ (TakeTask /\ k = Head(tasks))
  PROVE  StoreInv'
<1>0. TypeOK /\ StoreInv /\ EnabledInv /\ PlainInv
  BY DEF Inv
<1>1. /\ \A j \in Id \ {k} : step'[j] = step[j]
      /\ plain' = plain /\ Mapped' = Mapped /\ Alive
  BY LiveMoves DEF Mapped, TaskStep, TakeTask, StoreTask, PushTask, task_interface, EndFunction,
                   LogFailure, remove_task, Return, Runs, At
<1>2. \* It is enough to look at the task itself.
      ASSUME /\ \A j \in Id \ {k} : j \in function_storer' <=> j \in function_storer
             /\ function_storer' \subseteq Id
             /\ Mapped => (k \notin plain /\ step'[k] \in Stored => k \in function_storer')
             /\ Mapped /\ step'[k] # "crashed" /\ k \in function_storer' =>
                  k \notin plain /\ step'[k] \in Stored
      PROVE  StoreInv'
  <2>1. ASSUME Mapped, NEW j \in Id \ plain, step'[j] \in Stored PROVE j \in function_storer'
    <3>1. CASE j = k
      BY <1>2, <2>1, <3>1
    <3>2. CASE j # k
      BY <1>0, <1>1, <1>2, <2>1, <3>2 DEF StoreInv
    <3>. QED
      BY <3>1, <3>2
  <2>2. ASSUME Mapped, Alive', NEW j \in function_storer' PROVE j \in Id \ plain /\ step'[j] \in Stored
    <3>1. CASE j = k
      BY <1>2, <2>2, <3>1 DEF Alive
    <3>2. CASE j # k
      BY <1>0, <1>1, <1>2, <2>2, <3>2 DEF StoreInv
    <3>. QED
      BY <3>1, <3>2
  <2>. QED
    BY <1>1, <2>1, <2>2 DEF StoreInv
<1>3. /\ Mapped => (k \notin plain /\ step[k] \in Stored => k \in function_storer)
      /\ Mapped /\ k \in function_storer => k \notin plain /\ step[k] \in Stored
  BY <1>0, <1>1 DEF StoreInv
<1>4. function_storer \subseteq Id
  BY <1>0 DEF TypeOK
<1>5. CASE TakeTask /\ k = Head(tasks)
  <2>1. step[k] = "queued" /\ step'[k] \in {"invoke", "lookup"} /\ function_storer' = function_storer
    BY <1>0, <1>5 DEF TakeTask, At, TypeOK
  <2>. QED
    BY <1>2, <1>3, <1>4, <2>1 DEF Stored
<1>6. CASE StoreTask(k)
  <2>1. step[k] = "numbered" /\ step'[k] = "stored" /\ function_storer' = function_storer \cup {k}
    BY <1>0, <1>6 DEF StoreTask, At, TypeOK
  <2>2. k \notin plain
    BY <1>0, <2>1 DEF PlainInv
  <2>. QED
    BY <1>2, <1>3, <1>4, <2>1, <2>2 DEF Stored
<1>7. CASE PushTask(k)
  <2>1. step[k] = "stored" /\ step'[k] \in {"queued", "crashed"} /\ function_storer' = function_storer
    BY <1>0, <1>7 DEF PushTask, At, TypeOK
  <2>. QED
    BY <1>2, <1>3, <1>4, <2>1 DEF Stored
<1>8. CASE task_interface(k)
  <2>1. /\ step[k] = "lookup" /\ function_storer' = function_storer
        /\ step'[k] \in {"invoke", "missing", "crashed"}
        /\ Mapped /\ step'[k] # "invoke" => k \notin function_storer
    BY <1>0, <1>8 DEF task_interface, Runs, At, TypeOK
  <2>2. k \notin plain
    BY <1>0, <2>1 DEF PlainInv
  <2>. QED
    BY <1>2, <1>3, <1>4, <2>1, <2>2 DEF Stored
<1>9. CASE EndFunction(k)
  <2>1. /\ step[k] = "invoke" /\ function_storer' = function_storer
        /\ \/ step'[k] = "crashed"
           \/ step'[k] = "done" /\ k \in plain
           \/ step'[k] \in {"remove", "log"} /\ k \notin plain
    BY <1>0, <1>9 DEF EndFunction, Runs, At, TypeOK
  <2>. QED
    BY <1>2, <1>3, <1>4, <2>1 DEF Stored
<1>10. CASE LogFailure(k)
  <2>1. step[k] = "log" /\ step'[k] \in {"remove", "crashed"} /\ function_storer' = function_storer
    BY <1>0, <1>10 DEF LogFailure, Runs, At, TypeOK
  <2>. QED
    BY <1>2, <1>3, <1>4, <2>1 DEF Stored
<1>11. CASE remove_task(k)
  <2>1. /\ step[k] = "remove" /\ step'[k] \in {"return", "crashed"}
        /\ function_storer' = function_storer \ {k}
    BY <1>0, <1>11 DEF remove_task, Runs, At, TypeOK
  <2>. QED
    BY <1>2, <1>3, <1>4, <2>1 DEF Stored
<1>12. CASE Return(k)
  <2>1. step[k] = "return" /\ step'[k] \in {"done", "crashed"} /\ function_storer' = function_storer
    BY <1>0, <1>12 DEF Return, Runs, At, TypeOK
  <2>. QED
    BY <1>2, <1>3, <1>4, <2>1 DEF Stored
<1>. QED
  BY <1>5, <1>6, <1>7, <1>8, <1>9, <1>10, <1>11, <1>12 DEF TaskStep

\* The steps of the plugin: it is disabled when every function has ended.
LEMMA PluginKeeps ==
  ASSUME Inv, FUNC_EXIT \/ reset_loader_apis \/ FUNC_ENTRANCE \/ Unload
  PROVE  NumbersInv' /\ MakersInv' /\ EnabledInv' /\ PlainInv' /\ NoneMissing' /\ StoreInv'
<1>0. TypeOK /\ NumbersInv /\ MakersInv /\ EnabledInv /\ PlainInv /\ NoneMissing /\ StoreInv
  BY DEF Inv
<1>1. UNCHANGED <<auto_id, step, plain, maker>>
  BY DEF FUNC_EXIT, reset_loader_apis, FUNC_ENTRANCE, Unload
<1>2. NumbersInv' /\ MakersInv' /\ PlainInv' /\ NoneMissing'
  BY <1>0, <1>1 DEF NumbersInv, MakersInv, PlainInv, NoneMissing, Made
<1>3. EnabledInv'
  <2>1. CASE FUNC_EXIT
    BY <1>0, <1>1, <2>1 DEF FUNC_EXIT, EnabledInv, Live
  <2>2. CASE reset_loader_apis
    <3>1. \A k \in Id : ~Live(k)
      BY <1>0, <2>2, AllHaveEnded DEF reset_loader_apis
    <3>. QED
      BY <1>1, <2>2, <3>1 DEF reset_loader_apis, EnabledInv, Live
  <2>3. CASE FUNC_ENTRANCE
    BY <1>0, <1>1, <2>3 DEF FUNC_ENTRANCE, EnabledInv, Live
  <2>4. CASE Unload
    BY <1>0, <1>1, <2>4 DEF Unload, EnabledInv, Live
  <2>. QED
    BY <2>1, <2>2, <2>3, <2>4
<1>4. StoreInv'
  <2>1. Unload \/ (function_storer' = function_storer /\ Mapped' /\ Mapped)
    BY DEF FUNC_EXIT, reset_loader_apis, FUNC_ENTRANCE, Unload, Mapped
  <2>2. Unload => ~Mapped'
    BY DEF Unload, Mapped
  <2>3. Alive' = Alive
    BY <1>1 DEF Alive
  <2>. QED
    BY <1>0, <1>1, <2>1, <2>2, <2>3 DEF StoreInv
<1>. QED
  BY <1>2, <1>3, <1>4

-----------------------------------------------------------------------------

LEMMA InvStep == Inv /\ [Next]_vars => Inv'
<1>. SUFFICES ASSUME Inv, [Next]_vars PROVE Inv'
  OBVIOUS
<1>1. TypeOK'
  BY TypeStep
<1>2. ASSUME NEW p \in 0..MaxTasks, NEW isPlain \in BOOLEAN, NewTask(p, isPlain) PROVE Inv'
  BY <1>1, <1>2, NewTaskKeeps DEF Inv
<1>3. ASSUME NEW k \in Id, TaskStep(k) \/ (TakeTask /\ k = Head(tasks)) PROVE Inv'
  BY <1>1, <1>3, MoveKeeps, MoveKeepsStore DEF Inv
<1>4. CASE TakeTask
  <2>1. tasks \in Seq(Id) /\ tasks # <<>>
    BY <1>4 DEF Inv, TypeOK, TakeTask
  <2>2. Head(tasks) \in Id
    BY <2>1
  <2>. QED
    BY <1>3, <1>4, <2>2
<1>5. CASE FUNC_EXIT \/ reset_loader_apis \/ FUNC_ENTRANCE \/ Unload
  BY <1>1, <1>5, PluginKeeps DEF Inv
<1>6. CASE Terminated \/ UNCHANGED vars
  <2>1. UNCHANGED vars
    BY <1>6 DEF Terminated
  <2>. QED
    BY <1>1, <2>1 DEF vars, Inv, NumbersInv, MakersInv, EnabledInv, PlainInv, NoneMissing, StoreInv,
                      Made, Live, Mapped, Alive
<1>. QED
  BY <1>2, <1>3, <1>4, <1>5, <1>6 DEF Next

\* The invariant holds in every reachable state.
THEOREM TasksInvariance == Spec => []Inv
  BY InitInv, InvStep, PTL DEF Spec

\* The functions of the tasks run while the plugin is enabled, with the
\* library mapped, and are found in the store.
THEOREM FunctionsRun == Spec => []FunctionsRunEnabled
<1>1. Inv => FunctionsRunEnabled
  <2>. SUFFICES ASSUME Inv, NEW k \in Id, step[k] \in {"queued", "lookup", "invoke"}
                PROVE  loader_apis /\ Mapped /\ (k \notin plain /\ step[k] # "invoke" => k \in function_storer)
    BY DEF FunctionsRunEnabled
  <2>1. loader_apis /\ Mapped
    BY DEF Inv, EnabledInv, Live, Mapped
  <2>. QED
    BY <2>1 DEF Inv, StoreInv, Stored
<1>. QED
  BY TasksInvariance, <1>1, PTL

\* The store holds the functions of the tasks that are not over, and no more.
THEOREM StoreStaysExact == Spec => []StoreIsExact
<1>1. Inv => StoreIsExact
  <2>. SUFFICES ASSUME Inv, Mapped, Alive
                PROVE  function_storer = {k \in Id \ plain : step[k] \in Stored}
    BY DEF StoreIsExact, Stored
  <2>. QED
    BY DEF Inv, StoreInv
<1>. QED
  BY TasksInvariance, <1>1, PTL

=============================================================================
