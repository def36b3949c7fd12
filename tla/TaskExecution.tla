---------------------------- MODULE TaskExecution ----------------------------
(***************************************************************************)
(* What a thread pool promises those who push tasks: every task is         *)
(* executed once, started in the order of the pushes, and never more tasks *)
(* at a time than the pool has threads.                                    *)
(***************************************************************************)
EXTENDS Naturals, FiniteSets

CONSTANTS TaskId,    \* the tasks, numbered in the order they are pushed
          Threads    \* how many threads execute them
VARIABLE status

Init == status = [k \in TaskId |-> "absent"]

Move(k, from, to) == status[k] = from /\ status' = [status EXCEPT ![k] = to]

Push(k) ==
  /\ \A j \in TaskId : j < k => status[j] # "absent"
  /\ Move(k, "absent", "queued")

Start(k) ==
  /\ \A j \in TaskId : j < k => status[j] # "queued"
  /\ Cardinality({j \in TaskId : status[j] = "running"}) < Threads
  /\ Move(k, "queued", "running")

Finish(k) == Move(k, "running", "done")

Next == \E k \in TaskId : Push(k) \/ Start(k) \/ Finish(k)

Spec == Init /\ [][Next]_status
=============================================================================
