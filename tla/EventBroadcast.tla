---------------------------- MODULE EventBroadcast ----------------------------
(***************************************************************************)
(* The text of an event on its way from the kt thread to the plugins       *)
(* (EventImpl in ktInterface.cpp).  The text is one static string: the     *)
(* kt thread assigns it with the plugin list locked and queues a job for   *)
(* every enabled plugin; a job reads the string when the plugin's thread   *)
(* comes to it, without a lock.  The plugins stay enabled; what happens    *)
(* when they do not is PluginLoader's subject.                             *)
(***************************************************************************)
EXTENDS Naturals, Sequences

CONSTANTS
  Plugin,      \* the enabled plugins
  MaxEvents,   \* bound: texts the kt thread hands to EventImpl
  Torn         \* what a read during an assignment may see

ASSUME BroadcastAssumption == MaxEvents \in Nat /\ Torn \notin Nat

VARIABLES
  str,        \* the static string: the number of the text last assigned
  kt,         \* where the thread that has the list's lock is in EventImpl
  texts,      \* how many texts there were (bounded)
  todo,       \* the plugins the broadcast has not come to yet
  job_queue,  \* each plugin's queued event jobs: the number of the event
  handled     \* history: per plugin, the event of each job and what it read

vars == <<str, kt, texts, todo, job_queue, handled>>

TypeOK ==
  /\ str \in Nat
  /\ kt \in {"idle", "assign", "command", "broadcast"}
  /\ texts \in Nat
  /\ todo \subseteq Plugin
  /\ job_queue \in [Plugin -> Seq(Nat)]
  /\ handled \in [Plugin -> Seq(Nat \X (Nat \cup {Torn}))]

Init ==
  /\ str = 0
  /\ kt = "idle"
  /\ texts = 0
  /\ todo = {}
  /\ job_queue = [p \in Plugin |-> <<>>]
  /\ handled = [p \in Plugin |-> <<>>]

\* EventImpl locks the list and begins to assign the string.
EventImpl ==
  /\ kt = "idle"
  /\ texts < MaxEvents
  /\ texts' = texts + 1
  /\ kt' = "assign"
  /\ UNCHANGED <<str, todo, job_queue, handled>>

\* Mutant of Assign: the string is assigned when the jobs are queued.
Assign_Late ==
  /\ kt = "assign"
  /\ \/ kt' = "command" /\ UNCHANGED todo
     \/ kt' = "broadcast" /\ todo' = Plugin
  /\ UNCHANGED <<str, texts, job_queue, handled>>

\* The string is assigned; its text is a console command or an event.
Assign ==
  /\ kt = "assign"
  /\ str' = texts
  /\ \/ kt' = "command" /\ UNCHANGED todo
     \/ kt' = "broadcast" /\ todo' = Plugin
  /\ UNCHANGED <<texts, job_queue, handled>>

\* builtInCommand: PluginLoader's Request.
Command ==
  /\ kt = "command"
  /\ kt' = "idle"
  /\ UNCHANGED <<str, texts, todo, job_queue, handled>>

\* Mutant of SubmitJob: a plugin that is busy is left out.
SubmitJob_WhenIdle(p) ==
  /\ kt = "broadcast"
  /\ p \in todo
  /\ todo' = todo \ {p}
  /\ job_queue' = IF job_queue[p] = <<>> THEN [job_queue EXCEPT ![p] = <<texts>>]
                                         ELSE job_queue
  /\ UNCHANGED <<str, kt, texts, handled>>

SubmitJob(p) ==
  /\ kt = "broadcast"
  /\ p \in todo
  /\ todo' = todo \ {p}
  /\ job_queue' = [job_queue EXCEPT ![p] = Append(@, texts)]
  /\ UNCHANGED <<str, kt, texts, handled>>

\* run_over_pluginlist is over and the list's lock is released.
Release ==
  /\ kt = "broadcast"
  /\ todo = {}
  /\ kt' = "idle"
  /\ UNCHANGED <<str, texts, todo, job_queue, handled>>

\* A plugin thread takes the job and calls cfg.eventFunc(str), which copies
\* the string.
eventFunc(p) ==
  /\ job_queue[p] # <<>>
  /\ job_queue' = [job_queue EXCEPT ![p] = Tail(@)]
  /\ \E text \in {str} \cup (IF kt = "assign" THEN {Torn} ELSE {}) :
       handled' = [handled EXCEPT ![p] = Append(@, <<Head(job_queue[p]), text>>)]
  /\ UNCHANGED <<str, kt, texts, todo>>

Terminated ==
  /\ kt = "idle" /\ texts = MaxEvents
  /\ \A p \in Plugin : job_queue[p] = <<>>
  /\ UNCHANGED vars

Next ==
  \/ EventImpl \/ Assign \/ Command \/ Release
  \/ \E p \in Plugin : SubmitJob(p) \/ eventFunc(p)
  \/ Terminated

Spec == Init /\ [][Next]_vars

\* EventImpl returns and plugin threads go on.
FairSpec == /\ Spec
            /\ WF_vars(Assign \/ Command \/ Release \/ \E p \in Plugin : SubmitJob(p))
            /\ \A p \in Plugin : WF_vars(eventFunc(p))

-----------------------------------------------------------------------------

Handled(p, k) == \E n \in DOMAIN handled[p] : handled[p][n][1] = k

\* No plugin reads a text that is older than the event its job is for: the
\* string is assigned before the jobs are queued.
NeverOlder ==
  \A p \in Plugin : \A n \in DOMAIN handled[p] :
    handled[p][n][2] \in Nat => handled[p][n][2] >= handled[p][n][1]

\* The plugins are called for the same events in the same order, each once:
\* one that is ahead has handled what the other has still queued.
SameEvents ==
  \A p, q \in Plugin : \A n \in DOMAIN handled[p] :
    LET seen == [i \in DOMAIN handled[q] |-> handled[q][i][1]] \o job_queue[q]
    IN n <= Len(seen) => seen[n] = handled[p][n][1]

\* Every plugin handles the events that another one handles.
EveryPluginHandles ==
  \A p, q \in Plugin : \A k \in 1..MaxEvents : Handled(p, k) ~> Handled(q, k)

\* doc/libloader.md:40: when an event happens, it is given to the thread of
\* every enabled plugin: a job reads the text of the event it is for.
ReadsItsEvent ==
  \A p \in Plugin : \A n \in DOMAIN handled[p] : handled[p][n][2] = handled[p][n][1]
=============================================================================
