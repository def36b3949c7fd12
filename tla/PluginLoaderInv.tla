---------------------------- MODULE PluginLoaderInv ----------------------------
(***************************************************************************)
(* The inductive invariants of PluginLoader.  BaseInv and StageInv hold    *)
(* whatever plugins and files do wrong, the parts below them as long as    *)
(* certain mishaps are ruled out, and CalmInv as long as no job throws or  *)
(* overruns its join and no listed plugin is loaded a second time.         *)
(***************************************************************************)
EXTENDS PluginLoader

\* The steps that work on one entry of the list, the ones that work on the
\* local config of a new plugin, and the ones between finding an enabled
\* plugin and marking it disabled.
EntrySteps   == Locked \ {"next"}
NewSteps     == {"open", "activate", "insert"}
DisableSteps == {"callThreadEnd", "end", "join", "disable"}

\* The current entry is in the state its step expects.
TargetInv ==
  /\ todo \subseteq listed
  /\ lpc \in EntrySteps => target \in listed
  /\ lpc \in NewSteps => /\ target \in Plugin /\ task.kind \in LoadNew
  /\ task.kind \in LoadNew => lpc \in NewSteps
  /\ lpc = "activate" => task.kind = "LOAD_NEW_ACTIVATENOW"
  /\ lpc \in {"activate", "insert"} <=> local # NoLib
  /\ lpc \in DisableSteps \cup {"endThread", "close", "unload"} => handle[target] # NoLib
  /\ lpc \in DisableSteps => enabled[target]
  /\ lpc = "load" => handle[target] = NoLib /\ ~enabled[target]
  /\ lpc \in {"end", "join"} => thread_memory[target] # NoThread

\* A library is open at least once for each config that holds its handle,
\* and every handle that is held is the one of the mapped instance.
Holds(p)    == handle[p] # NoLib /\ ~(lpc = "unload" /\ target = p)
HoldsNew(p) == lpc \in {"activate", "insert"} /\ target = p

LibraryOK(p) ==
  /\ handle[p] # NoLib => p \in listed
  /\ enabled[p] => handle[p] # NoLib
  /\ image[p] = NoLib <=> refs[p] = 0
  /\ Holds(p) => refs[p] >= 1 /\ handle[p] = image[p]
  /\ HoldsNew(p) => refs[p] >= 1 /\ local = image[p]
  /\ Holds(p) /\ HoldsNew(p) => refs[p] >= 2

LibraryInv == \A p \in Plugin : LibraryOK(p)

\* Threads and the names they are bound to.
BoundOK(p) ==
  thread_memory[p] # NoThread =>
    /\ pluginid[thread_memory[p]] = p
    /\ pc[thread_memory[p]] # "unborn"
    /\ thread_memory[p] \notin freed

WorkerOK(t) ==
  /\ pc[t] # "unborn" => pluginid[t] \in Plugin
  /\ pc[t] = "unborn" => t \notin freed /\ ~exit[t] /\ job_queue[t] = <<>> /\ life[t] = "none"
  /\ Executing(t) => running[t] \in Job

ThreadInv == (\A p \in Plugin : BoundOK(p)) /\ (\A t \in Thread : WorkerOK(t))

\* The last tasks: what unloadAll has visited has no library any more.
UnloadSteps == {"lock", "next", "callThreadEnd", "end", "join", "disable", "close", "unload"}
Visited     == listed \ (todo \cup (IF lpc \in EntrySteps THEN {target} ELSE {}))

StageInv ==
  /\ stage = "unloading" =>
       /\ task.kind = "UNLOAD_ALL" /\ lpc \in UnloadSteps
       /\ lpc # "lock" => \A p \in Visited : handle[p] = NoLib
  /\ stage = "exited" => lpc = "idle" /\ \A p \in listed : handle[p] = NoLib

BaseInv == TypeOK /\ TargetInv /\ LibraryInv /\ ThreadInv

-----------------------------------------------------------------------------
(* What single mishaps break.                                              *)

\* A library is open exactly once for each config that holds its handle; but
\* one whose symbols are missing is left open by nobody.
RefsAreExact ==
  \A p \in Plugin :
    refs[p] = (IF Holds(p) THEN 1 ELSE 0) + (IF HoldsNew(p) THEN 1 ELSE 0)

\* A request to load a new plugin names one that is neither listed nor about
\* to be listed by another request; but for a LoadPlugin of a listed one.
LoadsAreNew ==
  /\ lpc \in NewSteps => target \notin listed
  /\ \A i \in DOMAIN queue : queue[i].kind \in LoadNew =>
       /\ queue[i].id \notin listed
       /\ lpc \in NewSteps => target # queue[i].id
       /\ \A j \in DOMAIN queue : queue[j].kind \in LoadNew /\ queue[j].id = queue[i].id => i = j

\* Then exactly the enabled plugins have a thread, but for the one whose
\* thread was just erased, or just made.
Halfway == {"disable", "close", "unload", "insert"}

SlotInv ==
  /\ \A p \in Plugin : (enabled[p] <=> thread_memory[p] # NoThread)
                        \/ (lpc \in Halfway /\ target = p)
  /\ lpc \in {"disable", "close", "unload"} => thread_memory[target] = NoThread
  /\ lpc = "insert" =>
       (thread_memory[target] # NoThread <=> task.kind = "LOAD_NEW_ACTIVATENOW")

\* When no job throws, nothing asks for a plugin's exceptional end, so no
\* enabled plugin has its library closed.
NoExceptionTask ==
  /\ \A t \in Thread : pc[t] # "throwing"
  /\ task.kind # "EXCEPTION_PLUGINEND" /\ lpc # "endThread"
  /\ lpc \in {"close", "unload"} => ~enabled[target]
  /\ \A i \in DOMAIN queue : queue[i].kind # "EXCEPTION_PLUGINEND"

\* Then the jobs of a worker come in order: FUNC_ENTRANCE first, FUNC_EXIT
\* last and before the worker may return.
HasJob(t, kind) == \E i \in DOMAIN job_queue[t] : job_queue[t][i].kind = kind
Runs(t, kind)   == Executing(t) /\ running[t].kind = kind
ExitComes(t)    == life[t] = "exit" \/ Runs(t, "exit") \/ HasJob(t, "exit")

JobOrder(t) ==
  /\ \A i \in DOMAIN job_queue[t] :
       /\ job_queue[t][i].kind = "entrance"
            => i = 1 /\ pc[t] = "loop" /\ life[t] = "none"
       /\ job_queue[t][i].kind = "exit" => i = Len(job_queue[t])
  /\ Runs(t, "entrance") => life[t] = "none"
  /\ life[t] = "none" /\ pc[t] # "unborn" => Runs(t, "entrance") \/ HasJob(t, "entrance")
  /\ life[t] = "exit" \/ Runs(t, "exit") => job_queue[t] = <<>> /\ ~Runs(t, "event")
  /\ exit[t] => ExitComes(t)
  /\ pc[t] \in {"returning", "done"} => life[t] = "exit"

\* ... the loader gives the exit job once, and then tells the worker to end.
OrderInv ==
  /\ \A t \in Thread : JobOrder(t)
  /\ \A t \in Thread : t \notin freed /\ ExitComes(t)
       => lpc \in {"end", "join"} /\ thread_memory[target] = t
  /\ lpc = "end" => ExitComes(thread_memory[target])
  /\ \A t \in freed : pc[t] = "done" /\ life[t] = "exit"

\* What the calm case rests on besides BaseInv.
QuietInv == NoExceptionTask /\ LoadsAreNew /\ SlotInv

-----------------------------------------------------------------------------
(* What none of the mishaps but "list", "missing" and "badSymbols" breaks. *)

\* A thread that is not at its end is bound to its plugin, and is told to
\* end only when the loader waits for it.
LiveOK(t) ==
  /\ pc[t] \notin {"unborn", "done"} => thread_memory[pluginid[t]] = t
  /\ exit[t] /\ t \notin freed => lpc = "join" /\ thread_memory[target] = t
  /\ pc[t] \in {"returning", "done"} => exit[t]

LiveIsBound == \A t \in Thread : LiveOK(t)

\* The jobs of a live thread are about the library its plugin has loaded.
JobsOK(t) ==
  pc[t] \notin {"unborn", "done"} =>
    /\ \A i \in DOMAIN job_queue[t] :
         IF job_queue[t][i].kind = "event" THEN pluginid[t] \in listed
         ELSE job_queue[t][i].lib = Handle(pluginid[t])
    /\ Executing(t) => running[t].lib = Handle(pluginid[t])

JobsAreCurrent == \A t \in Thread : JobsOK(t)

CalmInv == LiveIsBound /\ JobsAreCurrent
Calm    == Mishaps \cap {"throw", "overrun", "duplicate"} = {}

\* Each part holds as long as the mishaps that break it are ruled out.
IInv ==
  /\ BaseInv /\ StageInv
  /\ "badSymbols" \notin Mishaps => RefsAreExact
  /\ "duplicate" \notin Mishaps => LoadsAreNew /\ SlotInv
  /\ "throw" \notin Mishaps => NoExceptionTask
  /\ Mishaps \cap {"throw", "overrun"} = {} => OrderInv
  /\ Calm => CalmInv
=============================================================================
