---------------------------- MODULE EventRegistry ----------------------------
(***************************************************************************)
(* One plugin seen from inside: its table of event handlers (Event.h), the *)
(* three functions libLoader calls on the plugin's thread (utils.cpp) and  *)
(* the threads the plugin starts itself (MiraiCPNewThread.h), which        *)
(* broadcast what they throw.  The table has no lock.  Events are messages *)
(* from Kotlin and exceptions; what a callback does besides registering    *)
(* handlers, switching them, starting threads and throwing is left out.    *)
(***************************************************************************)
EXTENDS Naturals, Sequences

CONSTANTS
  Helper,       \* threads the plugin starts with MiraiCPNewThread
  Level,        \* the priority levels in use
  MaxHandlers,  \* bound: registrations
  MaxSessions,  \* bound: calls of FUNC_ENTRANCE
  MaxEvents,    \* bound: messages from Kotlin
  EndedBefore   \* when the plugin has ended its threads: "exit", before
                \* libLoader calls FUNC_EXIT, or "return", before onDisable
                \* returns, as doc/libloader.md:60 advises; in that case a
                \* thread's broadcast can lose its table ("wild")

ASSUME RegistryAssumption ==
  /\ Level # {} /\ Level \subseteq Nat
  /\ "plugin" \notin Helper
  /\ MaxHandlers \in Nat /\ MaxSessions \in Nat /\ MaxEvents \in Nat

VARIABLES
  _all_events_,  \* per event and level, the nodes with their handles
  registered,    \* how many handlers were registered (bounded)
  loader_apis,   \* the loader's functions are set
  plugin,        \* the plugin's object exists
  pc,            \* what each thread does
  at,            \* where each thread's broadcast is
  session,       \* how often FUNC_ENTRANCE was called (bounded)
  events,        \* how many messages came (bounded)
  owed           \* history: the handlers each broadcast has to call

vars == <<_all_events_, registered, loader_apis, plugin, pc, at, session, events, owed>>

Event == {"message", "exception"}
Thread == {"plugin"} \cup Helper
eventNode == [number : Nat, blocking : BOOLEAN, enable : BOOLEAN, session : Nat]
Lowest == CHOOSE l \in Level : \A k \in Level : l <= k
Empty == [e \in Event |-> [l \in Level |-> <<>>]]

Busy == {"broadcast", "callback"}

\* Ahead of the first node of an event.
Start(e) == [event |-> e, level |-> Lowest, index |-> 0]

TypeOK ==
  /\ _all_events_ \in [Event -> [Level -> Seq(eventNode)]]
  /\ registered \in Nat
  /\ loader_apis \in BOOLEAN /\ plugin \in BOOLEAN
  /\ pc["plugin"] \in {"down", "onEnable", "idle", "onDisable", "destructor", "dead"} \cup Busy
  /\ \A h \in Helper : pc[h] \in {"none", "running", "ended", "wild"} \cup Busy
  /\ at \in [Thread -> [event : Event, level : Level, index : Nat]]
  /\ session \in Nat /\ events \in Nat
  /\ owed \in [Thread -> SUBSET (Level \X Nat)]

Init ==
  /\ _all_events_ = Empty
  /\ registered = 0
  /\ loader_apis = FALSE /\ plugin = FALSE
  /\ pc = [t \in Thread |-> IF t = "plugin" THEN "down" ELSE "none"]
  /\ at = [t \in Thread |-> Start("message")]
  /\ session = 0 /\ events = 0
  /\ owed = [t \in Thread |-> {}]

\* The threads that go through the table of an event.
Iterating(e) == {t \in Thread : pc[t] \in Busy /\ at[t].event = e}

\* Where plugin code runs: a callback, onEnable, onDisable, a new thread.
InUserCode(t) == pc[t] \in {"onEnable", "onDisable", "callback", "running"}

-----------------------------------------------------------------------------
(* Event::broadcast                                                        *)

\* Where the range-fors come next, if anywhere: to the vector's next node, or
\* to the first of the map's next level.
Following(t) ==
  LET table == _all_events_[at[t].event]
      i == at[t].index + 1
  IN IF i <= Len(table[at[t].level])
       THEN {[at[t] EXCEPT !.index = i]}
       ELSE {[event |-> at[t].event, level |-> l, index |-> 1] :
               l \in {k \in Level : /\ k > at[t].level /\ table[k] # <<>>
                                    /\ \A j \in Level : at[t].level < j /\ j < k => table[j] = <<>>}}

NodeAt(p) == _all_events_[p.event][p.level][p.index]

\* The handlers a broadcast that begins now has to call.
Enabled(e) ==
  {h \in Level \X (1..registered) :
     \E i \in DOMAIN _all_events_[e][h[1]] :
       _all_events_[e][h[1]][i].number = h[2] /\ _all_events_[e][h[1]][i].enable}

\* Thread t begins to broadcast an event.
Begin(t, e) ==
  /\ pc' = [pc EXCEPT ![t] = "broadcast"]
  /\ at' = [at EXCEPT ![t] = Start(e)]
  /\ owed' = [owed EXCEPT ![t] = Enabled(e)]

\* Mutant of Finish: a thread of the plugin's own goes on like the plugin's.
Finish_Idle(t) ==
  /\ pc' = [pc EXCEPT ![t] = "idle"]
  /\ at' = [at EXCEPT ![t] = Start("message")]

\* A broadcast returns: FUNC_EVENT does, or the new thread ends.
Finish(t) ==
  /\ pc' = [pc EXCEPT ![t] = IF t = "plugin" THEN "idle" ELSE "ended"]
  /\ at' = [at EXCEPT ![t] = Start("message")]

\* eventNode::run on the next node: a stopped handler is passed over.
Run(t) ==
  /\ pc[t] = "broadcast"
  /\ \E p \in Following(t) :
       /\ at' = [at EXCEPT ![t] = p]
       /\ IF NodeAt(p).enable
            THEN /\ pc' = [pc EXCEPT ![t] = "callback"]
                 /\ owed' = [owed EXCEPT ![t] = @ \ {<<p.level, NodeAt(p).number>>}]
            ELSE UNCHANGED <<pc, owed>>
  /\ UNCHANGED <<_all_events_, registered, loader_apis, plugin, session, events>>

\* The range-fors are through.
EndOfTable(t) ==
  /\ pc[t] = "broadcast"
  /\ Following(t) = {}
  /\ Finish(t)
  /\ UNCHANGED <<_all_events_, registered, loader_apis, plugin, session, events, owed>>

\* A callback returns; a blocking one may return true, which ends the
\* broadcast: the handlers behind it are not owed the call any more.
Return(t) ==
  /\ pc[t] = "callback"
  /\ \/ pc' = [pc EXCEPT ![t] = "broadcast"] /\ UNCHANGED <<at, owed>>
     \/ NodeAt(at[t]).blocking /\ Finish(t) /\ owed' = [owed EXCEPT ![t] = {}]
  /\ UNCHANGED <<_all_events_, registered, loader_apis, plugin, session, events>>

-----------------------------------------------------------------------------
(* What plugin code does                                                   *)

\* The table may be changed: nobody else reads it, and a callback of the
\* plugin's thread does not append to the vector it was called from, whose
\* end the range-for has read.  Anything else is undefined behaviour.
Changeable(e, l) == \A t \in Iterating(e) : t = "plugin" /\ at[t].level # l

NewNode(blocking) == [number |-> registered + 1, blocking |-> blocking, enable |-> TRUE,
                      session |-> session]

\* Mutant of registerEvent: a level keeps its newest handler in front.
registerEvent_Front(e, l, blocking) ==
  /\ InUserCode("plugin") /\ Changeable(e, l) /\ registered < MaxHandlers
  /\ registered' = registered + 1
  /\ _all_events_' = [_all_events_ EXCEPT ![e][l] = <<NewNode(blocking)>> \o @]
  /\ UNCHANGED <<loader_apis, plugin, pc, at, session, events, owed>>

\* registerEvent and registerBlockingEvent, called on the plugin's thread.
registerEvent(e, l, blocking) ==
  /\ InUserCode("plugin") /\ Changeable(e, l) /\ registered < MaxHandlers
  /\ registered' = registered + 1
  /\ _all_events_' = [_all_events_ EXCEPT ![e][l] = Append(@, NewNode(blocking))]
  /\ UNCHANGED <<loader_apis, plugin, pc, at, session, events, owed>>

\* NodeHandle::stop and resume, of a handle kept from a registration; those
\* of handlers that are not in the table any more have no effect.
Switch(e, l, i) ==
  /\ \E t \in Thread : InUserCode(t)
  /\ _all_events_' = [_all_events_ EXCEPT ![e][l][i].enable = ~@]
  /\ owed' = [t \in Thread |-> owed[t] \ {<<l, _all_events_[e][l][i].number>>}]
  /\ UNCHANGED <<registered, loader_apis, plugin, pc, at, session, events>>

\* A new thread starts, before the plugin begins to end them.
StartThread(h) ==
  /\ InUserCode("plugin") /\ pc["plugin"] # "onDisable"
  /\ pc[h] \in {"none", "ended"}
  /\ pc' = [pc EXCEPT ![h] = "running"]
  /\ UNCHANGED <<_all_events_, registered, loader_apis, plugin, at, session, events, owed>>

\* It comes to its end, or throws: MiraiCPNewThread broadcasts whatever it is.
EndThread(h) ==
  /\ pc[h] = "running"
  /\ \/ pc' = [pc EXCEPT ![h] = "ended"] /\ UNCHANGED <<at, owed>>
     \/ Begin(h, "exception")
  /\ UNCHANGED <<_all_events_, registered, loader_apis, plugin, session, events>>

\* Mutant of Throw: what a handler of exceptions throws is broadcast too.
Throw_Again ==
  /\ pc["plugin"] = "callback"
  /\ Begin("plugin", "exception")
  /\ UNCHANGED <<_all_events_, registered, loader_apis, plugin, session, events>>

\* A callback throws on the plugin's thread, for a message: FUNC_EVENT
\* broadcasts a MiraiCP exception and logs another std::exception; what it
\* does not catch ends the worker, and so does a handler of exceptions that
\* throws.  (On a thread of the plugin's own that would end the process.)
\* The handlers behind the one that throws are not called.
Throw ==
  /\ pc["plugin"] = "callback"
  /\ \/ at["plugin"].event = "message" /\ Begin("plugin", "exception")
     \/ /\ at["plugin"].event = "message" /\ Finish("plugin")
        /\ owed' = [owed EXCEPT !["plugin"] = {}]
     \/ /\ pc' = [pc EXCEPT !["plugin"] = "dead"]
        /\ owed' = [owed EXCEPT !["plugin"] = {}]
        /\ at' = [at EXCEPT !["plugin"] = Start("message")]
  /\ UNCHANGED <<_all_events_, registered, loader_apis, plugin, session, events>>

-----------------------------------------------------------------------------
(* The functions libLoader calls                                           *)

\* Event::clear: a thread that goes through the table goes on in freed nodes.
clear ==
  /\ _all_events_' = Empty
  /\ owed' = [t \in Thread |-> {}]

\* Mutant of FUNC_ENTRANCE: it relies on the clear of FUNC_EXIT.
FUNC_ENTRANCE_NoClear ==
  /\ pc["plugin"] = "down" /\ session < MaxSessions
  /\ session' = session + 1
  /\ loader_apis' = TRUE
  /\ \/ plugin' = TRUE /\ pc' = [pc EXCEPT !["plugin"] = "onEnable"]
     \/ plugin' = FALSE /\ pc' = [pc EXCEPT !["plugin"] = "idle"]
  /\ UNCHANGED <<_all_events_, registered, at, events, owed>>

\* enrollPlugin makes the plugin's object, or throws or makes none.
FUNC_ENTRANCE ==
  /\ pc["plugin"] = "down" /\ session < MaxSessions
  /\ session' = session + 1
  /\ clear
  /\ loader_apis' = TRUE
  /\ \/ plugin' = TRUE /\ pc' = [pc EXCEPT !["plugin"] = "onEnable"]
     \/ plugin' = FALSE /\ pc' = [pc EXCEPT !["plugin"] = "idle"]
  /\ UNCHANGED <<registered, at, events>>

\* onEnable returns or throws: every exception is logged, and the plugin
\* stays enabled with the handlers it has registered.
onEnable ==
  /\ pc["plugin"] = "onEnable"
  /\ pc' = [pc EXCEPT !["plugin"] = "idle"]
  /\ UNCHANGED <<_all_events_, registered, loader_apis, plugin, at, session, events, owed>>

\* FUNC_EVENT: with no handler registered it returns.
FUNC_EVENT ==
  /\ pc["plugin"] = "idle" /\ events < MaxEvents
  /\ events' = events + 1
  /\ \E l \in Level : _all_events_["message"][l] # <<>>
  /\ Begin("plugin", "message")
  /\ UNCHANGED <<_all_events_, registered, loader_apis, plugin, session>>

Alive(h) == pc[h] \in {"running"} \cup Busy

\* Mutant of FUNC_EXIT: the loader's functions are reset first.
FUNC_EXIT_ResetFirst ==
  /\ pc["plugin"] = "idle"
  /\ EndedBefore = "exit" => ~\E h \in Helper : Alive(h)
  /\ clear
  /\ loader_apis' = FALSE
  /\ pc' = [t \in Thread |->
       IF t = "plugin" THEN IF plugin THEN "onDisable" ELSE "down"
       ELSE IF pc[t] \in Busy THEN "wild" ELSE pc[t]]
  /\ UNCHANGED <<registered, plugin, at, session, events>>

\* FUNC_EXIT up to onDisable; without an object of the plugin, to its end.
FUNC_EXIT ==
  /\ pc["plugin"] = "idle"
  /\ EndedBefore = "exit" => ~\E h \in Helper : Alive(h)
  /\ clear
  /\ loader_apis' = plugin
  /\ pc' = [t \in Thread |->
       IF t = "plugin" THEN IF plugin THEN "onDisable" ELSE "down"
       ELSE IF pc[t] \in Busy THEN "wild" ELSE pc[t]]
  /\ UNCHANGED <<registered, plugin, at, session, events>>

\* onDisable returns, its threads ended, and the object is being destroyed;
\* or it throws, which nothing catches but the loader.
onDisable ==
  /\ pc["plugin"] = "onDisable"
  /\ \/ /\ ~\E h \in Helper : Alive(h)
        /\ pc' = [pc EXCEPT !["plugin"] = "destructor"]
     \/ pc' = [pc EXCEPT !["plugin"] = "dead"]
  /\ UNCHANGED <<_all_events_, registered, loader_apis, plugin, at, session, events, owed>>

\* CPPPlugin::plugin.reset() returns and the loader's functions are reset.
reset_loader_apis ==
  /\ pc["plugin"] = "destructor"
  /\ plugin' = FALSE
  /\ loader_apis' = FALSE
  /\ pc' = [pc EXCEPT !["plugin"] = "down"]
  /\ UNCHANGED <<_all_events_, registered, at, session, events, owed>>

-----------------------------------------------------------------------------

\* The bounds are reached, or the worker ended: the loader unloads the plugin.
Terminated ==
  /\ \/ pc["plugin"] = "down" /\ session = MaxSessions
     \/ pc["plugin"] = "dead"
  /\ UNCHANGED vars

Next ==
  \/ FUNC_ENTRANCE \/ onEnable \/ FUNC_EVENT \/ FUNC_EXIT \/ onDisable \/ reset_loader_apis
  \/ \E t \in Thread : Run(t) \/ EndOfTable(t) \/ Return(t)
  \/ \E e \in Event, l \in Level, blocking \in BOOLEAN : registerEvent(e, l, blocking)
  \/ \E e \in Event, l \in Level : \E i \in DOMAIN _all_events_[e][l] : Switch(e, l, i)
  \/ \E h \in Helper : StartThread(h) \/ EndThread(h)
  \/ Throw
  \/ Terminated

Spec == Init /\ [][Next]_vars

\* The threads of a broadcast go on, and a callback returns.
FairSpec == /\ Spec
            /\ \A t \in Thread : WF_vars(Run(t) \/ EndOfTable(t) \/ Return(t))

-----------------------------------------------------------------------------

\* A broadcast calls the handlers that were registered and switched on when
\* it began, and stay so, by level and then in the order of registration: at
\* each call those it still owes come later, and when it ends without having
\* been blocked or left by an exception it owes nothing.
NobodySkipped ==
  \A t \in Thread :
    /\ pc[t] = "callback" =>
         \A h \in owed[t] : \/ at[t].level < h[1]
                            \/ at[t].level = h[1] /\ NodeAt(at[t]).number < h[2]
    /\ pc[t] \notin Busy => owed[t] = {}

\* No handler of an earlier session is called: neither one registered before
\* the plugin was disabled nor one that onDisable registered.
FreshHandlers ==
  \A t \in Thread : pc[t] = "callback" => NodeAt(at[t]).session = session

\* Wherever plugin code runs, the destructor of the plugin's object and the
\* threads the plugin started included, the loader's functions are set (the
\* comments at utils.cpp:90 and Exception.h:277).
ApisAreSet ==
  \A t \in Thread : InUserCode(t) \/ pc[t] \in {"destructor"} \cup Busy => loader_apis

\* A broadcast comes to its end, whatever its callbacks register, stop or
\* throw.
BroadcastsEnd == \A t \in Thread : pc[t] \in Busy ~> pc[t] \notin Busy
=============================================================================
