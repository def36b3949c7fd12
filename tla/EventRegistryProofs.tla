-------------------------- MODULE EventRegistryProofs --------------------------
(***************************************************************************)
(* NobodySkipped, FreshHandlers and ApisAreSet of EventRegistry for any    *)
(* number of threads, levels, handlers and sessions, whenever the plugin   *)
(* ends its threads.  The invariant relates a broadcast's place in the     *)
(* table to what it owes, through every change the table may see meanwhile;*)
(* and a plugin that is down, or has no object, to its threads.            *)
(***************************************************************************)
EXTENDS EventRegistry, WellFoundedInduction, TLAPS

Nodes(e, l) == _all_events_[e][l]

PluginPc == {"down", "onEnable", "idle", "onDisable", "destructor", "dead", "broadcast", "callback"}
HelperPc == {"none", "running", "ended", "wild", "broadcast", "callback"}

PcInv ==
  DOMAIN pc = Thread /\ pc["plugin"] \in PluginPc /\ \A h \in Helper : pc[h] \in HelperPc

\* The table holds handlers of this session only.
SessionInv ==
  \A e \in Event, l \in Level : \A i \in DOMAIN Nodes(e, l) : Nodes(e, l)[i].session = session

\* A level keeps its handlers in the order of their registration.
NumbersInv ==
  \A e \in Event, l \in Level :
    /\ \A i \in DOMAIN Nodes(e, l) : Nodes(e, l)[i].number \in 1..registered
    /\ \A i, j \in DOMAIN Nodes(e, l) : i < j => Nodes(e, l)[i].number < Nodes(e, l)[j].number

ApisInv == loader_apis <=> pc["plugin"] # "down"

\* No thread of the plugin's goes on while it is down or has no object ...
QuietInv == pc["plugin"] = "down" \/ ~plugin => \A h \in Helper : ~Alive(h)

\* ... nor while its object is being destroyed ...
DestructorInv == pc["plugin"] = "destructor" => \A h \in Helper : ~Alive(h)

\* ... and without an object there is nobody to start one.
ObjectInv ==
  ~plugin => /\ pc["plugin"] \in {"down", "idle"}
             /\ pc["plugin"] = "idle" => _all_events_ = Empty

\* A callback is called from a node.
AtInv ==
  \A t \in Thread : pc[t] = "callback" => at[t].index \in DOMAIN Nodes(at[t].event, at[t].level)

\* Handler h is there, switched on, and behind the place p.
Ahead(p, h) ==
  \E i \in DOMAIN Nodes(p.event, h[1]) :
    /\ Nodes(p.event, h[1])[i].number = h[2]
    /\ Nodes(p.event, h[1])[i].enable
    /\ \/ p.level < h[1]
       \/ p.level = h[1] /\ p.index < i

OwedInv ==
  \A t \in Thread : /\ pc[t] \notin Busy => owed[t] = {}
                    /\ \A h \in owed[t] : Ahead(at[t], h)

Inv == /\ TypeOK /\ PcInv /\ SessionInv /\ NumbersInv
       /\ ApisInv /\ QuietInv /\ DestructorInv /\ ObjectInv /\ AtInv /\ OwedInv

-----------------------------------------------------------------------------

\* A set of levels that is not empty has a lowest one.
LEMMA LowestOf ==
  ASSUME NEW T, T \subseteq Nat, T # {}
  PROVE  \E x \in T : \A y \in T : x <= y
<1>1. IsWellFoundedOn(OpToRel(<, Nat), Nat)
  BY NatLessThanWellFounded, Zenon
<1>2. PICK x \in T : \A y \in T : <<y, x>> \notin OpToRel(<, Nat)
  BY <1>1, WFMin, Zenon
<1>3. \A y \in T : ~(y < x)
  BY <1>2 DEF OpToRel
<1>4. \A y \in T : x \in Nat /\ y \in Nat
  OBVIOUS
<1>. QED
  BY <1>3, <1>4

LEMMA LowestLevel == Lowest \in Level /\ \A l \in Level : Lowest <= l
<1>1. \E l \in Level : \A k \in Level : l <= k
  BY RegistryAssumption, LowestOf
<1>. QED
  BY <1>1 DEF Lowest

LEMMA Levels == Level \subseteq Nat /\ "plugin" \in Thread /\ "plugin" \notin Helper
                /\ \A t \in Thread : t = "plugin" \/ t \in Helper
  BY RegistryAssumption DEF Thread

\* The table's types, level by level.
LEMMA Table ==
  ASSUME TypeOK, NEW e \in Event, NEW l \in Level
  PROVE  /\ Nodes(e, l) \in Seq(eventNode)
         /\ Len(Nodes(e, l)) \in Nat
         /\ DOMAIN Nodes(e, l) = 1..Len(Nodes(e, l))
         /\ \A i \in DOMAIN Nodes(e, l) : Nodes(e, l)[i] \in eventNode
<1>1. Nodes(e, l) \in Seq(eventNode)
  BY DEF TypeOK, Nodes
<1>. HIDE DEF Nodes
<1>2. Len(Nodes(e, l)) \in Nat /\ DOMAIN Nodes(e, l) = 1..Len(Nodes(e, l))
  BY <1>1
<1>. QED
  BY <1>1, <1>2

LEMMA EmptyTable == Empty \in [Event -> [Level -> Seq(eventNode)]]
<1>1. <<>> \in Seq(eventNode)
  OBVIOUS
<1>. QED
  BY <1>1 DEF Empty

\* What the operations do to the table: they empty it, append to a level, or
\* switch a node.
LEMMA Appended ==
  ASSUME TypeOK, NEW e \in Event, NEW l \in Level, NEW b \in BOOLEAN, registerEvent(e, l, b)
  PROVE  /\ _all_events_' \in [Event -> [Level -> Seq(eventNode)]]
         /\ \A f \in Event, k \in Level : <<f, k>> # <<e, l>> => Nodes(f, k)' = Nodes(f, k)
         /\ Nodes(e, l)' = Append(Nodes(e, l), NewNode(b))
<1>1. NewNode(b) \in eventNode
  BY DEF NewNode, eventNode, TypeOK
<1>2. _all_events_' = [_all_events_ EXCEPT ![e][l] = Append(@, NewNode(b))]
  BY DEF registerEvent
<1>3. Nodes(e, l) \in Seq(eventNode)
  BY Table
<1>4. Append(Nodes(e, l), NewNode(b)) \in Seq(eventNode)
  BY <1>1, <1>3
<1>5. _all_events_' = [_all_events_ EXCEPT ![e] = [_all_events_[e] EXCEPT ![l] = Append(Nodes(e, l), NewNode(b))]]
  BY <1>2, Zenon DEF Nodes
<1>. QED
  BY <1>4, <1>5 DEF TypeOK, Nodes

LEMMA Switched ==
  ASSUME TypeOK, NEW e \in Event, NEW l \in Level, NEW i \in DOMAIN Nodes(e, l), Switch(e, l, i)
  PROVE  /\ _all_events_' \in [Event -> [Level -> Seq(eventNode)]]
         /\ \A f \in Event, k \in Level : <<f, k>> # <<e, l>> => Nodes(f, k)' = Nodes(f, k)
         /\ DOMAIN Nodes(e, l)' = DOMAIN Nodes(e, l)
         /\ \A j \in DOMAIN Nodes(e, l) : /\ Nodes(e, l)'[j].number = Nodes(e, l)[j].number
                                          /\ Nodes(e, l)'[j].session = Nodes(e, l)[j].session
                                          /\ j # i => Nodes(e, l)'[j] = Nodes(e, l)[j]
<1>. DEFINE n == [Nodes(e, l)[i] EXCEPT !.enable = ~@]
            s == [Nodes(e, l) EXCEPT ![i] = n]
<1>1. _all_events_' = [_all_events_ EXCEPT ![e][l][i].enable = ~@]
  BY DEF Switch
<1>2. _all_events_' = [_all_events_ EXCEPT ![e] = [_all_events_[e] EXCEPT ![l] = s]]
  BY <1>1, Zenon DEF Nodes
<1>3. /\ Nodes(e, l) \in Seq(eventNode) /\ Nodes(e, l)[i] \in eventNode
      /\ DOMAIN Nodes(e, l) = 1..Len(Nodes(e, l))
  BY Table
<1>4. n \in eventNode /\ n.number = Nodes(e, l)[i].number /\ n.session = Nodes(e, l)[i].session
  BY <1>3 DEF eventNode
<1>. HIDE DEF n
<1>5. s \in Seq(eventNode) /\ DOMAIN s = DOMAIN Nodes(e, l)
  BY <1>3, <1>4
<1>6. s[i] = n /\ \A j \in DOMAIN Nodes(e, l) : j # i => s[j] = Nodes(e, l)[j]
  BY <1>3
<1>. HIDE DEF s
<1>7. /\ Nodes(e, l)' = s
      /\ _all_events_' \in [Event -> [Level -> Seq(eventNode)]]
      /\ \A f \in Event, k \in Level : <<f, k>> # <<e, l>> => Nodes(f, k)' = Nodes(f, k)
  BY <1>2, <1>5 DEF TypeOK, Nodes
<1>. QED
  BY <1>4, <1>5, <1>6, <1>7

-----------------------------------------------------------------------------

\* A broadcast begins, or ends.
LEMMA BeginTypes ==
  ASSUME TypeOK, PcInv, NEW t \in Thread, NEW e \in Event, Begin(t, e)
  PROVE  /\ at' \in [Thread -> [event : Event, level : Level, index : Nat]]
         /\ owed' \in [Thread -> SUBSET (Level \X Nat)]
         /\ DOMAIN pc' = Thread /\ pc'[t] = "broadcast"
         /\ \A u \in Thread \ {t} : pc'[u] = pc[u] /\ at'[u] = at[u] /\ owed'[u] = owed[u]
         /\ at'[t] = Start(e) /\ owed'[t] = Enabled(e)
<1>1. Start(e) \in [event : Event, level : Level, index : Nat]
  BY LowestLevel DEF Start
<1>2. Enabled(e) \subseteq Level \X Nat
  BY DEF Enabled, TypeOK
<1>3. at' = [at EXCEPT ![t] = Start(e)] /\ owed' = [owed EXCEPT ![t] = Enabled(e)]
      /\ pc' = [pc EXCEPT ![t] = "broadcast"]
  BY DEF Begin
<1>. QED
  BY <1>1, <1>2, <1>3 DEF TypeOK, PcInv

LEMMA FinishTypes ==
  ASSUME TypeOK, PcInv, NEW t \in Thread, Finish(t)
  PROVE  /\ at' \in [Thread -> [event : Event, level : Level, index : Nat]]
         /\ DOMAIN pc' = Thread /\ pc'[t] = IF t = "plugin" THEN "idle" ELSE "ended"
         /\ \A u \in Thread \ {t} : pc'[u] = pc[u] /\ at'[u] = at[u]
<1>1. Start("message") \in [event : Event, level : Level, index : Nat]
  BY LowestLevel DEF Start, Event
<1>2. at' = [at EXCEPT ![t] = Start("message")]
      /\ pc' = [pc EXCEPT ![t] = IF t = "plugin" THEN "idle" ELSE "ended"]
  BY DEF Finish
<1>. QED
  BY <1>1, <1>2 DEF TypeOK, PcInv

LEMMA RunTypes ==
  ASSUME TypeOK, PcInv, NEW t \in Thread, Run(t)
  PROVE  \E p \in Following(t) :
           /\ p \in [event : Event, level : Level, index : Nat]
           /\ p.event = at[t].event /\ p.index \in DOMAIN Nodes(p.event, p.level)
           /\ at' = [at EXCEPT ![t] = p]
           /\ \/ /\ NodeAt(p).enable
                 /\ pc' = [pc EXCEPT ![t] = "callback"]
                 /\ owed' = [owed EXCEPT ![t] = @ \ {<<p.level, NodeAt(p).number>>}]
              \/ ~NodeAt(p).enable /\ UNCHANGED <<pc, owed>>
<1>1. PICK p \in Following(t) :
           /\ at' = [at EXCEPT ![t] = p]
           /\ IF NodeAt(p).enable
                THEN /\ pc' = [pc EXCEPT ![t] = "callback"]
                     /\ owed' = [owed EXCEPT ![t] = @ \ {<<p.level, NodeAt(p).number>>}]
                ELSE UNCHANGED <<pc, owed>>
  BY Zenon DEF Run
<1>2. at[t] \in [event : Event, level : Level, index : Nat]
  BY DEF TypeOK
<1>3. CASE at[t].index + 1 <= Len(Nodes(at[t].event, at[t].level))
  <2>1. p = [at[t] EXCEPT !.index = at[t].index + 1]
    BY <1>1, <1>3 DEF Following, Nodes
  <2>2. p \in [event : Event, level : Level, index : Nat]
        /\ p.event = at[t].event /\ p.level = at[t].level /\ p.index = at[t].index + 1
    BY <1>2, <2>1
  <2>3. p.index \in DOMAIN Nodes(p.event, p.level)
    BY <1>2, <1>3, <2>2, Table
  <2>. QED
    BY <1>1, <2>2, <2>3
<1>4. CASE ~(at[t].index + 1 <= Len(Nodes(at[t].event, at[t].level)))
  <2>1. PICK l \in Level : p = [event |-> at[t].event, level |-> l, index |-> 1] /\ Nodes(at[t].event, l) # <<>>
    BY <1>1, <1>4 DEF Following, Nodes
  <2>2. p \in [event : Event, level : Level, index : Nat]
        /\ p.event = at[t].event /\ p.level = l /\ p.index = 1
    BY <1>2, <2>1
  <2>3. Nodes(at[t].event, l) \in Seq(eventNode)
    BY <1>2, Table
  <2>4. 1 \in DOMAIN Nodes(at[t].event, l)
    BY <2>1, <2>3
  <2>. QED
    BY <1>1, <2>2, <2>4
<1>. QED
  BY <1>3, <1>4


\* One thread goes to another step.
LEMMA Goes ==
  ASSUME PcInv, NEW t \in Thread, NEW x, pc' = [pc EXCEPT ![t] = x],
         x \in IF t = "plugin" THEN PluginPc ELSE HelperPc
  PROVE  PcInv'
<1>1. /\ DOMAIN pc' = Thread /\ pc'[t] = x
      /\ \A u \in Thread \ {t} : pc'[u] = pc[u]
  BY DEF PcInv
<1>2. pc'["plugin"] \in PluginPc
  BY <1>1, Levels DEF PcInv
<1>3. \A h \in Helper : pc'[h] \in HelperPc
  BY <1>1, Levels DEF PcInv, Thread
<1>. QED
  BY <1>1, <1>2, <1>3 DEF PcInv

LEMMA PcStep == PcInv /\ [Next]_vars => PcInv'
<1>. SUFFICES ASSUME PcInv, [Next]_vars PROVE PcInv'
  OBVIOUS
<1>. USE Levels, Goes
<1>0. \A h \in Helper : h \in Thread /\ h # "plugin"
  BY DEF Thread
<1>1. CASE FUNC_ENTRANCE
  BY <1>1 DEF FUNC_ENTRANCE, PluginPc
<1>2. CASE onEnable
  BY <1>2 DEF onEnable, PluginPc
<1>3. CASE FUNC_EVENT
  BY <1>3 DEF FUNC_EVENT, Begin, PluginPc
<1>4. CASE FUNC_EXIT
  <2>1. pc' = [t \in Thread |->
                IF t = "plugin" THEN IF plugin THEN "onDisable" ELSE "down"
                ELSE IF pc[t] \in Busy THEN "wild" ELSE pc[t]]
    BY <1>4 DEF FUNC_EXIT
  <2>. QED
    BY <1>0, <2>1 DEF PcInv, PluginPc, HelperPc
<1>5. CASE onDisable
  BY <1>5 DEF onDisable, PluginPc
<1>6. CASE reset_loader_apis
  BY <1>6 DEF reset_loader_apis, PluginPc
<1>7. ASSUME NEW t \in Thread, Run(t) PROVE PcInv'
  <2>1. pc' = [pc EXCEPT ![t] = "callback"] \/ pc' = pc
    BY <1>7 DEF Run
  <2>2. pc' = pc => PcInv'
    BY DEF PcInv
  <2>. QED
    BY <2>1, <2>2 DEF PluginPc, HelperPc
<1>8. ASSUME NEW t \in Thread, EndOfTable(t) PROVE PcInv'
  BY <1>8 DEF EndOfTable, Finish, PluginPc, HelperPc
<1>9. ASSUME NEW t \in Thread, Return(t) PROVE PcInv'
  BY <1>9 DEF Return, Finish, PluginPc, HelperPc
<1>10. ASSUME NEW h \in Helper, StartThread(h) PROVE PcInv'
  BY <1>0, <1>10 DEF StartThread, HelperPc
<1>11. ASSUME NEW h \in Helper, EndThread(h) PROVE PcInv'
  BY <1>0, <1>11 DEF EndThread, Begin, HelperPc
<1>12. CASE Throw
  BY <1>12 DEF Throw, Begin, Finish, PluginPc
<1>13. CASE pc' = pc
  BY <1>13 DEF PcInv
<1>. QED
  BY <1>1, <1>2, <1>3, <1>4, <1>5, <1>6, <1>7, <1>8, <1>9, <1>10, <1>11, <1>12, <1>13
  DEF Next, registerEvent, Switch, Terminated, vars

AtType == at \in [Thread -> [event : Event, level : Level, index : Nat]]

LEMMA AtStep == Inv /\ [Next]_vars => AtType'
<1>. SUFFICES ASSUME Inv, [Next]_vars PROVE AtType'
  OBVIOUS
<1>0. TypeOK /\ PcInv /\ AtType
  BY DEF Inv, TypeOK, AtType
<1>1. at' = at => AtType'
  BY <1>0 DEF AtType
<1>2. \A t \in Thread : Run(t) => AtType'
  BY <1>0, RunTypes DEF AtType
<1>3. \A t \in Thread, e \in Event : Begin(t, e) => AtType'
  BY <1>0, BeginTypes DEF AtType
<1>4. \A t \in Thread : Finish(t) => AtType'
  BY <1>0, FinishTypes DEF AtType
<1>5. CASE Throw
  <2>1. CASE at' = [at EXCEPT !["plugin"] = Start("message")]
    <3>1. Start("message") \in [event : Event, level : Level, index : Nat]
      BY LowestLevel DEF Start, Event
    <3>. QED
      BY <1>0, <2>1, <3>1 DEF AtType
  <2>. QED
    BY <1>3, <1>4, <1>5, <2>1, Levels DEF Throw, Event
<1>6. \A h \in Helper : EndThread(h) => AtType'
  BY <1>1, <1>3 DEF EndThread, Event, Thread
<1>7. FUNC_EVENT => AtType'
  BY <1>3, Levels DEF FUNC_EVENT, Event
<1>8. \A t \in Thread : EndOfTable(t) \/ Return(t) => AtType'
  BY <1>1, <1>4 DEF EndOfTable, Return
<1>. QED
  BY <1>1, <1>2, <1>5, <1>6, <1>7, <1>8
  DEF Next, FUNC_ENTRANCE, onEnable, FUNC_EXIT, onDisable, reset_loader_apis, registerEvent, Switch,
      StartThread, Terminated, vars

OwedType == owed \in [Thread -> SUBSET (Level \X Nat)]

LEMMA OwedTypeStep == Inv /\ [Next]_vars => OwedType'
<1>. SUFFICES ASSUME Inv, [Next]_vars PROVE OwedType'
  OBVIOUS
<1>0. TypeOK /\ PcInv /\ OwedType
  BY DEF Inv, TypeOK, OwedType
<1>1. owed' = owed => OwedType'
  BY <1>0 DEF OwedType
<1>2. \A t \in Thread : owed' = [owed EXCEPT ![t] = {}] => OwedType'
  BY <1>0 DEF OwedType
<1>3. \A t \in Thread : Run(t) => OwedType'
  BY <1>0, <1>1, RunTypes DEF OwedType
<1>4. \A t \in Thread, e \in Event : Begin(t, e) => OwedType'
  BY <1>0, BeginTypes DEF OwedType
<1>5. clear => OwedType'
  BY DEF clear, OwedType
<1>6. \A e \in Event, l \in Level : \A i \in DOMAIN _all_events_[e][l] : Switch(e, l, i) => OwedType'
  BY <1>0 DEF Switch, OwedType
<1>7. Throw => OwedType'
  BY <1>2, <1>4, Levels DEF Throw, Event
<1>8. \A h \in Helper : EndThread(h) => OwedType'
  BY <1>1, <1>4 DEF EndThread, Event, Thread
<1>9. FUNC_EVENT => OwedType'
  BY <1>4, Levels DEF FUNC_EVENT, Event
<1>10. \A t \in Thread : EndOfTable(t) \/ Return(t) => OwedType'
  BY <1>1, <1>2 DEF EndOfTable, Return
<1>11. FUNC_ENTRANCE \/ FUNC_EXIT => OwedType'
  BY <1>5 DEF FUNC_ENTRANCE, FUNC_EXIT
<1>. QED
  BY <1>1, <1>3, <1>6, <1>7, <1>8, <1>9, <1>10, <1>11
  DEF Next, onEnable, onDisable, reset_loader_apis, registerEvent, StartThread, Terminated, vars

LEMMA TypeStep == Inv /\ [Next]_vars => TypeOK'
<1>. SUFFICES ASSUME Inv, [Next]_vars PROVE TypeOK'
  OBVIOUS
<1>0. TypeOK
  BY DEF Inv
<1>1. PcInv' /\ AtType' /\ OwedType'
  BY PcStep, AtStep, OwedTypeStep DEF Inv
<1>2. _all_events_' \in [Event -> [Level -> Seq(eventNode)]]
  <2>1. \/ _all_events_' = _all_events_
        \/ _all_events_' = Empty
        \/ \E e \in Event, l \in Level, b \in BOOLEAN : registerEvent(e, l, b)
        \/ \E e \in Event, l \in Level : \E i \in DOMAIN _all_events_[e][l] : Switch(e, l, i)
    BY DEF Next, FUNC_ENTRANCE, onEnable, FUNC_EVENT, FUNC_EXIT, onDisable, reset_loader_apis, Run,
           EndOfTable, Return, StartThread, EndThread, Throw, Terminated, vars, clear
  <2>. QED
    BY <1>0, <2>1, EmptyTable, Appended, Switched DEF Nodes, TypeOK
<1>3. /\ registered' \in Nat /\ session' \in Nat /\ events' \in Nat
      /\ loader_apis' \in BOOLEAN /\ plugin' \in BOOLEAN
  <2>1. registered' \in {registered, registered + 1} /\ session' \in {session, session + 1}
        /\ events' \in {events, events + 1}
    BY DEF Next, FUNC_ENTRANCE, onEnable, FUNC_EVENT, FUNC_EXIT, onDisable, reset_loader_apis, Run,
           EndOfTable, Return, StartThread, EndThread, Throw, Terminated, vars, registerEvent, Switch
  <2>2. loader_apis' \in {loader_apis, TRUE, FALSE, plugin} /\ plugin' \in {plugin, TRUE, FALSE}
    BY DEF Next, FUNC_ENTRANCE, onEnable, FUNC_EVENT, FUNC_EXIT, onDisable, reset_loader_apis, Run,
           EndOfTable, Return, StartThread, EndThread, Throw, Terminated, vars, registerEvent, Switch
  <2>3. loader_apis \in BOOLEAN /\ plugin \in BOOLEAN
    BY <1>0 DEF TypeOK
  <2>4. loader_apis' \in BOOLEAN /\ plugin' \in BOOLEAN
    BY <2>2, <2>3, Zenon
  <2>5. registered' \in Nat /\ session' \in Nat /\ events' \in Nat
    BY <1>0, <2>1 DEF TypeOK
  <2>. QED
    BY <2>4, <2>5
<1>. QED
  BY <1>1, <1>2, <1>3 DEF TypeOK, PcInv, PluginPc, HelperPc, Busy, AtType, OwedType


-----------------------------------------------------------------------------

\* The handlers in the table.
LEMMA TableStep ==
  Inv /\ [Next]_vars => SessionInv' /\ NumbersInv'
<1>. SUFFICES ASSUME Inv, [Next]_vars PROVE SessionInv' /\ NumbersInv'
  OBVIOUS
<1>0. TypeOK /\ SessionInv /\ NumbersInv
  BY DEF Inv
<1>1. CASE UNCHANGED <<_all_events_, session, registered>>
  BY <1>0, <1>1 DEF SessionInv, NumbersInv, Nodes
<1>2. CASE _all_events_' = Empty
  <2>1. \A e \in Event, l \in Level : Nodes(e, l)' = <<>>
    BY <1>2 DEF Nodes, Empty
  <2>2. DOMAIN <<>> = {}
    OBVIOUS
  <2>3. \A e \in Event, l \in Level : DOMAIN Nodes(e, l)' = {}
    BY <2>1, <2>2, Zenon
  <2>. QED
    BY <2>3 DEF SessionInv, NumbersInv
<1>3. ASSUME NEW e \in Event, NEW l \in Level, NEW b \in BOOLEAN, registerEvent(e, l, b)
      PROVE  SessionInv' /\ NumbersInv'
  <2>1. /\ \A f \in Event, k \in Level : <<f, k>> # <<e, l>> => Nodes(f, k)' = Nodes(f, k)
        /\ Nodes(e, l)' = Append(Nodes(e, l), NewNode(b))
    BY <1>0, <1>3, Appended
  <2>2. registered' = registered + 1 /\ session' = session /\ registered \in Nat
    BY <1>0, <1>3 DEF registerEvent, TypeOK
  <2>3. /\ NewNode(b).number = registered + 1 /\ NewNode(b).session = session
        /\ NewNode(b) \in eventNode
    BY <1>0 DEF NewNode, eventNode, TypeOK
  <2>4. /\ Nodes(e, l) \in Seq(eventNode) /\ Len(Nodes(e, l)) \in Nat
        /\ DOMAIN Nodes(e, l) = 1..Len(Nodes(e, l))
    BY <1>0, Table
  <2>5. /\ DOMAIN Nodes(e, l)' = 1..Len(Nodes(e, l)) + 1
        /\ \A i \in DOMAIN Nodes(e, l) : Nodes(e, l)'[i] = Nodes(e, l)[i]
        /\ \A i \in DOMAIN Nodes(e, l)' : i \notin DOMAIN Nodes(e, l) =>
             /\ Nodes(e, l)'[i] = NewNode(b)
             /\ \A j \in DOMAIN Nodes(e, l) : j < i
    BY <2>1, <2>3, <2>4
  <2>6. SessionInv'
    <3>. SUFFICES ASSUME NEW f \in Event, NEW k \in Level, NEW i \in DOMAIN Nodes(f, k)'
                  PROVE  Nodes(f, k)'[i].session = session
      BY <2>2 DEF SessionInv
    <3>1. CASE <<f, k>> # <<e, l>>
      BY <1>0, <2>1, <3>1 DEF SessionInv
    <3>2. CASE f = e /\ k = l
      BY <1>0, <2>3, <2>5, <3>2 DEF SessionInv
    <3>. QED
      BY <3>1, <3>2
  <2>7. ASSUME NEW f \in Event, NEW k \in Level
        PROVE  /\ \A i \in DOMAIN Nodes(f, k)' : Nodes(f, k)'[i].number \in 1..registered + 1
               /\ \A i, j \in DOMAIN Nodes(f, k)' : i < j => Nodes(f, k)'[i].number < Nodes(f, k)'[j].number
    <3>1. /\ \A i \in DOMAIN Nodes(f, k) : Nodes(f, k)[i].number \in 1..registered
          /\ \A i, j \in DOMAIN Nodes(f, k) : i < j => Nodes(f, k)[i].number < Nodes(f, k)[j].number
      BY <1>0 DEF NumbersInv
    <3>2. \A n \in 1..registered : n \in 1..registered + 1 /\ n < registered + 1
      BY <2>2
    <3>3. CASE <<f, k>> # <<e, l>>
      BY <2>1, <3>1, <3>2, <3>3
    <3>4. CASE f = e /\ k = l
      <4>1. ASSUME NEW i \in DOMAIN Nodes(e, l)' PROVE Nodes(e, l)'[i].number \in 1..registered + 1
        <5>1. CASE i \in DOMAIN Nodes(e, l)
          BY <2>5, <3>1, <3>2, <3>4, <5>1
        <5>2. CASE i \notin DOMAIN Nodes(e, l)
          BY <2>2, <2>3, <2>5, <5>2
        <5>. QED
          BY <5>1, <5>2
      <4>2. ASSUME NEW i \in DOMAIN Nodes(e, l)', NEW j \in DOMAIN Nodes(e, l)', i < j
            PROVE  Nodes(e, l)'[i].number < Nodes(e, l)'[j].number
        <5>1. i \in DOMAIN Nodes(e, l)
          BY <2>4, <2>5, <4>2
        <5>2. CASE j \in DOMAIN Nodes(e, l)
          BY <2>5, <3>1, <3>4, <4>2, <5>1, <5>2
        <5>3. CASE j \notin DOMAIN Nodes(e, l)
          BY <2>3, <2>5, <3>1, <3>2, <3>4, <5>1, <5>3
        <5>. QED
          BY <5>2, <5>3
      <4>. QED
        BY <3>4, <4>1, <4>2
    <3>. QED
      BY <3>3, <3>4
  <2>. QED
    BY <2>2, <2>6, <2>7 DEF NumbersInv
<1>4. ASSUME NEW e \in Event, NEW l \in Level, NEW i \in DOMAIN _all_events_[e][l], Switch(e, l, i)
      PROVE  SessionInv' /\ NumbersInv'
  <2>1. /\ \A f \in Event, k \in Level : <<f, k>> # <<e, l>> => Nodes(f, k)' = Nodes(f, k)
        /\ DOMAIN Nodes(e, l)' = DOMAIN Nodes(e, l)
        /\ \A j \in DOMAIN Nodes(e, l) : /\ Nodes(e, l)'[j].number = Nodes(e, l)[j].number
                                         /\ Nodes(e, l)'[j].session = Nodes(e, l)[j].session
    BY <1>0, <1>4, Switched DEF Nodes
  <2>2. \A f \in Event, k \in Level :
          /\ DOMAIN Nodes(f, k)' = DOMAIN Nodes(f, k)
          /\ \A j \in DOMAIN Nodes(f, k) : /\ Nodes(f, k)'[j].number = Nodes(f, k)[j].number
                                           /\ Nodes(f, k)'[j].session = Nodes(f, k)[j].session
    BY <2>1
  <2>3. session' = session /\ registered' = registered
    BY <1>4 DEF Switch
  <2>. QED
    BY <1>0, <2>2, <2>3 DEF SessionInv, NumbersInv
<1>. QED
  BY <1>1, <1>2, <1>3, <1>4
  DEF Next, FUNC_ENTRANCE, onEnable, FUNC_EVENT, FUNC_EXIT, onDisable, reset_loader_apis, Run,
      EndOfTable, Return, StartThread, EndThread, Throw, Terminated, vars, clear


-----------------------------------------------------------------------------

\* The plugin's life.
LifeInv == ApisInv /\ QuietInv /\ DestructorInv /\ ObjectInv

\* The plugin's thread goes on, as long as it is not down, and has an object.
LEMMA PluginGoes ==
  ASSUME Inv, NEW x \in PluginPc \ {"down", "destructor"}, pc' = [pc EXCEPT !["plugin"] = x],
         plugin, pc["plugin"] # "down", UNCHANGED <<plugin, loader_apis>>
  PROVE  LifeInv'
<1>1. pc'["plugin"] = x /\ \A h \in Helper : pc'[h] = pc[h]
  BY Levels DEF Inv, PcInv, Thread
<1>. QED
  BY <1>1 DEF Inv, LifeInv, ApisInv, QuietInv, DestructorInv, ObjectInv, Alive

\* Another one does, or starts while the plugin has its object.
LEMMA HelperGoes ==
  ASSUME Inv, NEW h \in Helper, NEW x \in HelperPc, pc' = [pc EXCEPT ![h] = x],
         Alive(h) \/ (plugin /\ pc["plugin"] \notin {"down", "destructor"}),
         UNCHANGED <<_all_events_, plugin, loader_apis>>
  PROVE  LifeInv'
<1>1. pc'["plugin"] = pc["plugin"] /\ \A g \in Helper : g # h => pc'[g] = pc[g]
  BY Levels DEF Inv, PcInv, Thread
<1>2. pc["plugin"] \notin {"down", "destructor"} /\ plugin
  BY DEF Inv, QuietInv, DestructorInv
<1>. QED
  BY <1>1, <1>2 DEF Inv, LifeInv, ApisInv, QuietInv, DestructorInv, ObjectInv, Alive

LEMMA Goer ==
  ASSUME Inv, NEW t \in Thread, pc[t] \in Busy, NEW x,
         x \in IF t = "plugin" THEN PluginPc \ {"down", "destructor"} ELSE HelperPc,
         pc' = [pc EXCEPT ![t] = x], UNCHANGED <<_all_events_, plugin, loader_apis>>
  PROVE  LifeInv'
<1>1. CASE t = "plugin"
  <2>1. plugin /\ pc["plugin"] # "down"
    BY <1>1 DEF Inv, ObjectInv, Busy
  <2>. QED
    BY <1>1, <2>1, PluginGoes
<1>2. CASE t # "plugin"
  <2>1. t \in Helper /\ Alive(t)
    BY <1>2, Levels DEF Alive
  <2>. QED
    BY <1>2, <2>1, HelperGoes
<1>. QED
  BY <1>1, <1>2

LEMMA LifeStep == Inv /\ [Next]_vars => LifeInv'
<1>. SUFFICES ASSUME Inv, [Next]_vars PROVE LifeInv'
  OBVIOUS
<1>0. /\ LifeInv /\ PcInv
      /\ \A h \in Helper : h \in Thread /\ h # "plugin"
  BY Levels DEF Inv, LifeInv, Thread
<1>1. UNCHANGED <<pc, plugin, loader_apis, _all_events_>> => LifeInv'
  BY <1>0 DEF LifeInv, ApisInv, QuietInv, DestructorInv, ObjectInv, Alive
<1>2. CASE FUNC_ENTRANCE
  <2>1. /\ pc["plugin"] = "down" /\ loader_apis' = TRUE /\ _all_events_' = Empty
        /\ \/ plugin' = TRUE /\ pc' = [pc EXCEPT !["plugin"] = "onEnable"]
           \/ plugin' = FALSE /\ pc' = [pc EXCEPT !["plugin"] = "idle"]
    BY <1>2 DEF FUNC_ENTRANCE, clear
  <2>2. \A h \in Helper : pc'[h] = pc[h]
    BY <1>0, <2>1, Levels DEF PcInv
  <2>3. \A h \in Helper : ~Alive(h)
    BY <1>0, <2>1 DEF LifeInv, QuietInv
  <2>4. \/ plugin' = TRUE /\ pc'["plugin"] = "onEnable"
        \/ plugin' = FALSE /\ pc'["plugin"] = "idle"
    BY <1>0, <2>1, Levels DEF PcInv
  <2>. QED
    BY <2>1, <2>2, <2>3, <2>4 DEF LifeInv, ApisInv, QuietInv, DestructorInv, ObjectInv, Alive
<1>3. CASE onEnable \/ FUNC_EVENT
  <2>1. plugin /\ pc["plugin"] # "down"
    <3>1. CASE onEnable
      BY <1>0, <3>1 DEF onEnable, LifeInv, ObjectInv
    <3>2. CASE FUNC_EVENT
      BY <1>0, <3>2 DEF FUNC_EVENT, LifeInv, ObjectInv, Empty, Event
    <3>. QED
      BY <1>3, <3>1, <3>2
  <2>2. pc' = [pc EXCEPT !["plugin"] = "idle"] \/ pc' = [pc EXCEPT !["plugin"] = "broadcast"]
    BY <1>3 DEF onEnable, FUNC_EVENT, Begin
  <2>3. UNCHANGED <<plugin, loader_apis>>
    BY <1>3 DEF onEnable, FUNC_EVENT
  <2>. QED
    BY <2>1, <2>2, <2>3, PluginGoes DEF PluginPc
<1>4. CASE FUNC_EXIT
  <2>1. /\ pc["plugin"] = "idle" /\ loader_apis' = plugin /\ plugin' = plugin
        /\ pc' = [t \in Thread |->
                   IF t = "plugin" THEN IF plugin THEN "onDisable" ELSE "down"
                   ELSE IF pc[t] \in Busy THEN "wild" ELSE pc[t]]
    BY <1>4 DEF FUNC_EXIT
  <2>2. /\ pc'["plugin"] = IF plugin THEN "onDisable" ELSE "down"
        /\ \A h \in Helper : Alive(h)' => Alive(h)
    BY <1>0, <2>1, Levels DEF Alive, Busy
  <2>3. plugin \in BOOLEAN
    BY DEF Inv, TypeOK
  <2>4. CASE plugin
    <3>1. pc'["plugin"] = "onDisable" /\ plugin' /\ loader_apis'
      BY <2>1, <2>2, <2>4
    <3>. QED
      BY <3>1 DEF LifeInv, ApisInv, QuietInv, DestructorInv, ObjectInv
  <2>5. CASE ~plugin
    <3>1. pc'["plugin"] = "down" /\ ~plugin' /\ ~loader_apis'
      BY <2>1, <2>2, <2>5, Zenon
    <3>2. \A h \in Helper : ~Alive(h)'
      BY <1>0, <2>2, <2>5 DEF LifeInv, QuietInv
    <3>. QED
      BY <3>1, <3>2 DEF LifeInv, ApisInv, QuietInv, DestructorInv, ObjectInv
  <2>. QED
    BY <2>4, <2>5
<1>5. CASE onDisable
  <2>1. plugin /\ pc["plugin"] # "down"
    BY <1>0, <1>5 DEF onDisable, LifeInv, ObjectInv
  <2>2. CASE pc' = [pc EXCEPT !["plugin"] = "dead"]
    BY <1>5, <2>1, <2>2, PluginGoes DEF onDisable, PluginPc
  <2>3. CASE /\ \A h \in Helper : ~Alive(h)
             /\ pc' = [pc EXCEPT !["plugin"] = "destructor"]
    <3>1. pc'["plugin"] = "destructor" /\ \A h \in Helper : pc'[h] = pc[h]
      BY <1>0, <2>3, Levels DEF PcInv
    <3>2. plugin' = plugin /\ loader_apis' = loader_apis
      BY <1>5 DEF onDisable
    <3>. QED
      BY <1>0, <2>1, <2>3, <3>1, <3>2 DEF LifeInv, ApisInv, QuietInv, DestructorInv, ObjectInv, Alive
  <2>. QED
    BY <1>5, <2>2, <2>3 DEF onDisable
<1>6. CASE reset_loader_apis
  <2>1. /\ pc["plugin"] = "destructor" /\ plugin' = FALSE /\ loader_apis' = FALSE
        /\ pc' = [pc EXCEPT !["plugin"] = "down"]
    BY <1>6 DEF reset_loader_apis
  <2>2. pc'["plugin"] = "down" /\ \A h \in Helper : pc'[h] = pc[h]
    BY <1>0, <2>1, Levels DEF PcInv
  <2>3. \A h \in Helper : ~Alive(h)
    BY <2>1 DEF Inv, DestructorInv
  <2>. QED
    BY <2>1, <2>2, <2>3 DEF LifeInv, ApisInv, QuietInv, DestructorInv, ObjectInv, Alive
<1>7. ASSUME NEW t \in Thread, Run(t) \/ EndOfTable(t) \/ Return(t) PROVE LifeInv'
  <2>1. /\ pc[t] \in Busy
        /\ UNCHANGED <<_all_events_, plugin, loader_apis>>
        /\ \/ pc' = [pc EXCEPT ![t] = "broadcast"] \/ pc' = [pc EXCEPT ![t] = "callback"]
           \/ pc' = [pc EXCEPT ![t] = IF t = "plugin" THEN "idle" ELSE "ended"]
           \/ pc' = pc
    BY <1>7 DEF Run, EndOfTable, Return, Finish, Busy
  <2>. QED
    BY <1>1, <2>1, Goer DEF PluginPc, HelperPc
<1>8. ASSUME NEW e \in Event, NEW l \in Level, NEW b \in BOOLEAN, registerEvent(e, l, b) PROVE LifeInv'
  <2>1. InUserCode("plugin") /\ UNCHANGED <<pc, plugin, loader_apis>>
    BY <1>8 DEF registerEvent
  <2>2. plugin
    BY <1>0, <2>1 DEF LifeInv, ObjectInv, InUserCode
  <2>. QED
    BY <1>0, <2>1, <2>2 DEF LifeInv, ApisInv, QuietInv, DestructorInv, ObjectInv, Alive
<1>9. ASSUME NEW e \in Event, NEW l \in Level, NEW i \in DOMAIN _all_events_[e][l], Switch(e, l, i)
      PROVE  LifeInv'
  <2>1. UNCHANGED <<pc, plugin, loader_apis>>
    BY <1>9 DEF Switch
  <2>2. ~plugin => pc["plugin"] # "idle"
    <3>1. _all_events_ = Empty => DOMAIN _all_events_[e][l] = DOMAIN <<>>
      BY DEF Empty
    <3>2. DOMAIN <<>> = {}
      OBVIOUS
    <3>3. _all_events_ # Empty
      BY <3>1, <3>2, <1>9
    <3>. QED
      BY <1>0, <3>3 DEF LifeInv, ObjectInv
  <2>. QED
    BY <1>0, <2>1, <2>2 DEF LifeInv, ApisInv, QuietInv, DestructorInv, ObjectInv, Alive
<1>10. ASSUME NEW h \in Helper, StartThread(h) PROVE LifeInv'
  <2>1. plugin /\ pc["plugin"] \notin {"down", "destructor"}
    BY <1>0, <1>10 DEF StartThread, InUserCode, LifeInv, ObjectInv
  <2>. QED
    BY <1>10, <2>1, HelperGoes DEF StartThread, HelperPc
<1>11. ASSUME NEW h \in Helper, EndThread(h) PROVE LifeInv'
  BY <1>11, HelperGoes DEF EndThread, Begin, HelperPc, Alive
<1>12. CASE Throw
  <2>1. /\ pc["plugin"] \in Busy
        /\ UNCHANGED <<_all_events_, plugin, loader_apis>>
        /\ \/ pc' = [pc EXCEPT !["plugin"] = "broadcast"] \/ pc' = [pc EXCEPT !["plugin"] = "dead"]
           \/ pc' = [pc EXCEPT !["plugin"] = "idle"]
    BY <1>12 DEF Throw, Begin, Finish, Busy
  <2>. QED
    BY <2>1, Goer, Levels DEF PluginPc
<1>13. CASE Terminated \/ UNCHANGED vars
  BY <1>1, <1>13 DEF Terminated, vars
<1>. QED
  BY <1>2, <1>3, <1>4, <1>5, <1>6, <1>7, <1>8, <1>9, <1>10, <1>11, <1>12, <1>13 DEF Next


-----------------------------------------------------------------------------

\* A callback is called from a node.
LEMMA AtInvStep == Inv /\ [Next]_vars => AtInv'
<1>. SUFFICES ASSUME Inv, [Next]_vars, NEW t \in Thread, NEW e \in Event, NEW l \in Level, NEW n \in Nat,
                     pc'[t] = "callback",
                     at'[t].event = e, at'[t].level = l, at'[t].index = n
              PROVE  n \in DOMAIN Nodes(e, l)'
  <2>1. ASSUME Inv, [Next]_vars, NEW t \in Thread
        PROVE  at'[t] \in [event : Event, level : Level, index : Nat]
    BY <2>1, AtStep DEF AtType
  <2>. QED
    BY <2>1 DEF AtInv
<1>0. TypeOK /\ PcInv /\ AtInv
  BY DEF Inv
<1>1. CASE pc'[t] = pc[t] /\ at'[t] = at[t] /\ DOMAIN Nodes(e, l) \subseteq DOMAIN Nodes(e, l)'
  BY <1>0, <1>1 DEF AtInv
<1>2. UNCHANGED _all_events_ => DOMAIN Nodes(e, l) \subseteq DOMAIN Nodes(e, l)'
  BY DEF Nodes
<1>3. CASE FUNC_ENTRANCE \/ FUNC_EXIT
  <2>1. pc'[t] # "callback"
    <3>1. CASE FUNC_ENTRANCE
      <4>1. \A h \in Helper : pc[h] # "callback"
        BY <3>1 DEF FUNC_ENTRANCE, Inv, QuietInv, Alive, Busy
      <4>. QED
        BY <1>0, <3>1, <4>1, Levels DEF FUNC_ENTRANCE, PcInv
    <3>2. CASE FUNC_EXIT
      <4>1. pc' = [u \in Thread |->
                     IF u = "plugin" THEN IF plugin THEN "onDisable" ELSE "down"
                     ELSE IF pc[u] \in Busy THEN "wild" ELSE pc[u]]
        BY <3>2 DEF FUNC_EXIT
      <4>. QED
        BY <4>1 DEF Busy
    <3>. QED
      BY <1>3, <3>1, <3>2
  <2>. QED
    BY <2>1
<1>4. ASSUME NEW u \in Thread, NEW x, pc' = [pc EXCEPT ![u] = x], x # "callback",
             at' = at \/ (\E y : at' = [at EXCEPT ![u] = y]),
             UNCHANGED _all_events_
      PROVE  n \in DOMAIN Nodes(e, l)'
  <2>1. u # t /\ pc'[t] = pc[t] /\ at'[t] = at[t]
    BY <1>0, <1>4 DEF PcInv, TypeOK
  <2>. QED
    BY <1>1, <1>2, <1>4, <2>1
<1>5. CASE onEnable \/ FUNC_EVENT \/ onDisable \/ reset_loader_apis
  BY <1>4, <1>5, Levels DEF onEnable, FUNC_EVENT, onDisable, reset_loader_apis, Begin
<1>6. ASSUME NEW u \in Thread, Run(u) PROVE n \in DOMAIN Nodes(e, l)'
  <2>1. PICK p \in Following(u) :
           /\ p.event = at[u].event /\ p.index \in DOMAIN Nodes(p.event, p.level)
           /\ at' = [at EXCEPT ![u] = p]
           /\ pc' = [pc EXCEPT ![u] = "callback"] \/ pc' = pc
    BY <1>0, <1>6, RunTypes
  <2>2. UNCHANGED _all_events_ /\ pc[u] = "broadcast"
    BY <1>6 DEF Run
  <2>3. CASE t = u
    BY <1>0, <2>1, <2>2, <2>3 DEF TypeOK, Nodes
  <2>4. CASE t # u
    BY <1>0, <1>1, <1>2, <2>1, <2>2, <2>4 DEF TypeOK, PcInv
  <2>. QED
    BY <2>3, <2>4
<1>7. ASSUME NEW u \in Thread, EndOfTable(u) \/ Return(u) PROVE n \in DOMAIN Nodes(e, l)'
  <2>1. CASE Finish(u) /\ UNCHANGED _all_events_
    <3>1. CASE u = "plugin"
      <4>1. pc' = [pc EXCEPT ![u] = "idle"]
        BY <2>1, <3>1 DEF Finish
      <4>. QED
        BY <1>4, <2>1, <4>1 DEF Finish
    <3>2. CASE u # "plugin"
      <4>1. pc' = [pc EXCEPT ![u] = "ended"]
        BY <2>1, <3>2 DEF Finish
      <4>. QED
        BY <1>4, <2>1, <4>1 DEF Finish
    <3>. QED
      BY <3>1, <3>2
  <2>2. CASE pc' = [pc EXCEPT ![u] = "broadcast"] /\ UNCHANGED <<_all_events_, at>>
    BY <1>4, <2>2
  <2>. QED
    BY <1>7, <2>1, <2>2 DEF EndOfTable, Return
<1>8. ASSUME NEW f \in Event, NEW k \in Level, NEW b \in BOOLEAN, registerEvent(f, k, b)
      PROVE  n \in DOMAIN Nodes(e, l)'
  <2>1. /\ <<e, l>> # <<f, k>> => Nodes(e, l)' = Nodes(e, l)
        /\ Nodes(f, k)' = Append(Nodes(f, k), NewNode(b))
    BY <1>0, <1>8, Appended
  <2>2. Nodes(f, k) \in Seq(eventNode)
    BY <1>0, Table
  <2>3. DOMAIN Nodes(f, k) \subseteq DOMAIN Nodes(f, k)'
    BY <2>1, <2>2
  <2>4. DOMAIN Nodes(e, l) \subseteq DOMAIN Nodes(e, l)'
    BY <2>1, <2>3
  <2>. QED
    BY <1>1, <1>8, <2>4 DEF registerEvent
<1>9. ASSUME NEW f \in Event, NEW k \in Level, NEW i \in DOMAIN Nodes(f, k), Switch(f, k, i)
      PROVE  n \in DOMAIN Nodes(e, l)'
  <2>1. DOMAIN Nodes(e, l)' = DOMAIN Nodes(e, l)
    <3>1. /\ <<e, l>> # <<f, k>> => Nodes(e, l)' = Nodes(e, l)
          /\ DOMAIN Nodes(f, k)' = DOMAIN Nodes(f, k)
      BY <1>0, <1>9, Switched
    <3>. QED
      BY <3>1
  <2>. QED
    BY <1>1, <1>9, <2>1 DEF Switch
<1>10. ASSUME NEW h \in Helper, StartThread(h) \/ EndThread(h) PROVE n \in DOMAIN Nodes(e, l)'
  BY <1>4, <1>10 DEF StartThread, EndThread, Begin, Thread
<1>11. CASE Throw
  BY <1>4, <1>11, Levels DEF Throw, Begin, Finish
<1>12. CASE Terminated \/ UNCHANGED vars
  BY <1>1, <1>2, <1>12 DEF Terminated, vars
<1>. QED
  BY <1>3, <1>5, <1>6, <1>7, <1>8, <1>9, <1>10, <1>11, <1>12 DEF Next, Nodes

-----------------------------------------------------------------------------

\* Where a broadcast comes next.
LEMMA FollowingIs ==
  ASSUME TypeOK, NEW t \in Thread, NEW p \in Following(t)
  PROVE  /\ p.event = at[t].event
         /\ \/ /\ p.level = at[t].level /\ p.index = at[t].index + 1
            \/ /\ p.level \in Level /\ p.index = 1
               /\ ~(at[t].index + 1 <= Len(Nodes(at[t].event, at[t].level)))
               /\ \A j \in Level : at[t].level < j /\ j < p.level => Nodes(at[t].event, j) = <<>>
               /\ at[t].level < p.level
<1>2. at[t] \in [event : Event, level : Level, index : Nat]
  BY DEF TypeOK
<1>3. CASE at[t].index + 1 <= Len(Nodes(at[t].event, at[t].level))
  <2>1. p = [at[t] EXCEPT !.index = at[t].index + 1]
    BY <1>3 DEF Following, Nodes
  <2>. QED
    BY <1>2, <2>1
<1>4. CASE ~(at[t].index + 1 <= Len(Nodes(at[t].event, at[t].level)))
  <2>1. PICK l \in Level :
          /\ p = [event |-> at[t].event, level |-> l, index |-> 1]
          /\ l > at[t].level
          /\ \A j \in Level : at[t].level < j /\ j < l => Nodes(at[t].event, j) = <<>>
    BY <1>4 DEF Following, Nodes
  <2>2. p.event = at[t].event /\ p.level = l /\ p.index = 1
    BY <1>2, <2>1
  <2>. QED
    BY <1>4, <2>1, <2>2, <1>2, Levels
<1>. QED
  BY <1>3, <1>4

\* It goes on past nothing it owes.
LEMMA RunAhead ==
  ASSUME TypeOK, NEW t \in Thread, NEW p \in Following(t), NEW h \in Level \X Nat, Ahead(at[t], h),
         NodeAt(p).enable => h # <<p.level, NodeAt(p).number>>
  PROVE  Ahead(p, h)
<1>1. PICK i \in DOMAIN Nodes(at[t].event, h[1]) :
        /\ Nodes(at[t].event, h[1])[i].number = h[2]
        /\ Nodes(at[t].event, h[1])[i].enable
        /\ \/ at[t].level < h[1]
           \/ at[t].level = h[1] /\ at[t].index < i
  BY DEF Ahead
<1>2. /\ at[t].event \in Event /\ at[t].level \in Level /\ at[t].index \in Nat
      /\ h[1] \in Level /\ h[2] \in Nat /\ h = <<h[1], h[2]>>
      /\ Level \subseteq Nat
  BY Levels DEF TypeOK
<1>3. /\ Len(Nodes(at[t].event, h[1])) \in Nat
      /\ DOMAIN Nodes(at[t].event, h[1]) = 1..Len(Nodes(at[t].event, h[1]))
  BY <1>2, Table
<1>4. NodeAt(p) = Nodes(p.event, p.level)[p.index]
  BY DEF NodeAt, Nodes
<1>5. p.event = at[t].event
  BY FollowingIs
<1>6. ~(p.level = h[1] /\ p.index = i)
  BY <1>1, <1>2, <1>4, <1>5
<1>7. p.level < h[1] \/ (p.level = h[1] /\ p.index < i)
  <2>1. CASE p.level = at[t].level /\ p.index = at[t].index + 1
    BY <1>1, <1>2, <1>3, <1>6, <2>1
  <2>2. CASE /\ p.level \in Level /\ p.index = 1
             /\ ~(at[t].index + 1 <= Len(Nodes(at[t].event, at[t].level)))
             /\ \A j \in Level : at[t].level < j /\ j < p.level => Nodes(at[t].event, j) = <<>>
             /\ at[t].level < p.level
    <3>1. at[t].level < h[1]
      BY <1>1, <1>2, <1>3, <2>2
    <3>2. DOMAIN <<>> = {}
      OBVIOUS
    <3>3. Nodes(at[t].event, h[1]) # <<>>
      BY <1>1, <3>2
    <3>4. ~(h[1] < p.level)
      BY <1>2, <2>2, <3>1, <3>3
    <3>5. i \in Nat /\ 1 <= i
      BY <1>3
    <3>6. p.level \in Nat /\ h[1] \in Nat
      BY <1>2, <2>2
    <3>7. p.level = h[1] => i # 1
      BY <1>6, <2>2
    <3>. QED
      BY <2>2, <3>4, <3>5, <3>6, <3>7
  <2>. QED
    BY <2>1, <2>2, FollowingIs
<1>. QED
  BY <1>1, <1>5, <1>7 DEF Ahead

\* At the end of the table nothing is ahead.
LEMMA NothingAhead ==
  ASSUME TypeOK, NEW t \in Thread, Following(t) = {}, NEW h \in Level \X Nat, Ahead(at[t], h)
  PROVE  FALSE
<1>1. PICK i \in DOMAIN Nodes(at[t].event, h[1]) :
        /\ \/ at[t].level < h[1]
           \/ at[t].level = h[1] /\ at[t].index < i
  BY DEF Ahead
<1>2. /\ at[t].event \in Event /\ at[t].level \in Level /\ at[t].index \in Nat
      /\ h[1] \in Level /\ Level \subseteq Nat
  BY Levels DEF TypeOK
<1>3. /\ Len(Nodes(at[t].event, h[1])) \in Nat
      /\ DOMAIN Nodes(at[t].event, h[1]) = 1..Len(Nodes(at[t].event, h[1]))
  BY <1>2, Table
<1>4. ~(at[t].index + 1 <= Len(Nodes(at[t].event, at[t].level)))
  BY DEF Following, Nodes
<1>5. at[t].level < h[1]
  BY <1>1, <1>2, <1>3, <1>4
<1>6. DOMAIN <<>> = {}
  OBVIOUS
<1>7. Nodes(at[t].event, h[1]) # <<>>
  BY <1>1, <1>6
<1>. DEFINE T == {k \in Level : at[t].level < k /\ Nodes(at[t].event, k) # <<>>}
<1>8. T \subseteq Nat /\ T # {}
  BY <1>2, <1>5, <1>7
<1>9. PICK l \in T : \A k \in T : l <= k
  BY <1>8, LowestOf
<1>10. /\ l \in Level /\ l > at[t].level /\ Nodes(at[t].event, l) # <<>>
       /\ \A j \in Level : at[t].level < j /\ j < l => Nodes(at[t].event, j) = <<>>
  BY <1>2, <1>9
<1>11. [event |-> at[t].event, level |-> l, index |-> 1] \in Following(t)
  BY <1>4, <1>10 DEF Following, Nodes
<1>. QED
  BY <1>11


\* What is ahead of a place stays there, but for a handler that is switched off.
LEMMA AheadStays ==
  ASSUME TypeOK, NEW p \in [event : Event, level : Level, index : Nat], NEW h \in Level \X Nat, Ahead(p, h)
  PROVE  /\ UNCHANGED _all_events_ => Ahead(p, h)'
         /\ \A e \in Event, l \in Level, b \in BOOLEAN : registerEvent(e, l, b) => Ahead(p, h)'
         /\ \A e \in Event, l \in Level : \A i \in DOMAIN Nodes(e, l) :
              Switch(e, l, i) /\ h # <<l, Nodes(e, l)[i].number>> => Ahead(p, h)'
<1>1. PICK n \in DOMAIN Nodes(p.event, h[1]) :
        /\ Nodes(p.event, h[1])[n].number = h[2]
        /\ Nodes(p.event, h[1])[n].enable
        /\ p.level < h[1] \/ (p.level = h[1] /\ p.index < n)
  BY DEF Ahead
<1>2. p.event \in Event /\ h[1] \in Level /\ h = <<h[1], h[2]>>
  OBVIOUS
<1>3. ASSUME n \in DOMAIN Nodes(p.event, h[1])', Nodes(p.event, h[1])'[n] = Nodes(p.event, h[1])[n]
      PROVE  Ahead(p, h)'
  BY <1>1, <1>3 DEF Ahead
<1>4. UNCHANGED _all_events_ => Ahead(p, h)'
  BY <1>1, <1>3 DEF Nodes
<1>5. ASSUME NEW e \in Event, NEW l \in Level, NEW b \in BOOLEAN, registerEvent(e, l, b)
      PROVE  Ahead(p, h)'
  <2>1. /\ <<p.event, h[1]>> # <<e, l>> => Nodes(p.event, h[1])' = Nodes(p.event, h[1])
        /\ Nodes(e, l)' = Append(Nodes(e, l), NewNode(b))
    BY <1>2, <1>5, Appended
  <2>2. Nodes(e, l) \in Seq(eventNode)
    BY Table
  <2>3. CASE p.event = e /\ h[1] = l
    BY <1>1, <1>3, <2>1, <2>2, <2>3
  <2>4. CASE <<p.event, h[1]>> # <<e, l>>
    BY <1>1, <1>3, <2>1, <2>4
  <2>. QED
    BY <2>3, <2>4
<1>6. ASSUME NEW e \in Event, NEW l \in Level, NEW i \in DOMAIN Nodes(e, l), Switch(e, l, i),
             h # <<l, Nodes(e, l)[i].number>>
      PROVE  Ahead(p, h)'
  <2>1. /\ <<p.event, h[1]>> # <<e, l>> => Nodes(p.event, h[1])' = Nodes(p.event, h[1])
        /\ DOMAIN Nodes(e, l)' = DOMAIN Nodes(e, l)
        /\ \A j \in DOMAIN Nodes(e, l) : j # i => Nodes(e, l)'[j] = Nodes(e, l)[j]
    BY <1>2, <1>6, Switched
  <2>2. CASE p.event = e /\ h[1] = l
    <3>1. n # i
      BY <1>1, <1>2, <1>6, <2>2
    <3>. QED
      BY <1>1, <1>3, <2>1, <2>2, <3>1
  <2>3. CASE <<p.event, h[1]>> # <<e, l>>
    BY <1>1, <1>3, <2>1, <2>3
  <2>. QED
    BY <2>2, <2>3
<1>. QED
  BY <1>4, <1>5, <1>6

\* What a broadcast that begins owes is ahead of it.
LEMMA EnabledAhead ==
  ASSUME TypeOK, NEW e \in Event, NEW h \in Enabled(e)
  PROVE  Ahead(Start(e), h)
<1>1. h \in Level \X (1..registered)
  BY DEF Enabled
<1>2. PICK i \in DOMAIN Nodes(e, h[1]) :
        Nodes(e, h[1])[i].number = h[2] /\ Nodes(e, h[1])[i].enable
  BY DEF Enabled, Nodes
<1>3. Start(e).event = e /\ Start(e).level = Lowest /\ Start(e).index = 0
  BY DEF Start
<1>4. h[1] \in Level /\ Lowest <= h[1] /\ Lowest \in Nat /\ h[1] \in Nat
  BY <1>1, LowestLevel, Levels
<1>5. i \in Nat /\ 0 < i
  BY <1>4, Table
<1>6. Lowest < h[1] \/ (Lowest = h[1] /\ 0 < i)
  BY <1>4, <1>5
<1>. QED
  BY <1>2, <1>3, <1>6 DEF Ahead


\* What the broadcasts owe.
LEMMA OwedInvStep == Inv /\ [Next]_vars => OwedInv'
<1>. DEFINE Place == [event : Event, level : Level, index : Nat]
<1>. SUFFICES ASSUME Inv, [Next]_vars, NEW t \in Thread, NEW p \in Place, p = at'[t]
              PROVE  /\ pc'[t] \notin Busy => owed'[t] = {}
                     /\ \A h \in owed'[t] : Ahead(p, h)'
  <2>1. ASSUME Inv, [Next]_vars, NEW t \in Thread PROVE at'[t] \in Place
    BY <2>1, AtStep DEF AtType
  <2>. QED
    BY <2>1 DEF OwedInv, Ahead
<1>. DEFINE Claim == /\ pc'[t] \notin Busy => owed'[t] = {}
                     /\ \A h \in owed'[t] : Ahead(p, h)'
<1>0. /\ TypeOK /\ PcInv /\ DOMAIN pc = Thread
      /\ at \in [Thread -> Place] /\ owed \in [Thread -> SUBSET (Level \X Nat)]
      /\ pc[t] \notin Busy => owed[t] = {}
      /\ \A h \in owed[t] : Ahead(at[t], h)
  BY DEF Inv, PcInv, TypeOK, OwedInv
<1>. HIDE DEF Place
<1>1. owed'[t] = {} => Claim
  OBVIOUS
<1>2. ASSUME owed'[t] \subseteq owed[t], pc'[t] \in Busy \/ pc[t] \notin Busy,
             at'[t] = at[t], UNCHANGED _all_events_
      PROVE  Claim
  <2>1. \A h \in owed'[t] : h \in Level \X Nat /\ Ahead(p, h)
    BY <1>0, <1>2
  <2>2. \A h \in owed'[t] : Ahead(p, h)'
    BY <1>0, <1>2, <2>1, AheadStays DEF Place
  <2>. QED
    BY <1>0, <1>2, <2>2
<1>3. ASSUME NEW u \in Thread, u # t, NEW x, NEW y, NEW z,
             pc' = pc \/ pc' = [pc EXCEPT ![u] = x],
             at' = at \/ at' = [at EXCEPT ![u] = y],
             owed' = owed \/ owed' = [owed EXCEPT ![u] = z], UNCHANGED _all_events_
      PROVE  Claim
  <2>1. pc'[t] = pc[t] /\ at'[t] = at[t] /\ owed'[t] = owed[t]
    BY <1>0, <1>3
  <2>. QED
    BY <1>2, <1>3, <2>1
<1>4. ASSUME NEW u \in Thread, NEW e \in Event, Begin(u, e), UNCHANGED _all_events_ PROVE Claim
  <2>1. CASE u = t
    <3>1. owed'[t] = Enabled(e) /\ at'[t] = Start(e) /\ pc'[t] \in Busy
      BY <1>0, <1>4, <2>1, BeginTypes DEF Busy
    <3>2. ASSUME NEW h \in owed'[t] PROVE h \in Level \X Nat /\ Ahead(p, h)
      <4>1. h \in Enabled(e) /\ p = Start(e)
        BY <3>1
      <4>2. h \in Level \X Nat
        BY <1>0, <4>1 DEF Enabled, TypeOK
      <4>3. Ahead(Start(e), h)
        BY <1>0, <4>1, EnabledAhead
      <4>. QED
        BY <4>1, <4>2, <4>3, Zenon
    <3>3. \A h \in owed'[t] : Ahead(p, h)'
      BY <1>0, <1>4, <3>2, AheadStays DEF Place
    <3>. QED
      BY <3>1, <3>3
  <2>2. CASE u # t
    BY <1>3, <1>4, <2>2 DEF Begin
  <2>. QED
    BY <2>1, <2>2
<1>5. ASSUME NEW u \in Thread, Finish(u), owed' = [owed EXCEPT ![u] = {}], UNCHANGED _all_events_
      PROVE  Claim
  <2>1. CASE u = t
    BY <1>0, <1>1, <1>5, <2>1
  <2>2. CASE u # t
    BY <1>3, <1>5, <2>2 DEF Finish
  <2>. QED
    BY <2>1, <2>2
<1>6. CASE FUNC_ENTRANCE \/ FUNC_EXIT
  BY <1>1, <1>6 DEF FUNC_ENTRANCE, FUNC_EXIT, clear
<1>7. CASE onEnable \/ onDisable \/ reset_loader_apis
  <2>1. /\ pc["plugin"] \notin Busy /\ UNCHANGED <<_all_events_, at, owed>>
        /\ \E x : pc' = [pc EXCEPT !["plugin"] = x]
    BY <1>7 DEF onEnable, onDisable, reset_loader_apis, Busy
  <2>2. CASE t = "plugin"
    BY <1>0, <1>1, <2>1, <2>2
  <2>3. CASE t # "plugin"
    BY <1>3, <2>1, <2>3, Levels
  <2>. QED
    BY <2>2, <2>3
<1>8. CASE FUNC_EVENT
  BY <1>4, <1>8, Levels DEF FUNC_EVENT, Event
<1>9. ASSUME NEW u \in Thread, Run(u) PROVE Claim
  <2>1. PICK q \in Following(u) :
          /\ q \in Place
          /\ at' = [at EXCEPT ![u] = q]
          /\ \/ /\ NodeAt(q).enable
                /\ pc' = [pc EXCEPT ![u] = "callback"]
                /\ owed' = [owed EXCEPT ![u] = @ \ {<<q.level, NodeAt(q).number>>}]
             \/ ~NodeAt(q).enable /\ UNCHANGED <<pc, owed>>
    BY <1>0, <1>9, RunTypes DEF Place
  <2>2. UNCHANGED _all_events_ /\ pc[u] \in Busy
    BY <1>9 DEF Run, Busy
  <2>3. CASE u = t
    <3>1. p = q
      BY <1>0, <2>1, <2>3
    <3>2. /\ owed'[t] \subseteq owed[t]
          /\ NodeAt(q).enable => <<q.level, NodeAt(q).number>> \notin owed'[t]
          /\ pc'[t] \in Busy
      BY <1>0, <2>1, <2>2, <2>3 DEF Busy
    <3>3. ASSUME NEW h \in owed'[t] PROVE Ahead(p, h)'
      <4>1. h \in Level \X Nat /\ Ahead(at[t], h)
        BY <1>0, <3>2
      <4>2. Ahead(q, h)
        BY <1>0, <2>1, <2>3, <3>2, <4>1, RunAhead
      <4>. QED
        BY <1>0, <2>2, <3>1, <4>1, <4>2, AheadStays DEF Place
    <3>. QED
      BY <3>2, <3>3
  <2>4. CASE u # t
    BY <1>3, <2>1, <2>2, <2>4
  <2>. QED
    BY <2>3, <2>4
<1>10. ASSUME NEW u \in Thread, EndOfTable(u) PROVE Claim
  <2>1. Following(u) = {} /\ Finish(u) /\ UNCHANGED <<_all_events_, owed>>
    BY <1>10 DEF EndOfTable
  <2>2. CASE u = t
    <3>1. owed[t] = {}
      <4>1. ASSUME NEW h \in owed[t] PROVE FALSE
        BY <1>0, <2>1, <2>2, NothingAhead
      <4>. QED
        BY <4>1
    <3>. QED
      BY <1>1, <2>1, <3>1
  <2>3. CASE u # t
    BY <1>3, <2>1, <2>3 DEF Finish
  <2>. QED
    BY <2>2, <2>3
<1>11. ASSUME NEW u \in Thread, Return(u) PROVE Claim
  <2>1. CASE pc' = [pc EXCEPT ![u] = "broadcast"] /\ UNCHANGED <<at, owed, _all_events_>>
    <3>1. CASE u = t
      BY <1>0, <1>2, <2>1, <3>1 DEF Busy
    <3>2. CASE u # t
      BY <1>3, <2>1, <3>2
    <3>. QED
      BY <3>1, <3>2
  <2>2. CASE Finish(u) /\ owed' = [owed EXCEPT ![u] = {}] /\ UNCHANGED _all_events_
    BY <1>5, <2>2
  <2>. QED
    BY <1>11, <2>1, <2>2 DEF Return
<1>12. ASSUME NEW e \in Event, NEW l \in Level, NEW b \in BOOLEAN, registerEvent(e, l, b) PROVE Claim
  <2>1. UNCHANGED <<pc, at, owed>>
    BY <1>12 DEF registerEvent
  <2>2. \A h \in owed[t] : h \in Level \X Nat /\ Ahead(p, h)
    BY <1>0, <2>1
  <2>3. \A h \in owed[t] : Ahead(p, h)'
    BY <1>0, <1>12, <2>2, AheadStays DEF Place
  <2>. QED
    BY <1>0, <2>1, <2>3
<1>13. ASSUME NEW e \in Event, NEW l \in Level, NEW i \in DOMAIN Nodes(e, l), Switch(e, l, i) PROVE Claim
  <2>1. /\ UNCHANGED <<pc, at>>
        /\ owed'[t] = owed[t] \ {<<l, Nodes(e, l)[i].number>>}
    BY <1>13 DEF Switch, Nodes
  <2>2. \A h \in owed'[t] : h \in Level \X Nat /\ Ahead(p, h) /\ h # <<l, Nodes(e, l)[i].number>>
    BY <1>0, <2>1
  <2>3. \A h \in owed'[t] : Ahead(p, h)'
    BY <1>0, <1>13, <2>2, AheadStays DEF Place
  <2>. QED
    BY <1>0, <2>1, <2>3
<1>14. ASSUME NEW h \in Helper, StartThread(h) \/ EndThread(h) PROVE Claim
  <2>1. h \in Thread /\ pc[h] \notin Busy
    BY <1>14 DEF Thread, StartThread, EndThread, Busy
  <2>2. CASE /\ UNCHANGED <<at, owed, _all_events_>>
             /\ pc' = [pc EXCEPT ![h] = "running"] \/ pc' = [pc EXCEPT ![h] = "ended"]
    <3>1. CASE h = t
      BY <1>0, <1>1, <2>1, <2>2, <3>1
    <3>2. CASE h # t
      BY <1>3, <2>1, <2>2, <3>2
    <3>. QED
      BY <3>1, <3>2
  <2>3. CASE Begin(h, "exception") /\ UNCHANGED _all_events_
    BY <1>4, <2>1, <2>3 DEF Event
  <2>. QED
    BY <1>14, <2>2, <2>3 DEF StartThread, EndThread
<1>15. CASE Throw
  <2>1. CASE Begin("plugin", "exception") /\ UNCHANGED _all_events_
    BY <1>4, <2>1, Levels DEF Event
  <2>2. CASE Finish("plugin") /\ owed' = [owed EXCEPT !["plugin"] = {}] /\ UNCHANGED _all_events_
    BY <1>5, <2>2, Levels
  <2>3. CASE /\ pc' = [pc EXCEPT !["plugin"] = "dead"]
             /\ owed' = [owed EXCEPT !["plugin"] = {}]
             /\ at' = [at EXCEPT !["plugin"] = Start("message")] /\ UNCHANGED _all_events_
    <3>1. CASE t = "plugin"
      BY <1>0, <1>1, <2>3, <3>1
    <3>2. CASE t # "plugin"
      BY <1>3, <2>3, <3>2, Levels
    <3>. QED
      BY <3>1, <3>2
  <2>. QED
    BY <1>15, <2>1, <2>2, <2>3 DEF Throw
<1>16. CASE Terminated \/ UNCHANGED vars
  BY <1>0, <1>2, <1>16 DEF Terminated, vars
<1>. QED
  BY <1>6, <1>7, <1>8, <1>9, <1>10, <1>11, <1>12, <1>13, <1>14, <1>15, <1>16 DEF Next, Nodes

-----------------------------------------------------------------------------

LEMMA InitInv == Init => Inv
<1>. SUFFICES ASSUME Init PROVE Inv
  OBVIOUS
<1>1. /\ pc["plugin"] = "down" /\ \A h \in Helper : pc[h] = "none"
      /\ DOMAIN pc = Thread
  <2>1. pc = [t \in Thread |-> IF t = "plugin" THEN "down" ELSE "none"]
    BY DEF Init
  <2>2. \A h \in Helper : h \in Thread /\ h # "plugin"
    BY Levels DEF Thread
  <2>. QED
    BY <2>1, <2>2, Levels
<1>2. PcInv
  BY <1>1 DEF PcInv, PluginPc, HelperPc
<1>3. TypeOK
  <2>1. Start("message") \in [event : Event, level : Level, index : Nat]
    BY LowestLevel DEF Start, Event
  <2>2. AtType /\ OwedType
    BY <2>1 DEF Init, AtType, OwedType
  <2>. QED
    BY <1>1, <2>2, EmptyTable DEF Init, TypeOK, AtType, OwedType, Busy
<1>4. \A e \in Event, l \in Level : DOMAIN Nodes(e, l) = {}
  <2>1. DOMAIN <<>> = {}
    OBVIOUS
  <2>2. \A e \in Event, l \in Level : Nodes(e, l) = <<>>
    BY DEF Init, Nodes, Empty
  <2>. QED
    BY <2>1, <2>2, Zenon
<1>5. SessionInv /\ NumbersInv
  BY <1>4 DEF SessionInv, NumbersInv
<1>6. ApisInv /\ QuietInv /\ DestructorInv /\ ObjectInv
  BY <1>1 DEF Init, ApisInv, QuietInv, DestructorInv, ObjectInv, Alive, Busy
<1>7. AtInv /\ OwedInv
  BY DEF Init, AtInv, OwedInv
<1>. QED
  BY <1>2, <1>3, <1>5, <1>6, <1>7 DEF Inv

\* The invariant holds in every reachable state.
THEOREM RegistryInvariance == Spec => []Inv
<1>1. Inv /\ [Next]_vars => Inv'
  BY TypeStep, PcStep, TableStep, LifeStep, AtInvStep, OwedInvStep DEF Inv, LifeInv
<1>. QED
  BY InitInv, <1>1, PTL DEF Spec

\* Every variable keeps its type: whatever threads register, broadcast and
\* clear, the table maps each event and level to nodes.
THEOREM TypeCorrect == Spec => []TypeOK
<1>1. Inv => TypeOK
  BY DEF Inv
<1>. QED
  BY RegistryInvariance, <1>1, PTL

\* A broadcast calls every handler it has to, in their order.
THEOREM NobodyIsSkipped == Spec => []NobodySkipped
<1>1. Inv => NobodySkipped
  <2>. SUFFICES ASSUME Inv, NEW t \in Thread, pc[t] = "callback", NEW h \in owed[t]
                PROVE  \/ at[t].level < h[1]
                       \/ at[t].level = h[1] /\ NodeAt(at[t]).number < h[2]
    BY DEF NobodySkipped, Inv, OwedInv
  <2>1. TypeOK /\ NumbersInv /\ AtInv /\ Ahead(at[t], h)
    BY DEF Inv, OwedInv
  <2>2. h[1] \in Level /\ at[t].event \in Event
    BY <2>1 DEF TypeOK
  <2>3. PICK i \in DOMAIN Nodes(at[t].event, h[1]) :
          /\ Nodes(at[t].event, h[1])[i].number = h[2]
          /\ at[t].level < h[1] \/ (at[t].level = h[1] /\ at[t].index < i)
    BY <2>1 DEF Ahead
  <2>4. CASE at[t].level = h[1] /\ at[t].index < i
    <3>1. at[t].index \in DOMAIN Nodes(at[t].event, h[1])
      BY <2>1, <2>4 DEF AtInv
    <3>2. Nodes(at[t].event, h[1])[at[t].index].number < h[2]
      BY <2>1, <2>2, <2>3, <2>4, <3>1 DEF NumbersInv
    <3>. QED
      BY <2>4, <3>2 DEF NodeAt, Nodes
  <2>. QED
    BY <2>3, <2>4
<1>. QED
  BY RegistryInvariance, <1>1, PTL

\* No handler of an earlier session is called.
THEOREM HandlersAreFresh == Spec => []FreshHandlers
<1>1. Inv => FreshHandlers
  <2>. SUFFICES ASSUME Inv, NEW t \in Thread, pc[t] = "callback"
                PROVE  NodeAt(at[t]).session = session
    BY DEF FreshHandlers
  <2>1. TypeOK /\ SessionInv /\ AtInv
    BY DEF Inv
  <2>2. at[t].event \in Event /\ at[t].level \in Level
    BY <2>1 DEF TypeOK
  <2>. QED
    BY <2>1, <2>2 DEF SessionInv, AtInv, NodeAt, Nodes
<1>. QED
  BY RegistryInvariance, <1>1, PTL

\* The loader's functions are set wherever plugin code runs.
THEOREM ApisStaySet == Spec => []ApisAreSet
<1>1. Inv => ApisAreSet
  <2>. SUFFICES ASSUME Inv, NEW t \in Thread,
                       InUserCode(t) \/ pc[t] \in {"destructor"} \cup Busy
                PROVE  pc["plugin"] # "down"
    BY DEF ApisAreSet, Inv, ApisInv
  <2>1. CASE t = "plugin"
    BY <2>1 DEF InUserCode, Busy
  <2>2. CASE t # "plugin"
    <3>1. t \in Helper /\ pc[t] \in HelperPc
      BY <2>2, Levels DEF Inv, PcInv
    <3>2. Alive(t)
      BY <3>1 DEF InUserCode, Alive, Busy, HelperPc
    <3>. QED
      BY <3>1, <3>2 DEF Inv, QuietInv
  <2>. QED
    BY <2>1, <2>2
<1>. QED
  BY RegistryInvariance, <1>1, PTL
=============================================================================
