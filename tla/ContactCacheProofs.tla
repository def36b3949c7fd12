-------------------------- MODULE ContactCacheProofs --------------------------
(***************************************************************************)
(* QuietIsFresh of ContactCache for any number of threads and versions.    *)
(* A forced refresh is owed from forceRefreshNextTime to the end of the    *)
(* refresh that follows it; the invariant says who will make good on it:   *)
(* the flag, a refresh that has not asked Kotlin yet, or one that has and  *)
(* was answered with something new enough.                                 *)
(***************************************************************************)
EXTENDS ContactCache, TLAPS

\* What was forced was known.
Known == forced.name <= world.name /\ forced.permission <= world.permission

\* A refresh has the mutex from its first question to its end.
MutexInv == \A t \in Thread : pc[t] \in {"info", "store", "query"} => _mtx = t

At(step) == \E t \in Thread : pc[t] = step

\* Answers that wait to be stored are as new as the last forced refresh asks.
AnswersAreNew == \A t \in Thread : pc[t] = "store" => answer[t] >= forced.name

\* Somebody will refresh, or the last refresh stored nothing or not all.
Owed == ~_inited \/ failed \/ At("lock") \/ At("info")

NameInv ==
  \/ Owed \/ At("force")
  \/ At("store") /\ AnswersAreNew
  \/ (told \/ data.name >= forced.name) /\ AnswersAreNew

PermissionInv ==
  \/ Owed \/ At("store") \/ At("query")
  \/ data.permission >= forced.permission

Inv == TypeOK /\ Known /\ MutexInv /\ NameInv /\ PermissionInv

Step(t) ==
  \/ ConstructFromIds(t) \/ ConstructFromJson(t)
  \/ forceRefreshNow(t) \/ \E g \in Goal : Call(t, g)
  \/ GoOn(t) \/ Go(t)

-----------------------------------------------------------------------------

LEMMA InitInv == Init => Inv
<1>. SUFFICES ASSUME Init PROVE Inv
  OBVIOUS
<1>1. TypeOK
  BY CacheAssumption DEF Init, TypeOK, Versions, Goal, Operation, Refreshing
<1>2. Known /\ MutexInv
  BY DEF Init, Known, MutexInv
<1>3. NameInv /\ PermissionInv
  BY DEF Init, NameInv, PermissionInv, Owed
<1>. QED
  BY <1>1, <1>2, <1>3 DEF Inv

\* The types.
LEMMA TypeStep == TypeOK /\ [Next]_vars => TypeOK'
<1>. SUFFICES ASSUME TypeOK, [Next]_vars PROVE TypeOK'
  OBVIOUS
<1>. USE CacheAssumption DEF TypeOK, Versions, Goal, Operation, Refreshing
<1>1. ASSUME NEW t \in Thread, ConstructFromIds(t) \/ ConstructFromJson(t) PROVE TypeOK'
  <2>1. CASE ConstructFromIds(t)
    BY <2>1 DEF ConstructFromIds, Goto
  <2>2. CASE ConstructFromJson(t)
    <3>1. \/ UNCHANGED data
          \/ \E v \in 1..world.name : data' = [data EXCEPT !.name = v]
      BY <2>2 DEF ConstructFromJson
    <3>2. data' \in Versions
      BY <3>1
    <3>3. _anonymous' \in BOOLEAN /\ told' \in BOOLEAN
      BY <2>2 DEF ConstructFromJson
    <3>4. /\ pc' \in [Thread -> {"idle", "request", "read", "operate", "force"} \cup Refreshing]
          /\ goal' \in [Thread -> Goal]
      BY <2>2 DEF ConstructFromJson, Goto
    <3>. QED
      BY <2>2, <3>2, <3>3, <3>4 DEF ConstructFromJson
  <2>. QED
    BY <1>1, <2>1, <2>2
<1>2. ASSUME NEW t \in Thread, forceRefreshNow(t) PROVE TypeOK'
  BY <1>2 DEF forceRefreshNow, Begin, ForceRefresh
<1>3. ASSUME NEW t \in Thread, NEW g \in Goal, Call(t, g) PROVE TypeOK'
  BY <1>3 DEF Call, Begin
<1>4. ASSUME NEW t \in Thread, LockData(t) PROVE TypeOK'
  BY <1>4 DEF LockData, Goto
<1>5. ASSUME NEW t \in Thread, Read(t) PROVE TypeOK'
  BY <1>5 DEF Read, Goto
<1>6. ASSUME NEW t \in Thread, Operate(t) PROVE TypeOK'
  <2>1. /\ pc' \in [Thread -> {"idle", "request", "read", "operate", "force"} \cup Refreshing]
        /\ goal' \in [Thread -> Goal]
    BY <1>6 DEF Operate, Goto
  <2>2. world' \in Versions
    <3>1. CASE UNCHANGED world
      BY <3>1
    <3>2. CASE world' = [world EXCEPT !.name = @ + 1]
      BY <3>2
    <3>3. CASE world' = [world EXCEPT !.permission = @ + 1]
      BY <3>3
    <3>. QED
      BY <1>6, <3>1, <3>2, <3>3 DEF Operate
  <2>. QED
    BY <1>6, <2>1, <2>2 DEF Operate
<1>7. ASSUME NEW t \in Thread, requestRefresh(t) PROVE TypeOK'
  BY <1>7 DEF requestRefresh, Goto, Caller
<1>8. ASSUME NEW t \in Thread, SkipAnonymous(t) \/ refreshInfo(t) PROVE TypeOK'
  BY <1>8 DEF SkipAnonymous, refreshInfo, RefreshThrows, Goto, Caller
<1>9. ASSUME NEW t \in Thread, StoreInfo(t) PROVE TypeOK'
  BY <1>9 DEF StoreInfo, Goto
<1>10. ASSUME NEW t \in Thread, QueryM(t) PROVE TypeOK'
  BY <1>10 DEF QueryM, RefreshThrows, Goto, Caller
<1>11. ASSUME NEW t \in Thread, forceRefreshNextTime(t) PROVE TypeOK'
  BY <1>11 DEF forceRefreshNextTime, Goto, ForceRefresh
<1>12. CASE Others
  <2>1. CASE world' = [world EXCEPT !.name = @ + 1]
    BY <1>12, <2>1 DEF Others
  <2>2. CASE world' = [world EXCEPT !.permission = @ + 1]
    BY <1>12, <2>2 DEF Others
  <2>. QED
    BY <1>12, <2>1, <2>2 DEF Others
<1>13. CASE UNCHANGED vars
  BY <1>13 DEF vars
<1>. QED
  BY <1>1, <1>2, <1>3, <1>4, <1>5, <1>6, <1>7, <1>8, <1>9, <1>10, <1>11, <1>12, <1>13
  DEF Next, GoOn, Go

\* What mirai knows grows, and forcing takes a copy of it.
LEMMA WorldGrows ==
  ASSUME TypeOK, [Next]_vars
  PROVE  /\ world.name \in Nat /\ world.permission \in Nat
         /\ world'.name \in Nat /\ world'.permission \in Nat
         /\ forced.name \in Nat /\ forced.permission \in Nat
         /\ world.name <= world'.name /\ world.permission <= world'.permission
         /\ forced' = forced \/ forced' = world
<1>1. /\ world.name \in Nat /\ world.permission \in Nat
      /\ forced.name \in Nat /\ forced.permission \in Nat
  BY DEF TypeOK, Versions
<1>2. world' \in {world, [world EXCEPT !.name = @ + 1], [world EXCEPT !.permission = @ + 1]}
  BY DEF Next, vars, GoOn, Go, ConstructFromIds, ConstructFromJson, Call, forceRefreshNow,
         requestRefresh, LockData, SkipAnonymous, refreshInfo, StoreInfo, QueryM, Read, Operate,
         forceRefreshNextTime, Others
<1>3. forced' = forced \/ forced' = world
  BY DEF Next, vars, GoOn, Go, ConstructFromIds, ConstructFromJson, Call, forceRefreshNow,
         requestRefresh, LockData, SkipAnonymous, refreshInfo, StoreInfo, QueryM, Read, Operate,
         forceRefreshNextTime, Others,
         ForceRefresh
<1>4. /\ world'.name \in Nat /\ world'.permission \in Nat
      /\ world.name <= world'.name /\ world.permission <= world'.permission
  <2>1. CASE world' = world
    BY <1>1, <2>1
  <2>2. CASE world' = [world EXCEPT !.name = @ + 1]
    <3>1. world'.name = world.name + 1 /\ world'.permission = world.permission
      BY <2>2 DEF TypeOK, Versions
    <3>. QED
      BY <1>1, <3>1
  <2>3. CASE world' = [world EXCEPT !.permission = @ + 1]
    <3>1. world'.name = world.name /\ world'.permission = world.permission + 1
      BY <2>3 DEF TypeOK, Versions
    <3>. QED
      BY <1>1, <3>1
  <2>. QED
    BY <1>2, <2>1, <2>2, <2>3
<1>. QED
  BY <1>1, <1>3, <1>4

LEMMA KnownStep == TypeOK /\ Known /\ [Next]_vars => Known'
<1>. SUFFICES ASSUME TypeOK, Known, [Next]_vars PROVE Known'
  OBVIOUS
<1>1. CASE forced' = forced
  BY <1>1, WorldGrows DEF Known
<1>2. CASE forced' = world
  BY <1>2, WorldGrows DEF Known
<1>. QED
  BY <1>1, <1>2, WorldGrows

\* A thread's step leaves where the others are, and the mutex is taken only
\* when it is free and given back only by who has it.
LEMMA OwnStep ==
  ASSUME TypeOK, NEW t \in Thread, Step(t)
  PROVE  \A u \in Thread \ {t} : pc'[u] = pc[u]
  BY DEF Step, TypeOK, GoOn, Go, ConstructFromIds, ConstructFromJson, Call, forceRefreshNow,
         requestRefresh, LockData, SkipAnonymous, refreshInfo, StoreInfo, QueryM, Read, Operate,
         forceRefreshNextTime, RefreshThrows,
         Goto, Begin, Caller

LEMMA MutexStep == TypeOK /\ MutexInv /\ [Next]_vars => MutexInv'
<1>. SUFFICES ASSUME TypeOK, MutexInv, [Next]_vars PROVE MutexInv'
  OBVIOUS
<1>1. ASSUME NEW t \in Thread, Step(t) PROVE MutexInv'
  <2>1. CASE pc'[t] \in {"info", "store", "query"}
    <3>1. _mtx' = t /\ (_mtx = t \/ _mtx = Nobody)
      BY <1>1, <2>1 DEF Step, TypeOK, MutexInv, GoOn, Go, ConstructFromIds, ConstructFromJson,
         Call, forceRefreshNow, requestRefresh, LockData, SkipAnonymous, refreshInfo,
         StoreInfo, QueryM, Read, Operate, forceRefreshNextTime, RefreshThrows, Goto, Begin, Caller
    <3>2. \A u \in Thread \ {t} : pc'[u] \notin {"info", "store", "query"}
      BY <1>1, <3>1, OwnStep, CacheAssumption DEF MutexInv
    <3>. QED
      BY <3>1, <3>2 DEF MutexInv
  <2>2. CASE pc'[t] \notin {"info", "store", "query"}
    <3>1. _mtx' = _mtx \/ (pc[t] \in {"info", "store", "query"} /\ _mtx' = Nobody)
      BY <1>1, <2>2 DEF Step, TypeOK, GoOn, Go, ConstructFromIds, ConstructFromJson,
         Call, forceRefreshNow, requestRefresh, LockData, SkipAnonymous, refreshInfo,
         StoreInfo, QueryM, Read, Operate, forceRefreshNextTime, RefreshThrows, Goto, Begin, Caller
    <3>. QED
      BY <1>1, <2>2, <3>1, OwnStep DEF MutexInv
  <2>. QED
    BY <2>1, <2>2
<1>2. CASE Others
  BY <1>2 DEF Others, MutexInv
<1>3. CASE UNCHANGED vars
  BY <1>3 DEF vars, MutexInv
<1>. QED
  BY <1>1, <1>2, <1>3 DEF Next, Step

-----------------------------------------------------------------------------

\* A step that leaves record, flag and answers alone, of a thread that neither
\* owed anything nor has an answer afterwards.
LEMMA NameQuiet ==
  ASSUME TypeOK, NameInv, NEW t \in Thread,
         pc[t] \notin {"lock", "info", "store", "force"}, pc'[t] # "store",
         \A u \in Thread \ {t} : pc'[u] = pc[u],
         data'.name = data.name, UNCHANGED <<answer, forced, told>>,
         _inited' = _inited, failed' = failed
  PROVE  NameInv'
<1>1. \A step \in {"lock", "info", "store", "force"} : At(step) => At(step)'
  BY DEF At
<1>2. AnswersAreNew => AnswersAreNew'
  BY DEF AnswersAreNew
<1>3. Owed => Owed'
  BY <1>1 DEF Owed
<1>. QED
  BY <1>1, <1>2, <1>3 DEF NameInv

LEMMA NameStep == TypeOK /\ Known /\ MutexInv /\ NameInv /\ [Next]_vars => NameInv'
<1>. SUFFICES ASSUME TypeOK, Known, MutexInv, NameInv, [Next]_vars PROVE NameInv'
  OBVIOUS
<1>0. ASSUME NEW t \in Thread, Step(t) PROVE \A u \in Thread \ {t} : pc'[u] = pc[u]
  BY <1>0, OwnStep
<1>1. ASSUME NEW t \in Thread, ConstructFromIds(t) \/ ConstructFromJson(t) PROVE NameInv'
  <2>1. CASE pc'[t] = "force"
    BY <2>1 DEF NameInv, At
  <2>2. CASE pc'[t] # "force"
    <3>1. /\ pc[t] = "idle" /\ pc'[t] = "idle" /\ told'
          /\ UNCHANGED <<_inited, failed, answer, forced>>
      BY <1>1, <2>2 DEF ConstructFromIds, ConstructFromJson, Goto, TypeOK
    <3>2. \A step \in {"lock", "info", "store", "force"} : At(step) => At(step)'
      BY <1>0, <1>1, <3>1 DEF At, Step
    <3>3. AnswersAreNew => AnswersAreNew'
      BY <1>0, <1>1, <3>1 DEF AnswersAreNew, Step
    <3>4. Owed => Owed'
      BY <3>1, <3>2 DEF Owed
    <3>. QED
      BY <3>1, <3>2, <3>3, <3>4 DEF NameInv
  <2>. QED
    BY <2>1, <2>2
<1>2. ASSUME NEW t \in Thread, forceRefreshNow(t) \/ forceRefreshNextTime(t) PROVE NameInv'
  BY <1>2 DEF forceRefreshNow, forceRefreshNextTime, ForceRefresh, NameInv, Owed
<1>3. ASSUME NEW t \in Thread, NEW g \in Goal, Call(t, g) PROVE NameInv'
  <2>1. pc[t] = "idle" /\ pc'[t] # "store"
    BY <1>3 DEF Call, Begin, TypeOK
  <2>. QED
    BY <1>3, <2>1, <1>0, NameQuiet DEF Call, Step
<1>4. ASSUME NEW t \in Thread, LockData(t) PROVE NameInv'
  <2>1. pc'[t] = "info"
    BY <1>4 DEF LockData, Goto, TypeOK
  <2>. QED
    BY <2>1 DEF NameInv, Owed, At
<1>5. ASSUME NEW t \in Thread, Read(t) PROVE NameInv'
  <2>1. pc[t] = "read" /\ pc'[t] # "store"
    BY <1>5 DEF Read, Goto, TypeOK
  <2>. QED
    BY <1>5, <2>1, <1>0, NameQuiet DEF Read, Step, GoOn
<1>6. ASSUME NEW t \in Thread, Operate(t) PROVE NameInv'
  <2>1. pc[t] = "operate" /\ pc'[t] # "store"
    BY <1>6 DEF Operate, Goto, TypeOK
  <2>. QED
    BY <1>6, <2>1, <1>0, NameQuiet DEF Operate, Step, GoOn
<1>7. ASSUME NEW t \in Thread, requestRefresh(t) PROVE NameInv'
  <2>1. CASE _inited
    <3>1. pc[t] = "request" /\ pc'[t] # "store"
      BY <1>7, <2>1 DEF requestRefresh, Goto, Caller, TypeOK
    <3>2. _inited' = _inited /\ failed' = failed
      BY <1>7, <2>1 DEF requestRefresh, TypeOK
    <3>. QED
      BY <1>7, <3>1, <3>2, <1>0, NameQuiet DEF requestRefresh, Step, Go
  <2>2. CASE ~_inited
    <3>1. pc'[t] = "lock"
      BY <1>7, <2>2 DEF requestRefresh, Goto, TypeOK
    <3>. QED
      BY <3>1 DEF NameInv, Owed, At
  <2>. QED
    BY <2>1, <2>2
<1>8. ASSUME NEW t \in Thread, SkipAnonymous(t) \/ refreshInfo(t) PROVE NameInv'
  <2>1. CASE failed' = TRUE
    BY <2>1 DEF NameInv, Owed
  <2>2. CASE /\ refreshInfo(t)
             /\ pc' = [pc EXCEPT ![t] = "store"] /\ answer' = [answer EXCEPT ![t] = world.name]
    <3>1. pc'[t] = "store" /\ answer'[t] = world.name /\ forced' = forced
      BY <1>8, <2>2 DEF refreshInfo, TypeOK
    <3>2. \A u \in Thread \ {t} : pc'[u] # "store"
      BY <1>8, <2>2 DEF refreshInfo, MutexInv, TypeOK
    <3>3. world.name >= forced.name
      BY WorldGrows DEF Known
    <3>4. AnswersAreNew' /\ At("store")'
      BY <3>1, <3>2, <3>3 DEF AnswersAreNew, At
    <3>. QED
      BY <3>4 DEF NameInv
  <2>. QED
    BY <1>8, <2>1, <2>2 DEF SkipAnonymous, refreshInfo, RefreshThrows, Goto
<1>9. ASSUME NEW t \in Thread, StoreInfo(t) PROVE NameInv'
  <2>1. /\ pc[t] = "store" /\ pc'[t] = "query" /\ data'.name = answer[t]
        /\ forced' = forced /\ _inited' = _inited /\ failed' = failed
    BY <1>9 DEF StoreInfo, Goto, TypeOK, Versions
  <2>2. \A u \in Thread : pc'[u] # "store"
    BY <1>9, <2>1, <1>0 DEF Step, Go, MutexInv
  <2>3. AnswersAreNew'
    BY <2>2 DEF AnswersAreNew
  <2>4. \A step \in {"lock", "info", "force"} : At(step) => At(step)'
    BY <1>9, <2>1, <1>0 DEF At, Step, Go
  <2>5. CASE Owed \/ At("force")
    BY <2>1, <2>4, <2>5 DEF NameInv, Owed
  <2>6. CASE AnswersAreNew
    <3>1. data'.name >= forced'.name
      BY <2>1, <2>6 DEF AnswersAreNew
    <3>. QED
      BY <2>3, <3>1 DEF NameInv
  <2>. QED
    BY <2>5, <2>6 DEF NameInv
<1>10. ASSUME NEW t \in Thread, QueryM(t) PROVE NameInv'
  <2>1. CASE failed' = TRUE
    BY <2>1 DEF NameInv, Owed
  <2>2. CASE /\ pc' = [pc EXCEPT ![t] = Caller(t)] /\ UNCHANGED <<failed, answer>>
             /\ data' = [data EXCEPT !.permission = world.permission]
    <3>0. pc'[t] # "store"
      BY <2>2 DEF Caller, TypeOK
    <3>1. pc[t] = "query" /\ data'.name = data.name
      BY <1>10, <2>2 DEF QueryM, TypeOK, Versions
    <3>. QED
      BY <1>10, <2>2, <3>0, <3>1, <1>0, NameQuiet DEF QueryM, Step, Go
  <2>. QED
    BY <1>10, <2>1, <2>2 DEF QueryM, RefreshThrows, Goto
<1>11. CASE Others
  BY <1>11 DEF Others, NameInv, Owed, At, AnswersAreNew
<1>12. CASE UNCHANGED vars
  BY <1>12 DEF vars, NameInv, Owed, At, AnswersAreNew
<1>. QED
  BY <1>1, <1>2, <1>3, <1>4, <1>5, <1>6, <1>7, <1>8, <1>9, <1>10, <1>11, <1>12
  DEF Next, GoOn, Go

-----------------------------------------------------------------------------

\* The same for the permission, which only a refresh writes.
LEMMA PermissionQuiet ==
  ASSUME TypeOK, PermissionInv, NEW t \in Thread,
         pc[t] \in {"lock", "info", "store", "query"} => pc'[t] \in {"info", "store", "query"},
         \A u \in Thread \ {t} : pc'[u] = pc[u],
         data'.permission = data.permission, forced' = forced,
         _inited' = _inited, failed' = failed
  PROVE  PermissionInv'
<1>1. (\E u \in Thread : pc[u] \in {"lock", "info", "store", "query"})
        => \E u \in Thread : pc'[u] \in {"lock", "info", "store", "query"}
  OBVIOUS
<1>. QED
  BY <1>1 DEF PermissionInv, Owed, At

LEMMA PermissionStep ==
  TypeOK /\ Known /\ PermissionInv /\ [Next]_vars => PermissionInv'
<1>. SUFFICES ASSUME TypeOK, Known, PermissionInv, [Next]_vars PROVE PermissionInv'
  OBVIOUS
<1>0. ASSUME NEW t \in Thread, Step(t) PROVE \A u \in Thread \ {t} : pc'[u] = pc[u]
  BY <1>0, OwnStep
<1>1. ASSUME NEW t \in Thread, ConstructFromIds(t) \/ ConstructFromJson(t)
      PROVE PermissionInv'
  <2>1. pc[t] = "idle" /\ data'.permission = data.permission
    BY <1>1 DEF ConstructFromIds, ConstructFromJson, Goto, TypeOK, Versions
  <2>2. forced' = forced /\ _inited' = _inited /\ failed' = failed
    BY <1>1 DEF ConstructFromIds, ConstructFromJson
  <2>. QED
    BY <1>1, <2>1, <2>2, <1>0, PermissionQuiet DEF Step
<1>2. ASSUME NEW t \in Thread, forceRefreshNow(t) \/ forceRefreshNextTime(t)
      PROVE PermissionInv'
  BY <1>2 DEF forceRefreshNow, forceRefreshNextTime, ForceRefresh, PermissionInv, Owed
<1>3. ASSUME NEW t \in Thread, NEW g \in Goal, Call(t, g) PROVE PermissionInv'
  BY <1>3, <1>0, PermissionQuiet DEF Call, Begin, Step
<1>4. ASSUME NEW t \in Thread, LockData(t) PROVE PermissionInv'
  <2>1. pc'[t] = "info"
    BY <1>4 DEF LockData, Goto, TypeOK
  <2>. QED
    BY <2>1 DEF PermissionInv, Owed, At
<1>5. ASSUME NEW t \in Thread, Read(t) \/ Operate(t) PROVE PermissionInv'
  <2>1. pc[t] \in {"read", "operate"}
    BY <1>5 DEF Read, Operate, Goto
  <2>. QED
    BY <1>5, <2>1, <1>0, PermissionQuiet DEF Read, Operate, Step, GoOn
<1>6. ASSUME NEW t \in Thread, requestRefresh(t) PROVE PermissionInv'
  <2>1. CASE _inited
    <3>1. pc[t] = "request" /\ _inited' = _inited /\ failed' = failed
      BY <1>6, <2>1 DEF requestRefresh, Goto, TypeOK
    <3>. QED
      BY <1>6, <3>1, <1>0, PermissionQuiet DEF requestRefresh, Step, Go
  <2>2. CASE ~_inited
    <3>1. pc'[t] = "lock"
      BY <1>6, <2>2 DEF requestRefresh, Goto, TypeOK
    <3>. QED
      BY <3>1 DEF PermissionInv, Owed, At
  <2>. QED
    BY <2>1, <2>2
<1>7. ASSUME NEW t \in Thread, SkipAnonymous(t) \/ refreshInfo(t) PROVE PermissionInv'
  <2>1. CASE failed' = TRUE
    BY <2>1 DEF PermissionInv, Owed
  <2>2. CASE pc' = [pc EXCEPT ![t] = "store"]
    <3>1. pc'[t] = "store"
      BY <2>2 DEF TypeOK
    <3>. QED
      BY <3>1 DEF PermissionInv, At
  <2>. QED
    BY <1>7, <2>1, <2>2 DEF SkipAnonymous, refreshInfo, RefreshThrows, Goto
<1>8. ASSUME NEW t \in Thread, StoreInfo(t) PROVE PermissionInv'
  <2>1. pc'[t] = "query"
    BY <1>8 DEF StoreInfo, Goto, TypeOK
  <2>. QED
    BY <2>1 DEF PermissionInv, At
<1>9. ASSUME NEW t \in Thread, QueryM(t) PROVE PermissionInv'
  <2>1. CASE failed' = TRUE
    BY <2>1 DEF PermissionInv, Owed
  <2>2. CASE data' = [data EXCEPT !.permission = world.permission]
    <3>1. data'.permission = world.permission /\ forced' = forced
      BY <1>9, <2>2 DEF QueryM, TypeOK, Versions
    <3>2. data'.permission >= forced'.permission
      BY <3>1, WorldGrows DEF Known
    <3>. QED
      BY <3>2 DEF PermissionInv
  <2>. QED
    BY <1>9, <2>1, <2>2 DEF QueryM, RefreshThrows, Goto
<1>10. CASE Others
  BY <1>10 DEF Others, PermissionInv, Owed, At
<1>11. CASE UNCHANGED vars
  BY <1>11 DEF vars, PermissionInv, Owed, At
<1>. QED
  BY <1>1, <1>2, <1>3, <1>4, <1>5, <1>6, <1>7, <1>8, <1>9, <1>10, <1>11
  DEF Next, GoOn, Go

-----------------------------------------------------------------------------

\* The invariant holds in every reachable state.
THEOREM CacheInvariance == Spec => []Inv
<1>1. Inv /\ [Next]_vars => Inv'
  BY TypeStep, KnownStep, MutexStep, NameStep, PermissionStep DEF Inv
<1>. QED
  BY InitInv, <1>1, PTL DEF Spec

\* No forced refresh is lost, for any number of threads that construct, read,
\* change and refresh a member, whatever others do to it.
THEOREM NoRefreshIsLost == Spec => []QuietIsFresh
<1>1. Inv => QuietIsFresh
  <2>. SUFFICES ASSUME Inv, _inited, ~failed,
                       \A t \in Thread : pc[t] \notin Refreshing \cup {"force"}
                PROVE  /\ told \/ data.name >= forced.name
                       /\ data.permission >= forced.permission
    BY DEF QuietIsFresh
  <2>1. \A step \in Refreshing \cup {"force"} : ~At(step)
    BY DEF At
  <2>. QED
    BY <2>1 DEF Inv, NameInv, PermissionInv, Owed, Refreshing
<1>. QED
  BY CacheInvariance, <1>1, PTL
=============================================================================
