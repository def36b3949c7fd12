----------------------------- MODULE ContactCache -----------------------------
(***************************************************************************)
(* What the SDK remembers of one group member (IMiraiData, MemberData): a  *)
(* record all Member objects of one id share, refreshed from Kotlin when a *)
(* getter finds it flagged.  The flag is an atomic, the record has a mutex *)
(* that the refresh and the getters take; constructors of Member write     *)
(* what a JSON says of the member without it.  Threads are the plugin's    *)
(* thread, its own ones and the pool's.                                    *)
(*                                                                         *)
(* Name and permission are versions, the larger the newer.  The world is   *)
(* what mirai knows; what cannot be done (the member has left, the bot is  *)
(* offline, no permission) is answered with an error code, which throws    *)
(* (ErrorHandle0).  The plugin is enabled, so checkSafeCall is true.       *)
(***************************************************************************)
EXTENDS Naturals

CONSTANTS
  Thread,      \* the threads that use the member
  Nobody,      \* none of them
  MaxVersion   \* bound: versions of the name and of the permission

ASSUME CacheAssumption == Nobody \notin Thread /\ MaxVersion \in Nat

VARIABLES
  world,       \* mirai's name and permission of the member
  data,        \* the shared record's name and permission, 0: never set
  _anonymous,  \* the record says that the member is anonymous
  _inited,     \* the record's flag
  _mtx,        \* who has the mutex for writing
  pc,          \* where each thread is
  goal,        \* what was called: an operation, a getter, a refresh
  answer,      \* the name in the answer it has not stored yet
  forced,      \* history: the world when a refresh was last forced
  failed,      \* history: the last refresh threw, or gave up at once
  told         \* history: the name is one a JSON with every key has told

vars == <<world, data, _anonymous, _inited, _mtx, pc, goal, answer, forced, failed, told>>

Versions == [name : Nat, permission : Nat]
Operation == {"changeNameCard", "modifyAdmin", "kick"}
Goal == {"get", "refresh"} \cup Operation
JsonKey == {"nickornamecard", "avatarUrl", "anonymous"}

\* Where a thread's refresh is under way.
Refreshing == {"lock", "info", "store", "query"}

TypeOK ==
  /\ world \in Versions /\ data \in Versions /\ forced \in Versions
  /\ _anonymous \in BOOLEAN /\ _inited \in BOOLEAN
  /\ failed \in BOOLEAN /\ told \in BOOLEAN
  /\ _mtx \in Thread \cup {Nobody}
  /\ pc \in [Thread -> {"idle", "request", "read", "operate", "force"} \cup Refreshing]
  /\ goal \in [Thread -> Goal]
  /\ answer \in [Thread -> Nat]

\* The record's first Member has been made from its ids.
Init ==
  /\ world = [name |-> 1, permission |-> 1] /\ forced = world
  /\ data = [name |-> 0, permission |-> 0]
  /\ _anonymous = FALSE /\ _inited = FALSE
  /\ failed = FALSE /\ told = FALSE
  /\ _mtx = Nobody
  /\ pc = [t \in Thread |-> "idle"]
  /\ goal = [t \in Thread |-> "get"]
  /\ answer = [t \in Thread |-> 0]

Goto(t, from, to) ==
  /\ pc[t] = from
  /\ pc' = [pc EXCEPT ![t] = to]
  /\ goal' = IF to = "idle" THEN [goal EXCEPT ![t] = "get"] ELSE goal

Begin(t, g, to) ==
  /\ pc[t] = "idle"
  /\ pc' = [pc EXCEPT ![t] = to]
  /\ goal' = [goal EXCEPT ![t] = g]

\* Where requestRefresh returns to.
Caller(t) == IF goal[t] = "refresh" THEN "idle" ELSE "read"

\* forceRefreshNextTime
ForceRefresh == _inited' = FALSE /\ forced' = world

-----------------------------------------------------------------------------

\* A Member is made from its ids.
ConstructFromIds(t) ==
  /\ Goto(t, "idle", "force")
  /\ UNCHANGED <<world, data, _anonymous, _inited, _mtx, answer, forced, failed, told>>

\* A Member is made from a JSON: an event's, which Kotlin wrote some time ago
\* and which never has the avatar's address, or one of the plugin.  A key that
\* is missing makes it force a refresh.
ConstructFromJson(t) ==
  \E keys \in SUBSET JsonKey :
    /\ Goto(t, "idle", IF keys = JsonKey THEN "idle" ELSE "force")
    /\ IF "nickornamecard" \in keys
       THEN \E v \in 1..world.name : data' = [data EXCEPT !.name = v]
       ELSE UNCHANGED data
    /\ IF "anonymous" \in keys THEN _anonymous' \in BOOLEAN ELSE UNCHANGED _anonymous
    /\ told' = (told \/ keys = JsonKey)
    /\ UNCHANGED <<world, _inited, _mtx, answer, forced, failed>>

\* A getter, refreshInfo of Contact or an operation is called; changeNameCard
\* and modifyAdmin begin with the getter anonymous().
Call(t, g) ==
  /\ Begin(t, g, IF g = "kick" THEN "operate" ELSE "request")
  /\ UNCHANGED <<world, data, _anonymous, _inited, _mtx, answer, forced, failed, told>>

\* forceRefreshNow: it forces a refresh and requests it.
forceRefreshNow(t) ==
  /\ Begin(t, "refresh", "request")
  /\ ForceRefresh
  /\ UNCHANGED <<world, data, _anonymous, _mtx, answer, failed, told>>

\* requestRefresh: only the thread that sets the flag refreshes, the others
\* go on with what the record holds.
requestRefresh(t) ==
  /\ Goto(t, "request", IF _inited THEN Caller(t) ELSE "lock")
  /\ _inited' = TRUE
  /\ UNCHANGED <<world, data, _anonymous, _mtx, answer, forced, failed, told>>

LockData(t) ==
  /\ Goto(t, "lock", "info")
  /\ _mtx = Nobody
  /\ _mtx' = t
  /\ failed' = FALSE
  /\ UNCHANGED <<world, data, _anonymous, _inited, answer, forced, told>>

\* Mutant of RefreshThrows: the lock is not released when refreshInfo throws.
RefreshThrows_KeepLock(t) ==
  /\ pc' = [pc EXCEPT ![t] = "idle"]
  /\ goal' = [goal EXCEPT ![t] = "get"]
  /\ failed' = TRUE
  /\ UNCHANGED <<_mtx, answer>>

\* refreshInfo throws: the answer is an error code or not what info0 or stoi
\* can read.  The mutex is released, the flag stays set.
RefreshThrows(t) ==
  /\ pc' = [pc EXCEPT ![t] = "idle"]
  /\ goal' = [goal EXCEPT ![t] = "get"]
  /\ failed' = TRUE
  /\ _mtx' = Nobody
  /\ UNCHANGED answer

\* MemberData::refreshInfo gives up at once on a member that is anonymous: the
\* flag stays set, nothing was fetched.
SkipAnonymous(t) ==
  /\ _anonymous
  /\ Goto(t, "info", Caller(t))
  /\ _mtx' = Nobody
  /\ failed' = TRUE
  /\ UNCHANGED <<world, data, _anonymous, _inited, answer, forced, told>>

\* For the others getInfoSource asks Kotlin for the name ...
refreshInfo(t) ==
  /\ pc[t] = "info"
  /\ ~_anonymous
  /\ \/ /\ Goto(t, "info", "store")
        /\ answer' = [answer EXCEPT ![t] = world.name]
        /\ UNCHANGED <<_mtx, failed>>
     \/ RefreshThrows(t)
  /\ UNCHANGED <<world, data, _anonymous, _inited, forced, told>>

\* ... which is stored ...
StoreInfo(t) ==
  /\ Goto(t, "store", "query")
  /\ data' = [data EXCEPT !.name = answer[t]]
  /\ answer' = [answer EXCEPT ![t] = 0]
  /\ told' = FALSE
  /\ UNCHANGED <<world, _anonymous, _inited, _mtx, forced, failed>>

\* Mutant of QueryM: the flag is set again when the record is complete.
QueryM_SetInited(t) ==
  /\ pc[t] = "query"
  /\ \/ /\ Goto(t, "query", Caller(t))
        /\ data' = [data EXCEPT !.permission = world.permission]
        /\ _mtx' = Nobody
        /\ _inited' = TRUE
        /\ UNCHANGED <<failed, answer>>
     \/ RefreshThrows(t) /\ UNCHANGED <<data, _inited>>
  /\ UNCHANGED <<world, _anonymous, forced, told>>

\* ... and a second operation asks for the permission.
QueryM(t) ==
  /\ pc[t] = "query"
  /\ \/ /\ Goto(t, "query", Caller(t))
        /\ data' = [data EXCEPT !.permission = world.permission]
        /\ _mtx' = Nobody
        /\ UNCHANGED <<failed, answer>>
     \/ RefreshThrows(t) /\ UNCHANGED data
  /\ UNCHANGED <<world, _anonymous, _inited, forced, told>>

\* The getter copies the field under the shared lock; changeNameCard and
\* modifyAdmin return when anonymous() is true.
Read(t) ==
  /\ Goto(t, "read", IF goal[t] \in Operation /\ ~_anonymous THEN "operate" ELSE "idle")
  /\ _mtx = Nobody
  /\ UNCHANGED <<world, data, _anonymous, _inited, _mtx, answer, forced, failed, told>>

\* The operation writes the record into its request (toString, under the
\* shared lock).  Kotlin does what it asks for; or it answers an error code
\* and the operation throws.
Operate(t) ==
  /\ _mtx = Nobody
  /\ \/ /\ Goto(t, "operate", "force")
        /\ CASE goal[t] = "changeNameCard" ->
                  world.name < MaxVersion /\ world' = [world EXCEPT !.name = @ + 1]
             [] goal[t] = "modifyAdmin" ->
                  /\ world.permission < MaxVersion
                  /\ world' = [world EXCEPT !.permission = @ + 1]
             [] OTHER -> UNCHANGED world
     \/ Goto(t, "operate", "idle") /\ UNCHANGED world
  /\ UNCHANGED <<data, _anonymous, _inited, _mtx, answer, forced, failed, told>>

\* The constructor or the operation ends with forceRefreshNextTime.
forceRefreshNextTime(t) ==
  /\ Goto(t, "force", "idle")
  /\ ForceRefresh
  /\ UNCHANGED <<world, data, _anonymous, _mtx, answer, failed, told>>

\* Others rename the member or change its permission.
Others ==
  /\ \/ /\ world.name < MaxVersion
        /\ world' = [world EXCEPT !.name = @ + 1]
     \/ /\ world.permission < MaxVersion
        /\ world' = [world EXCEPT !.permission = @ + 1]
  /\ UNCHANGED <<data, _anonymous, _inited, _mtx, pc, goal, answer, forced, failed, told>>

\* What waits for the mutex.
GoOn(t) == LockData(t) \/ Read(t) \/ Operate(t)

Go(t) ==
  \/ requestRefresh(t) \/ SkipAnonymous(t) \/ refreshInfo(t) \/ StoreInfo(t)
  \/ QueryM(t) \/ forceRefreshNextTime(t)

Next ==
  \/ \E t \in Thread :
       \/ ConstructFromIds(t) \/ ConstructFromJson(t)
       \/ forceRefreshNow(t) \/ \E g \in Goal : Call(t, g)
       \/ GoOn(t) \/ Go(t)
  \/ Others

Spec == Init /\ [][Next]_vars

\* Kotlin answers, and a mutex that is free again and again is got in the end.
FairSpec == /\ Spec
            /\ \A t \in Thread : WF_vars(Go(t)) /\ SF_vars(GoOn(t))

-----------------------------------------------------------------------------

\* No forced refresh is lost: when nobody is refreshing or about to force a
\* refresh, a record that is not flagged holds at least what mirai knew when a
\* refresh was last forced, whatever refreshes, operations and old events
\* overlapped (IMiraiData.h:68).  Three things are exempt: the last refresh
\* threw, it found the record anonymous (Member.cpp:115, the flag is set and
\* nothing fetched), or the name was since written by a constructor that got a
\* JSON with every key and forced nothing.
QuietIsFresh ==
  (_inited /\ ~failed /\ \A t \in Thread : pc[t] \notin Refreshing \cup {"force"}) =>
    /\ told \/ data.name >= forced.name
    /\ data.permission >= forced.permission

\* Every call returns or throws, and leaves the mutex.
CallsReturn == \A t \in Thread : pc[t] # "idle" ~> pc[t] = "idle"
=============================================================================
