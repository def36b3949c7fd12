# MiraiCP: a TLA+ model of libLoader and of the SDK's runtime

MiraiCP runs C++ plugins for the mirai bot framework. A Kotlin program (mirai
console plugin or stand-alone loader) loads the native library *libLoader*
(`cpp/src/libloader`), which loads the plugins' shared libraries, gives each
enabled plugin a thread of its own, hands mirai's events to those threads and
enables, disables, unloads and reloads plugins on request. Plugins are built
with the SDK (`cpp/src/include`), which is compiled into each of them: it keeps
the plugin's event handlers, its pool tasks and what it knows of members.

The hard part of libLoader is that four kinds of threads share the plugin list, the
thread table, the task queue and the mapped libraries: a mistake in an order of
steps runs code that is not mapped any more, loses a plugin's exit function, or
stops the loader. The hard part of the SDK is that its tables are changed by
callbacks while they are gone through, by the plugin's own threads, and by tasks
that may outlive the session that made them.

## Components, their state and their operations

| component (source) | state | operations | hard behaviour | modelled by |
|---|---|---|---|---|
| loader thread (`loaderMain.cpp`) | `loader_exit`, the task in hand | `mainloop`, `shutdownLoader` | serves tasks while plugins run; must not be stopped by them | `PluginLoader` |
| plugin list (`PluginListManager.cpp`, `PluginListImplements.cpp`, `LoaderPluginConfig.h`) | `id_plugin_list`: handle, enabled flag per id; `pluginlist_mtx` | load, enable, disable, unload, reload, add, crash handling, walks over all entries | every operation has several steps that can fail, and waits for plugin threads with the list locked; a library may report another id when it is reloaded | `PluginLoader`, `PluginList` |
| libraries (`libOpen.cpp`) | what `dlopen` mapped, and how often | open, close | a file opened twice is mapped once; a library may not be closed under a running thread | `PluginLoader` |
| plugin threads (`ThreadController.cpp`) | `thread_memory`; per worker the job queue, `exit`, `busy` | `addThread`, `submitJob`, `callThreadEnd` (join with a ten second limit), `endThread`; `run` | jobs arrive while the thread is told to end; a job may throw or hang | `ThreadController` |
| task queue and loader API (`LoaderTaskQueue.h`, `loaderApi.cpp`), console commands (`eventHandle.cpp`) | `loader_thread_task_queue` | one push per request | requests of many threads, served later, by plugin id | `PluginLoader` (`Request`) |
| calls from Kotlin (`ktInterface.cpp`) | the text of the current event | `EventImpl`, `PluginDisableImpl`, `VerifyImpl` | broadcasts race with enable, disable and unload; one string for the text of all events | `PluginLoader` (`Event`, `LoaderExit`), `EventBroadcast`, `PluginList` (`RegisterPlugin`) |
| thread pool (`BS_thread_pool.hpp`) | task queue, `tasks_total`, `running`, `waiting` | push, wait, destroy, worker loop | lost wake-ups, miscounted tasks, tasks left behind | `TaskPool`, `TaskExecution` |
| SDK entry points and loader client (`utils.cpp`, `loaderApi.cpp`) | the plugin's object, the pointer to the loader's functions | `FUNC_ENTRANCE`, `FUNC_EVENT`, `FUNC_EXIT`, `checkApi` | exceptions at every point; the pointer is reset while threads and tasks may use it | `EventRegistry`, `PluginTasks` |
| SDK event registry (`Event.h`, `Event.cpp`), plugins' threads (`MiraiCPNewThread.h`) | handlers per event type and level | register, broadcast, stop, resume, clear | handlers that register or stop while one is broadcast; threads that broadcast what they throw | `EventRegistry` |
| SDK pool tasks (`ThreadTask.h`, `ThreadTask.cpp`) | the store of functions, the counter of numbers | `promiseTask`, `addTask`, `task_interface` | functions stored, found and removed by many threads; tasks that wait for tasks; tasks that are over after the plugin is | `PluginTasks` |
| SDK contact data (`IMiraiData.cpp`, `Contact.h`, `Member.cpp`) | a record per member that all its objects share, a flag, a mutex | request and force a refresh, read, the operations of a member | two queries per refresh, each may fail; a refresh is forced while another is under way | `ContactCache` |
| crash signal handler (`PlatformException.cpp`) | none | looks the plugin up, disables it, ends the thread | runs outside every rule | no |
| scheduler (`Scheduler.cpp`) | list of timed events | add, pop | none: nothing calls it | no |
| SDK commands (`Command.cpp`) | registered commands | register, parse | none: registration always fails | no |
| SDK messages, MiraiCode, Kotlin operations, logger, exceptions | none | requests, conversions | escaping | no |
| Kotlin shared part (`kotlin/shared`), launchers | bots, caches | forwards events and requests | none of its own | no |
| vendored JSON and UTF-8, examples, demo, tests, build files | | | | no |

How they interact: the kt thread calls `Event` (locks the list, gives a job to
every enabled plugin's worker) and, at last, `PluginDisable` (sets
`loader_exit`, joins the loader thread). Plugins and the console push tasks. The
loader thread pops one task at a time and, for all but the loading of a new
plugin, keeps the list locked from its beginning to its end. A plugin thread
that catches an exception pushes `EXCEPTION_PLUGINEND` with its plugin's id and
ends. The jobs of a worker are the three entry points of the SDK, which broadcast
events to the plugin's handlers; handlers start threads, push tasks to libLoader's
pool and call Kotlin, and the loader thread waits for the pool's tasks only when all
libraries are closed.

## Modules

`ThreadController` has the workers: `thread_memory`, and per worker the job
queue, the flag `exit`, its place in `run()` (`pc`) and the job it executes.
Its definitions are the operations of `ThreadController.cpp`; each critical
section of `_mtx` and `worker_mtx` is one action. A job says which function it
calls (entrance, event, exit) and in which library instance: the entrance and
exit jobs hold a function pointer, an event job reads `cfg.eventFunc` when it
starts (`StartJob`). `freed` records destroyed `threadWorker` objects and `life`
the last lifecycle job of a worker that ended, returned or thrown; the code has
neither, properties do. Any job may throw: `FUNC_ENTRANCE` catches what its plugin
throws, but it also logs before the `try` and in the handlers.

`PluginLoader` composes the workers with the list, the libraries, the task
queue, the loader thread and the kt thread. The loader thread's walk through one
task is the variable `lpc`; each step ends where another thread can see a
difference: a lock taken or released, a job queued, a worker waited for, a
library closed.

| `lpc` | code |
|---|---|
| `idle` | `mainloop` between two tasks |
| `lock` | the `lock_guard` of a `PluginListManager` operation (`AcquireList`) |
| `next` | the loop over the entries still to visit, or the end of the operation (`Visit`, `ReleaseList`) |
| `enable` | `enable_plugin` |
| `callThreadEnd`, `end`, `join`, `disable` | `disable_plugin`: exit job queued, `exit` set, wait, `plugin.disable()` |
| `endThread` | `endThread` in `unload_when_exception` |
| `close`, `unload` | `libClose`, `plugin.unload()` |
| `load` | `load_plugin` of a reload |
| `open`, `activate`, `insert` | `loadNewPluginByPath`: load, enable, `addNewPlugin`, without the lock until the last |

The libraries are instances: `image[p]` is the number of the instance mapped from
plugin `p`'s file, `refs[p]` how often it is open; a new mapping gets a new number,
so a job of an old instance is recognised.

`stage` follows `loaderMain()` up to the end of `shutdownLoader` (`exited`: `unloadAll` is
over). What `loaderMain` does after that, destroying `BS::pool`, is `TaskPool`'s, and
`PluginDisable` joins the thread only after both.

What plugins and files do wrong is a set of *mishaps*, a constant: a job throws
(`throw`), is still running after ten seconds (`overrun`), calls
`showAllPluginId` (`list`), a file is missing (`missing`) or is not a plugin
(`badSymbols`), or a plugin in the list is loaded again (`duplicate`). A run
names the mishaps it allows, so each result says what it assumes of plugins.

`PluginLifecycle` is the promise to a plugin's author: not loaded, loaded,
enabled with a fresh thread, entrance function, events one at a time, exit
function, disabled, unloaded. `PluginLoader` maps its state to it (`phase`) and
is shown to implement it (`LifecycleSpec`).

`PluginList` is the list when plugins do not keep their ids, which `PluginLoader`
takes them to do. The list is keyed by the id a library reported when it was
listed, `thread_memory` by the id it reports now; a reload may change the id
(`changeKey`), a new plugin or two files of the configuration may report an id
in use. Its operations run under one lock or on the one loader thread, so an
operation is one action; its helpers are functions from state to state with the
names of the C++ functions, called in their order. The mishaps `reloadTaken` and
`loadTaken` allow the ids that break it.

`EventBroadcast` is `EventImpl` and the one static string it assigns, with the
jobs that read it. The assignment is two steps, as plugin threads read without
a lock: a read meanwhile may see the old text or a torn one (`Torn`).

`TaskPool` is the thread pool, from `create_threads` to the last join in
`destroy_threads`. The steps are smaller than the critical sections:
`++tasks_total` comes after the queue's lock is released, `running` is cleared
without that lock, and a worker keeps the lock from its look at the queue
(`FindNoTask`) until it sleeps (`Sleep`).

| `wpc`, `ppc`, `owner` | code |
|---|---|
| `loop`, `lock` | `while (running)`; the lock and the predicate of `task_available_cv.wait` |
| `sleepy`, `asleep` | the predicate was false; the worker sleeps |
| `run`, `count`, `ended` | `task()`; `--tasks_total`; the worker has returned |
| `append`, `count`, `notify` | the three steps of `push_task` |
| `serving` | the pool is in use, `BS::pool` is set |
| `wait`, `check`, `asleep` | `wait_for_tasks` |
| `destroy`, `notify`, `join`, `gone` | `destroy_threads` |

`tasks_total` is a `size_t` that wraps at `SizeMax`. `TaskExecution` is what a pool
promises: each task runs once, tasks start in the order of the pushes, never more
at a time than there are threads; `TaskPool` is shown to implement it
(`ExecutionSpec`). The tasks' numbers and `done` are history.

`EventRegistry` is one plugin seen from inside. `_all_events_` is the table of
`Event.h`: per event type and level a vector of nodes; a node's number is its
place in the order of all registrations. `at[t]` is where the range-fors of
`Event::broadcast` are on thread `t`, read again after every callback, so that a
registration at a later level is seen by a broadcast under way. `owed[t]` is history:
the handlers that were registered and switched on when the broadcast began, minus
those called, and those stopped meanwhile.

| `pc["plugin"]` | code |
|---|---|
| `down` | the plugin is not enabled |
| `onEnable` | `FUNC_ENTRANCE` after `enrollPlugin` |
| `idle`, `broadcast`, `callback` | between two `FUNC_EVENT`s; in `Event::broadcast`, in a handler |
| `onDisable`, `destructor` | `FUNC_EXIT`: after the clear; `plugin.reset()` |
| `dead` | an exception left the entry point and ended the worker |

A helper's `wild` is a broadcast that goes on in a table another thread has freed:
what it does then is undefined and not modelled further. The table has no lock, so
`Changeable` allows registrations only where the code is defined: nobody else goes
through the event's table, and the vector a callback is called from does not grow.

`PluginTasks` is `ThreadTask.h` composed with the life of its plugin and with the
pool, of which it takes what `TaskExecution` promises: a queue, taken in turn by
`Workers` workers. `step[k]` walks task `k` through `push_task` (`numbered`, `stored`,
`queued`), `task_interface` (`lookup`), the function (`invoke`), the wrapper of
`promiseTask` (`log`, `remove`, `return`), and `crashed` is a step that would run an
unmapped library or read through the null `loader_apis`. `maker[k]` is who made
task `k`. The plugin is a *careful* one: whoever makes a task waits for its
function's end before it returns, onDisable included, and fewer tasks wait than there are
workers (`NewTask`). Nothing in the code sees to either. Without the first, functions of a
plugin that is gone would run; without the second, any pool would stand still.

`ContactCache` is the record that all `Member` objects of one id share: the data,
the atomic flag `_inited`, the mutex, and per thread its place in `requestRefresh`,
`refreshInfo` with its two queries, a getter or an operation. Names and permissions
are versions. `world` is mirai's side (external): any query or operation is answered or
throws, and others rename the member or change its permission. A member made from a JSON
forces a refresh only if a key is missing (`ConstructFromJson`); the record may be
`_anonymous`, and then a refresh gives up at once (`SkipAnonymous`). `forced` is what mirai
knew when a refresh was last forced, `failed` that the last refresh threw or gave up,
`told` that the name is one a JSON with every key has told; the three are history.

| `pc[t]` | code |
|---|---|
| `request` | `requestRefresh`: exchange of the flag |
| `lock`, `info`, `store`, `query` | the locked `refreshInfo`: the test of `_anonymous` and the first query, its answer stored, the second query |
| `read`, `operate` | the getter's copy, `anonymous()` of the operations included; the request of `changeNameCard`, `modifyAdmin`, `kick` |
| `force` | the `forceRefreshNextTime` that constructors and operations end with |

`PluginLoaderInv` holds the inductive invariants of the core, `PluginLoaderProofs` and
`PluginLoaderCalmProofs` their proofs; `TaskPoolProofs`, `PluginListProofs`,
`EventBroadcastProofs`, `EventRegistryProofs`, `PluginTasksProofs` and
`ContactCacheProofs` are the proofs about the modules of those names. The `MC` modules
declare the runs' constants.

## Runs

The runs of the core use `MCPluginLoader`. Bounds: `MaxThreads` worker threads over a
behaviour (a behaviour that would need more stops being extended),
`MaxRequests` console or API requests, `MaxEvents` events.

| run | mishaps | question | result |
|---|---|---|---|
| `lifecycle` | missing files | two plugins, three requests of any kind: no use after unload, the exit function before the worker is destroyed, clean shutdown, refinement of `PluginLifecycle`, inductive invariant | holds |
| `crashes` | throw | is the worker of every crash taken down in the end, is every task served, is every entrance function called unless a stale report takes the new thread down first, do list, threads and libraries agree | holds |
| `mishaps` | all, one plugin | the part of the invariant that assumes nothing of plugins; does the loader thread release the list and, told to exit, come to the end of `shutdownLoader` when plugins hang for ever | holds |
| `stale_exception` | throw | "the thread is already down by exception" | violated |

The runs of the other modules:

| run | module, bounds | question | result |
|---|---|---|---|
| `list_keys` | `PluginList`: three files, three ids, two files registered | do keys, ids, threads and open libraries agree over any sequence of operations, and does shutdown reach all | holds |
| `broadcast` | `EventBroadcast`: two plugins, three texts | do all plugins handle the same events in the same order, and none a text older than its event | holds |
| `broadcast_text` | two plugins, two texts | a job reads the text of its event | violated |
| `pool` | `TaskPool`: three workers, one plugin thread, four tasks that may push tasks, one spurious wakeup | is the count right, is no task lost or left behind, is each run, once and in turn, does the destructor's wait end | holds |
| `registry` | `EventRegistry`: one helper thread, two levels, three registrations, two sessions, one message, threads end before `FUNC_EXIT` | does a broadcast call exactly the handlers it owes, in order, does it end, is no old handler called, are the loader's functions set wherever plugin code runs | holds |
| `tasks` | `PluginTasks`: three workers, four tasks, two sessions | do functions run only while the plugin is enabled, is the store exact, is every future set, does onDisable come to an end | holds |
| `tasks_disabled` | two workers, three tasks, two sessions | a plugin that is not loaded gets an exception, not a null pointer | violated |
| `contacts` | `ContactCache`: two threads, two versions of name and permission | is no forced refresh lost to one that overlaps it, does every call return | holds |

Why the bounds are enough: a hazard of the core needs one plugin, its old and its new
thread, a request that starts the walk and one that overlaps it. Two plugins
are there for the walks over all entries and for loads of a new plugin beside a
listed one; three requests allow enable, disable, reload sequences; one event is
enough since a job's content does not matter; five threads let one plugin be
restarted three times. `crashes`, which checks liveness, has two requests, three threads
(each request adds one at most) and, of the second plugin, only the requests that load and
enable it.

In the pool, a miscount needs one task that pushes and one worker that is faster
than the count; a lost task needs a worker awake, one asleep and one between the
two, hence three. `SizeMax` only has to be larger than tasks and threads
together, which is also the assumption of the proofs. `PluginList` needs one plugin
whose id changes, one that has the id and one beside them; its state space is
finite and needs no other bound. In `EventBroadcast` a job is late by one text or
by two.

In `EventRegistry` three handlers make a broadcast that is behind one, at one and
ahead of one; two levels make the map's order matter; the second session is the one
old handlers would show in; one message is enough since a message, the exception
it raises and an exception of the helper already give three broadcasts. In
`PluginTasks` four tasks give a task that made a task that made a task, with one
beside them, on fewer workers than tasks: with three workers two tasks may wait and the
third still runs; the second session is the one a task left
from the first would run in. In `ContactCache` one thread refreshes while the other
forces; two versions tell old from new. The proofs of these modules hold without the
bounds.

`CHECK_DEADLOCK FALSE` is in `Mishaps.cfg`, where a crashed worker whose plugin
has been disabled already, or the bound on threads, really stops the system, and
in `Pool.cfg`: the pool's destructor can really hang (below).

### The findings

Each is the violation a run finds.

* *Stale exception task* (`stale_exception`). `sendPluginException` queues the plugin's
  id. If the exit function throws during a reload, the task comes up after the reload,
  and `unload_when_exception` detaches the new, running thread and unloads the library
  it runs. Seen from the plugin: the new thread may be taken down before it has called
  the entrance function, the one way out that `EntranceIsCalled` leaves (`StaleReport`).
* *Event text* (`broadcast_text`). The jobs of all events read one static string, when
  they run.
* *The test for null* (`tasks_disabled`). `promiseTask` sets the future before it logs
  that the function threw. A plugin that waited for the future may be disabled in
  between; `loggerInterface` then reads `loader_apis->_loggerInterface` as the argument
  of the very function that tests `loader_apis` for null.

What the models contain besides, and no run is spent on. Of libLoader:

* *Join time-out* (mishap `overrun`). After ten seconds `joinAndShutdownThread` detaches
  the busy thread; `callThreadEnd` erases its `threadWorker` ("thread is dead") and the
  caller closes its library.
* *Loading a listed plugin* (mishap `duplicate`). `loadNewPluginByPath` enables before
  `addNewPlugin` checks the id. When the listed plugin is unloaded, the second load starts
  a thread under its id, and the duplicate check closes the library below it.
* *Id in use after a reload* (mishap `reloadTaken`). The reload enables the plugin under
  its new id, where `addThread` finds a thread and drops the entrance function;
  `changeKey` then unloads it again, and so runs its exit function on the other plugin's
  thread and ends that. The other plugin stays enabled, with no thread.
* *Lost wakeup* (`TaskPool` with one worker, no task). `destroy_threads` clears `running`
  and notifies between a worker's look at it and its sleep; the join never returns.
  `TasksAreRun` shows that all tasks have been executed by then. It is
  `loaderMain` that hangs, after `shutdownLoader`, and `PluginDisable` with it: what
  `ExitIsReached` shows is that everything is unloaded, not that the join returns.
* A plugin thread that calls `showAllPluginId` while its plugin is disabled waits for the
  lock of the loader thread that waits for it (`AskForList`, `JoinWorker`); the ten seconds
  resolve this, into the join time-out above.
* A library that fails the symbol check stays open with no handle to it
  (`LoadFails`): with the mishap `badSymbols`, `LibrariesOwned` does not hold.
* The exception of a plugin that is enabled already ends the walk of `enableAll`
  (`EnablePlugin`); which plugins stay disabled depends on the order of a hash map.
* `wait_for_tasks` may return while a task runs, if that task pushed one that was
  executed before `++tasks_total`. `NothingLeftBehind` shows that nothing is lost in this
  pool all the same: its destructor joins the workers, and nobody else waits.

Of the SDK:

* `FUNC_EXIT` clears the table of handlers before it calls onDisable, where
  `doc/libloader.md:60` tells plugins to end their threads, and `:84` promises that what a
  thread throws is broadcast. With `EndedBefore = "return"` a thread's broadcast is in a
  freed table (`wild`) after six steps. The proofs hold for both values.
* A callback that registers a handler for its own event at its own level appends to the
  vector the range-for goes through, which is undefined (`Changeable`).
* An exception of onDisable leaves `FUNC_EXIT`, unlike those of onEnable and of handlers,
  and ends the worker (`dead`).
* A plain `void (*)()` is pushed without a wrapper: what it throws reaches the pool's
  worker, which catches nothing.
* A wrapper's last steps, `remove_task` and the return, come after the future is set; a
  plugin that waits for futures only may be unloaded under them (`Runs`).
* The refresh of an anonymous member returns before it asks anything (`Member.cpp:115`),
  with the flag set: a forced refresh fetches nothing then and throws nothing, whatever
  `IMiraiData.h:68` says. A `Member` made from a JSON with `nickornamecard`, `avatarUrl` and
  `anonymous` writes the name and forces nothing; Kotlin's JSON has no `avatarUrl`, one a
  plugin builds may. `QuietIsFresh` exempts both (`failed`, `told`).
* The flag of a contact's record is set before the data is refreshed: a second getter
  returns what is there, at first the empty name. A refresh that throws, at the first
  query or the second, leaves the flag set and the record, or half of it, old, which
  `QuietIsFresh` exempts too; `forceRefreshNow` may return without a refresh when
  another getter wins the exchange. The constructors write strings of the record
  without the mutex. `Group`, `Member` and `Friend` look their records up in static maps
  without a lock, where `Bot.cpp` has one.

## Fairness

`LoaderFairness` is weak fairness of the loader thread's steps: it is an
operating system thread in a loop that waits for nothing but locks and, for ten
seconds at most, a worker. With `overrun` allowed this is all `mishaps`
assumes. `WorkerFairness` adds weak fairness of each worker's steps: its thread
keeps running and *every job it starts ends*, which is an assumption about
plugins, so the run that uses it (`crashes`) is about plugins that do not hang. No
fairness is assumed of the kt thread, of requests, of crashes or of mishaps.

In `EventBroadcast` `EventImpl` goes on once it has begun and plugin threads take
their jobs; in `TaskPool` workers go on and the tasks they run end, `push_task` goes
on, and so does the loader thread once it destroys the pool. Nobody has to push a
task, to hand over an event or to wake up spuriously. Weak fairness of a worker
that needs the queue's lock is enough since nobody keeps the lock but a worker
that is about to sleep.

In `EventRegistry` a thread in a broadcast goes on and its callbacks return; nobody has
to register, throw, or enable and disable the plugin. In `PluginTasks` workers take
tasks (`TakeTask`), tasks go on and functions end once those they wait for have
(`TaskStep`), and onDisable returns then. In `ContactCache` a thread in a call goes on
(`Go`), and Kotlin answers; what waits for the mutex (`GoOn`) has strong fairness, the
only one here: the mutex may be taken by others again and again, and a
`std::shared_mutex` is assumed to let each waiting thread in at last.

## Proofs

The core is proved in layers, each with the mishaps it excludes and no others; every
other mishap may happen, any number of times. With an excluded mishap as the only one
TLC finds the property violated, with one plugin and two or three requests: no
hypothesis can be dropped.

| theorem | property | excluded mishaps |
|---|---|---|
| `TypeCorrect` | `TypeOK` | none |
| `LibrariesStayOwned` | `LibrariesOwned` | `badSymbols` |
| `EnabledStaysBound` | `EnabledIsBound` | `duplicate` |
| `DestroyedAfterItsExit` | `DestroyedAfterExit` | `throw`, `overrun` |
| `CalmIsSafe` | `NoUseAfterUnload` | `throw`, `overrun`, `duplicate` (`Calm`) |
| `CalmLifecycle` | `LifecycleSpec` | `Calm` |
| `CalmShutdownIsClean` | `ShutdownIsClean` | `Calm` and `badSymbols` |
| `Invariance` | `IInv` | none: each part names its own |

*BaseInv*, whatever plugins do. Types are not inductive alone: that
`thread_memory[target]` is a thread when the loader waits for it, or that a popped job
is a job, needs that the entry a step works on is listed and loaded as the step
expects (`TargetInv`); a file is open at least once for every config that holds its
handle (`LibraryInv`); a bound thread is alive and knows its plugin (`ThreadInv`).
`StageInv` adds that the entries `unloadAll` has visited have no library.

*RefsAreExact*: a library is open exactly once for each config that holds its handle,
the local one of `loadNewPluginByPath` included. Only `testSymbolExistance`, which throws
between `libOpen` and the assignment, breaks it.

*LoadsAreNew* and *SlotInv*: queued loads name new plugins, and then exactly the enabled
plugins have a thread, but for the one between `disable_plugin`'s erase and its flag or
between the activation and `addNewPlugin`. Plugins that throw or overrun do not
disturb this, since the thread is erased under its plugin's name in every case.

*OrderInv* (`JobOrder`): in a worker's queue an entrance job is first, and only before
anything ran; an exit job is last; after it nothing is queued, because by then the
loader waits for this worker with the list locked (`ExitComes`). So a worker that
drained its queue has run `FUNC_EXIT`. It needs `NoExceptionTask`: `endThread` sets `exit`
with no exit job queued.

*CalmInv*: a live thread is bound to its plugin and is told to end only while the
loader waits for it (`LiveIsBound`); a plugin with a thread is enabled, and has none when
its library is closed (`SlotInv`); so the jobs of a live thread name the library the
plugin's config holds (`JobsAreCurrent`), which `LibraryInv` says is mapped.

The refinement of `PluginLifecycle` uses all of them. `WorkerMoves`: a live worker is the one
`phase` of its plugin speaks of, and no other plugin's. `RunPhase` and `CompletePhase`: the
order of jobs is the order of the phases. The loader's own moves are loading
(`LoadPhase`), enabling (`EnablePhase`), disabling and unloading (`DisablePhase`); that a
library is closed only when its plugin is disabled is part of `NoExceptionTask`; joining
and `addNewPlugin` move no plugin (`JoinPhase`, `AddPhase`).

`TaskPoolProofs` proves the safety of the pool for any number of workers,
pushing threads and tasks. `NoTaskIsLost`, `Spec => []NoLostTask`, from `PoolInv`: a
worker that is about to sleep has seen an empty queue and has the lock, so whoever
fills the queue comes later and notifies later still. `TotalStaysRight`,
`Spec => []TotalIsRight`, from `CountInv`: a worker has a task exactly while it runs
it or counts it down, no queued task is the null task, and tasks and threads
together are fewer than a `size_t` counts, so a counter that wrapped is told from
one that did not. Each step's effect on the counts is a lemma
(`PushCounts`, `WorkerCounts`) by adding a thread to a finite set or removing it.
`PoolTypes` is the types. `NothingIsLeftBehind` and `PoolExecutesTasks` add what was taken: the
tasks are numbered by their pushes, the queue holds the ones after the last taken
(`QueueInv`), and every taken one is with one worker or done (`TakenInv`, `JobInv`). The
destructor's `wait_for_tasks` may read a zero while tasks are executed whose own pushes are
not counted yet; but only executing tasks push by then, one at a time each, so the
queue is empty and every push is past its append (`ShutdownInv`, `ZeroMeansEmpty`). The refinement of `TaskExecution` maps each queue operation to
one step of one task (`AppendPushes`, `TakeStarts`, `EndFinishes`); that no more tasks run than
the pool has workers is the injection of running tasks into workers (`RoomForOne`).

`PluginListProofs` proves all four properties of the list for any number of files and
ids (`KeysStayIds`, `ThreadsStayOwn`, `MappedStayListed`, `NothingIsLeft`), as long as
libraries report ids that are free (`Calm`). The properties are put as one of every file
by itself (`GoodFile`: its one key, its id, the thread of its id, its library); each
helper's effect on the fields is a lemma, an operation on one file leaves the others
good (`OneFile`), and a thread's id is always the key of the plugin it runs
(`ThreadIsListed`), which is what an id in use would break.

`EventBroadcastProofs` proves `TextIsNeverOlder` and `EventsAreTheSame`. What a plugin has
handled and what its queue holds is one sequence; a plugin thread only moves the border
in it, and a broadcast appends to one plugin's after the other's, so those it has come to
are exactly one event ahead (`AheadInv`), and any two agree as far as both go
(`AgreeInv`). That a job's text is no older follows from the queue holding no event newer
than the string (`QueuedInv`).

`EventRegistryProofs` proves `NobodyIsSkipped`, `HandlersAreFresh` and `ApisStaySet`, for both
values of `EndedBefore`. `OwedInv` says that every handler a broadcast still owes is in
the table, switched on, and ahead of the broadcast's place; registrations, stops and
other broadcasts keep this, and the next place (`Following`) passes nothing over, since
a level's numbers increase (`NumbersInv`) and of the levels that are left the lowest is
taken. `SessionInv` and the relation of the plugin's object to its threads (`QuietInv`,
`DestructorInv`, `ObjectInv`) give the other two.

`PluginTasksProofs` proves `FunctionsRun` and `StoreStaysExact`. onDisable waits only for the
tasks the plugin's thread made itself. That no task of a task is left is an argument
about the tree: a task has a greater number than its maker, so the smallest task
whose function has not ended was made by one whose function has, which had waited
for it (`NumbersInv`, `MakersInv`; the smallest number by well-foundedness).

`ContactCacheProofs` proves `NoRefreshIsLost`. For each field the invariant names who will
make good on the last forced refresh: the flag is down, a refresh has not asked yet, one
has asked and its answer is new enough, or the record is, unless the last refresh failed
or a JSON with every key wrote the name (`NameInv`, `PermissionInv`). Since
a refresh has the mutex from its first question on (`MutexInv`), at most one answer waits.

The proofs have one lemma per action and conjunct that the action can disturb.
They rest on the named assumptions of the modules: `MaxThreads` is a natural
number, the registered plugins are plugins, `NoPlugin` is none, the requests are
tasks other than the two the loader makes itself; the pool's threads are finitely
many, and fewer with the tasks than `SizeMax`; the levels are natural numbers, and so
are the bounds.

Only model-checked: the liveness properties, since fairness and `ENABLED` are out of the
prover's reach (`CrashIsHandled`, `TasksAreServed`, `EntranceIsCalled`, `ListIsReleased`,
`ExitIsReached`, `TasksAreRun`, `WaitReturns`, `EveryPluginHandles`, `BroadcastsEnd`, `FuturesAreSet`,
`DisableReturns`, `CallsReturn`). Every invariant and both refinements the runs check are
proved as well; what the three runs that expect a violation show is a behaviour, and
needs no proof.

## Abstractions

* Critical sections of `_mtx`, `worker_mtx` and `task_mtx` are atomic; `pluginlist_mtx` is
  explicit (`Holding`) because it is held while waiting, and so is the mutex of a
  contact's record.
* Sleeping and polling are the choice of when a step happens. `run()` reads
  `job_queue.empty()` without its lock; a stale answer only delays a step.
* In `PluginLoader` a plugin's file and its id are one; `PluginList` drops this.
* In `PluginLoader`, `VerifyImpl` is the initial state: the registered plugins are loaded
  and listed. In `PluginList` it is `RegisterPlugin`.
* Nothing in the repository pauses or resizes the pool, submits with a future or
  waits for its tasks but the destructor; `TaskPool` leaves these out. A task that
  throws ends the process and is left out too.
* `BS::pool` is null once `reset()` has begun: a task that pushes then would
  dereference it. `TaskPool` (`PoolIsSet`) is about pushes before that, and the careful
  plugin of `PluginTasks` makes none after it is disabled.
* In `EventRegistry` the event types are one message and one exception; what a handler is
  is its number, and what it computes is left out.
* In `ContactCache` a construction from JSON writes all its keys in one step, with values of
  their types and a name as old as any. That a query may throw at any time stands for a
  member who left, a bot that is offline and an answer that cannot be read; that a member
  who rejoins is found in Kotlin's `friend_cache` under its old name is left out. A member's
  record stands for those of groups and friends, which have one query and are never
  anonymous.
* Plugin code is the calls it makes and what it may do wrong.

## Not modelled

* *Crash signal handler*. It runs on the thread that got the signal: it searches
  `thread_memory` by thread, locks `pluginlist_mtx`, which the loader thread may have while it
  waits for that same thread, calls the exit function of a plugin whose memory is damaged,
  reads `thread_id_indexes` without a lock, and cancels the thread with the deferred
  `pthread_cancel`. Locking, allocating and calling back in a handler of `SIGSEGV` is
  undefined before it is a protocol, so any model of it would show what the model assumes.
* *Commands of the SDK*. `Config.Command` and `Command2C` lack `@Serializable` on the Kotlin
  side, so that every registration is answered with an error code and no command is ever
  dispatched.
* *Scheduler*. Nothing calls `addSchedule` or `popSchedule`, and `sendTimeoutEvent` is a todo.
* *Messages, MiraiCode, Kotlin operations, logger*. One request and one conversion each,
  with no state between two calls. Read, but not modelled: `uploadImg` takes the error codes
  `E3` and `E4` for data, and `sendForwardMsg` is given id and group id in the order the Kotlin
  side does not read them in (`PublicShared.kt`).
* *Kotlin shared part and launchers*. They forward events and requests one at a time.
* Vendored libraries, examples, tests, build files.

Most of the repository's lines are the vendored JSON library, data classes and
conversions; the modules above are its protocols.

## Plan

Done:

1. `ThreadController`, `PluginLoader`, `PluginLifecycle` and their proofs.
2. `TaskPool` against `TaskExecution`, with proofs.
3. `PluginList`: ids that change, duplicates at start-up, with proofs.
4. `EventBroadcast`: the shared event text, with proofs.
5. `EventRegistry`: the SDK's handlers and entry points, with proofs.
6. `PluginTasks`: the SDK's tasks over the pool beside the plugin's life, with proofs.
7. `ContactCache`: the refresh protocol of members, with proofs.
8. Theorems: the remaining invariants of the core and of the pool, and the refinements
   of `TaskExecution` and, in the calm case, of `PluginLifecycle`.

To do, in this order:

9. `PluginLoader` with plugins that use the pool, in place of the one plugin of
   `PluginTasks`.
10. An abstract specification of the broadcasts, one log of events that every plugin
    reads at its own pace, and `EventBroadcast` shown to implement it.
