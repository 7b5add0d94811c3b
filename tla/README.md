# TLA+ models of Mindroid.cpp

Mindroid.cpp is an application framework after Android's core: threads that run
message loops, futures, background tasks, services that live in "processes"
(threads of one program) and talk through binders. This directory holds TLA+
models of its concurrent core, its reference counts, its stored preferences and
its logger, the TLC configurations that check them, and proofs checked by TLAPS.
Paths below are relative to the repository's `src/mindroid/`.

Every module is translated from the code. A step of a model is what the code
does between two points where another thread can interfere: one hold of a lock,
one access of unsynchronised or atomic state, or one operation on a file.

## 1. The system and its hazards

| Component | State | Operations | Talks to | What is hard, and what makes it correct |
|---|---|---|---|---|
| `os/Message` | fields, `FLAG_IN_USE`, a global pool of at most 42 | `obtain`, `recycle`, `sendToTarget` | Handler, MessageQueue, the promise of a Binder call | objects are reused by all threads: each is in one place at a time; a promise on a message is always settled |
| `os/MessageQueue` | doubly linked list, `mQuitting`, lock, condition | `enqueueMessage`, `dequeueMessage`, `remove*`, `quit` | Handler, Looper | order by time, no lost wakeup, capped timed wait, quit racing with senders |
| `os/Handler` | looper, queue, callback | `post*`, `sendMessage*`, `remove*`, `dispatchMessage` | MessageQueue | 64/32 bit delays; assigns the target before a send that may fail |
| `os/Looper` | thread local looper | `prepare`, `loop`, `quit` | MessageQueue | dispatches one message at a time until quit |
| `os/HandlerThread`, `lang/Thread` | `mSelf`, `mExecution`, `mLooper` | `start`, `getLooper`, `quit`, `join` | Looper, Promise | start, look-up, quit and end of a thread in any order |
| `util/concurrent/LinkedBlockingQueue`, `ThreadPoolExecutor` | singly linked list, workers | `put`, `take`, `remove`, `execute`, `cancel`, `shutdown` | Thread | one condition for several workers; one null runnable per worker ends them |
| `util/concurrent/SerialExecutor` | a HandlerThread | `execute`, `cancel`, `shutdown` | HandlerThread, Handler | shutdown after the thread has ended |
| `os/AsyncTask` | status, cancelled flag, one runnable | `execute`, `cancel`, `publishProgress`, `finish` | Executor, Handler | nothing is locked: cancel against the worker and the looper |
| `util/concurrent/Promise`, `Thenable`, `AsyncAwait` | result, exception, done flag, list of actions | `complete`, `cancel`, `get`, `then*`, timeouts, combinators | Executor, Handler | set once; each action runs once; timeout against completion |
| `os/Binder`, `os/RemoteCallback` | - | `transact`, `onTransact` | MessageQueue, Promise, Runtime | every call is answered or its promise cancelled |
| `os/ServiceManager`, `os/Process` | process and service records, callbacks | start, stop, bind, unbind, shutdown | Binder, Process, Promise | late answers, records of restarted services, shutdown under a lock |
| `app/SharedPreferencesImpl` | map, listeners, file and backup | edit, commit | files | a crash or a power loss between two file operations; commits that fail half way |
| `runtime/system` | binder and service tables, connections | attach, get/add/remove service, transactions | sockets, Promise | connections that break with open transactions |
| `util/logging` | ring buffers, handlers per log, the logger thread | `put`, `get`, `reset`; `startLogging`, `stopLogging`; rotation of files | Promise, Service | overwrite of unread records, a logger that waits while what it waits for changes |
| `lang/Object` | strong and weak counts | `sp`, `wp`, promotion | everything | promotion against the last release |

`PROJECT.json` lists these components with their sources, also those without a
model, and the hazards at the line where each bites.

## 2. Modules

| Module | Models |
|---|---|
| `MessageQueue` | Message, its pool, MessageQueue, Handler and Looper around one queue |
| `DelayQueue` | the abstract specification: what a queue with its looper promises |
| `Promise` | Promise and Thenable: completion, chaining, `anyOf`, `allOf`, timeouts, delays, `get` |
| `ServiceManager` | ServiceManager, ProcessManager, Process and the service connections of a context |
| `SharedPreferences` | SharedPreferencesImpl with its file and backup, kills and power losses |
| `Object` | the two reference counts of Object, `sp` and `wp` |
| `LoggerService` | LogBuffer, LoggerThread and what LoggerService does to them |
| `ThreadPoolExecutor` | ThreadPoolExecutor with LinkedBlockingQueue |
| `AsyncTask` | one AsyncTask with its looper, worker and cancelling threads |
| `HandlerThread` | HandlerThread and the part of Thread below it |
| `...Proofs` | TLAPS proofs about the module of that name |
| `ListLemmas` | lemmas on sequences, their order and their places |
| `MC...` | the model values that TLC needs for each of them |

A module defines, just before some definitions, *variants* of them
(`IsPlaceBeforeEquals`, `SignalUntimed`, ...): what a plausible mistake in that
code would do. They are used by no specification. Put in the place of the
definition, each one violates the property that `PROJECT.json` pairs it with,
which shows that the property depends on that line of the code.

### MessageQueue

* The list is the sequence `queue`, the pool the sequence `pool`. A message has
  a target, a content (`what`, `callback`, `obj`, which the removals compare), a
  promise, a delivery time and its in-use flag. `arg1`, `arg2` and `data` are
  payload and left out.
* A send has three steps: `Obtain` (pool lock), `SendMessageAtTime` or
  `SendMessageDelayed` (reads the clock, assigns the target, no lock) and
  `EnqueueMessage`, `EnqueueRejected` or `EnqueueThrows` (`mLock`). Between them other
  threads send, remove and quit, so delivery times reach the queue out of order.
* A caller may keep the pointer to a message that it has sent. `SendAgain` assigns its
  target again, whether it is queued, dispatched, in the pool, or obtained by
  another thread by now; the enqueue that tests the in-use flag is a later step, so the
  message may be recycled and obtained by somebody else in between. Two threads can then send
  the same message, and it may lose its target before its dispatch (`DispatchCrashes`).
  `MaxResends` bounds it; the properties that this misuse breaks say
  `resends = 0`.
* `quit` and the removals hold `mLock` while they recycle message after message
  into the pool, which has a lock of its own and serves other threads meanwhile.
  `Begin` takes the lock; the traversal looks at one message after the other and either unlinks
  and recycles it (`RecycleNext`) or passes it (`KeepNext`), `cursor` being the number it has
  passed; `End` comes at the end of the list. The two loops of the code, over the
  front of the list and over the rest, do the same to the message they look at. `sweep` is the
  call that holds the lock.
* The looper is one pass of `dequeueMessage` (`DequeueNull`, `DequeueAwait`,
  `DequeueMessage`), the dispatch, and the recycling. A wait ends by signal, by
  timeout (`MAX_WAIT` stands for `Integer::MAX_VALUE`) or spuriously.
* `DELAY_MOD` stands for 2^32, the modulus of `sendMessageDelayed`'s parameter.
* `tickets`, `ticket`, `due` and `barrier` are history variables: no
  guard reads them, apart from the bound on `tickets`.

Not in this module: the prev/next pointers of the list, and calls that come back
into the queue from `recycle` (a cancelled promise runs its listeners at once).

### Promise

* A thread is a stack of frames: completing a promise runs its actions on the
  completing thread, which complete other promises, and so on. A step is what
  the innermost frame does under one lock. The recursive lock of a promise is
  not a variable: it is held by the thread that has a `complete`, `iterate`,
  `hold`, `onComplete` or `addAction` frame for that promise.
* `RelayAction`, `FunctionAction`, ... say what the consumer of each class of
  action gets for each outcome of its supplier; a function of the application
  may return or throw. `toCompletionException` keeps the cause.
* The client is data: the actions it creates and the calls each of its threads
  makes, in any order. `MCPromise` has the clients: `Chain` (functions and
  compositions against `cancel`), `Race` (`anyOf` with `orTimeout` and a timed
  `get`), `Fan` (each other class of action, and `delay`), `All` (`allOf` with
  `completeOnException`), `Single` (`allOf` of one promise) and `TwoCompleters`.
* `WellFormed` is what the interface lets a client be: an action has one supplier
  (that of `allOf` two), calls consist of the frames above, a call uses only
  promises it is given (the set `on`) or creates, and no one has a promise before
  `allOf` or `anyOf` has returned it; each timeout is a new object, so it is
  armed by one call or one `delay`. TLC evaluates it for the clients of the
  runs; the proofs are about all such clients.
* `Looper` is the thread behind the executor of asynchronous actions, a FIFO
  (as `QueueOrder` allows); `Daemon` runs timeouts, at any time after they are
  armed. An executor is assumed to take what it is given.

### ServiceManager

* Three kinds of threads exchange messages: the service manager's (`inbox`), the
  main thread of each process, and the process manager, which stops processes
  that lost their last service. A process that is started again under the same
  name is another *instance*, so a message for an old one cannot be mistaken.
* One action per handler: what `handle...`, `onServiceStarted` and its kind, and
  each message of a process do. `Process::stop` is `Stop`, `Waited` or
  `TimedOut` (its wait for the services), and `Joined`.
* The last connection takes its service with it: `UnbindService` sends a `stop` to the
  service manager itself, through the proxy that `sServiceManager` is, behind the requests that
  wait in `inbox`. `StopService` looks again when its turn comes, so a bind or a start
  that comes in between re-uses the record.
* `posted` are the calls of `onServiceConnected` that the answers of processes have posted to
  the handler of the context; `OnServiceConnected` makes them.
* `patient` says whether clients wait for the answer to a call before they make
  the next one for the same service. Both kinds are checked; some properties
  hold for patient clients only (see section 3).
* No message of the service manager fails, as `RecordsRefer` shows; messages that
  a stopped process has not handled are lost, as `Looper::quit` drops them. The
  callbacks of a service return.

### SharedPreferences

* `files` is the file and its backup; a content is a map, whole or partly
  written, synced or not. `SaveFile` and `LoadFile` take one step per operation
  on a file; each may fail (`MaxFaults` times in a behaviour).
* `past` is the set of states of the two files that a power loss may reveal:
  those since the directory was last synchronised, with contents that were not
  synchronised possibly cut off. `Kill` leaves the files as they are, `PowerLoss`
  picks an image from `past`. `lossy` is set by the failures after which the
  code does not protect the data (see the list in section 3).
* `Written` is what a value is after it has been stored and loaded: a long goes
  through an int (`IntMod` stands for 2^32); a float is written with six digits after the
  point and read as the nearest float (`Floats` are the floats and `Micro` is 10^-6, in a unit
  of a tenth of it in the run); a string of white space comes back empty and a set of strings
  without it; line ends become line feeds. In the run there are values of every type that
  writing changes, and what becomes of them.
* `committed` and `attempts` are history: the last map for which `commit`
  returned true, and the maps of later commits that returned false or were cut
  off.

### Object

* A step is one atomic operation: `incStrong` and `decWeak` and so on are the
  places between two of them, and `count` the value the last one returned.
* `INITIAL` stands for 2^28, 64 in the run. No count may come near it:
  `ObjectAssumption` says so of threads and references.
* The maker's phases are the constructor: plain, with an extended lifetime, or
  as `Binder` does it, extended for a while and then reset.
* A thread only uses references it has. `Move` hands one over to another thread.

### LoggerService

* A cell of a ring stands for the 4 bytes of a record's length or as much of its
  contents, and says which record it belongs to; `intFromByteArray` reads a
  length from one, so a reader that is not at the start of a record would be
  seen to read something else.
* `loggers` is the logger thread's local map of promises. A promise that a
  buffer made for its reader is in both hands: `Put` and `Reset` of the buffer
  complete it. `mWaitForLogs` is done if one of those is, or if `reset()` of the
  logger has completed it.
* `Gather` reads all buffers in one step: it holds the service's lock, and
  touches each buffer once, so that puts in between can be moved before or after.
* `onStartCommand` is `StopLogging` and `StartLogging`, two holds of the lock;
  `onDestroy` is `Interrupt`, `ResetLogger` and `Destroy`. A service that is
  started again has a new thread, while the buffers are global.
* `ResetLogger` reaches `"crashed"` if the logger has already seen the interrupt
  and ended: it has cleared the reference that `reset()` uses (section 3).

### ThreadPoolExecutor, AsyncTask, HandlerThread

* `ThreadPoolExecutor`: `queue` is the linked list; `Put`, `RemoveItem`, `TakeItem`
  and `TakeAwait` are one hold of its lock each (`RemoveItem` lists the places that
  are left in order, because the prover does not know `SelectSeq`); `Check` and `Run` are the rest
  of `WorkerThread::run`; the two loops of `shutdown` take one step per access.
  One thread shuts down; callers go on submitting and cancelling throughout.
* `AsyncTask`: nothing is locked, so a step is one access of a field. `executeOnExecutor`
  sets `mStatus` in one step and `mExecutor` in the next, and calls `onPreExecute` before it
  submits; `cancel` reads the flag, the status, the executor and the runnable one after the
  other; `publishProgress` and `finish` read the flag in one step and act in the next, and
  `finish` clears `mRunnable` and `mSelf` after the status. `crashed` is set by a `cancel`
  that uses the executor before it is there, or copies the runnable while its last
  reference goes; it ends the behaviour. The executor appears as the place of the
  task's one runnable, the handler's queue as a FIFO channel (justified by
  `QueueOrder`: only one thread at a time sends for a task, and without delay).
* `HandlerThread`: `start` sets `mSelf` (`Start`) and `mExecution` (`SetExecution`) and creates
  the thread (`Create`), which may fail (`CreateFailed`), without a lock;
  `getLooper` is its lock, its two reads of `isAlive()`, its wait and its
  return; `quit` is `getLooper` followed by `Looper::quit`. Only one thread at a time calls `start`.

## 3. What TLC checks

| Run | Property | Meaning |
|---|---|---|
| `queue_safety` | `QueueOrder` | the list is in dispatch order: time, then first come first served, 0 first |
| | `NoLostWakeup` | a waiting looper wakes up by the time its head is due, and is not left behind by `quit` |
| | `QuitDrains` | after `quit` the list is and stays empty; the looper ends only after `quit` |
| | `NeverEarly` | nothing is dispatched before the time its caller asked for |
| | `Ownership` | a message is linked in one place at a time, also if it is sent again at any time; if none is, it is one sender's until then and keeps its target until its dispatch |
| | `ImplementsDelayQueue` | every step is a step of `DelayQueue` or a stutter |
| | `RemovedIsGone` | the traversal misses nothing: what a removal asked for is not in the list when it returns, nor later |
| `queue_liveness` | `NoOrphanPromise` | a pending promise is on a message somebody will still deal with |
| | `DueLeavesQueue`, `QuitStopsLooper` | due messages leave the queue; `quit` ends the loop |
| `promise` | `NoActionStranded` | no action stays in the list of a promise that is done |
| | `NoLostWakeup` | nobody sleeps in `get` on a promise that is done |
| | `RunsOnceWhenDue` | an action runs at most once, and after all it depends on |
| | `NoTimerLeak` | a timeout that is armed will be removed when its promise is done |
| | `ResultIsFinal` | a late completion, timeout or second supplier changes nothing |
| | `DependentsComplete`, `CallsReturn` | what depends on done promises is done in the end; no call hangs |
| `service_manager` | `RecordsRefer` | a record never refers to a process handed over to be stopped |
| | `NoOrphan` | a service object has a record or will be destroyed; a process ends without any (patient clients, no timeout) |
| | `ConnectedIsServed` | the service of a connected client is there (patient clients) |
| | `StartsAnsweredStopsEnd` | stops of processes come to an end; starts are answered (patient clients, no timeout), also those that come between an unbind and the stop it leads to |
| `shared_preferences` | `Recovers` | a kill or power loss leaves the last commit that returned true, or one tried later |
| | `ReadsBack` | the getters answer with what was committed across restarts: each key with its type, and its value or what one writing makes of it |
| | `LastHeardIsCurrent` | what a listener last heard of a key is its value |
| `references` | `NoUseAfterFree` | neither object nor counters are deleted twice, used after that, or deleted while somebody has a reference to them |
| | `CountsMatch` | counts are numbers of references; nothing is left behind |
| | `FailsOnlyAtTheEnd` | `wp::get` fails only when no strong reference is left |
| `logger` | `PublishedInOrder` | records reach the handlers in order and once, through ring or promise |
| | `WholeRecords` | what is between read and write index is whole records |
| | `LoggedIsPublished` | while a log stays on, its records do not stay in buffer or promise |
| | `DestroyReturns` | the end of the service does not hang in `join` |
| `thread_pool` | `NoLostWakeup` | while a worker sleeps, each queued item has an awake worker coming for it |
| | `Accounted` | a submission is queued, cancelled, in one worker's hands or started, exactly once |
| | `EnoughNulls` | there is a null runnable for every worker that may still need one |
| | `ShutdownReturns` | `shutdown` returns |
| `task_lifecycle` | `EndsOnce`, `TaskFinishes` | one final callback, and it comes unless `cancel` crashes |
| `handler_thread` | `QuitEndsThread` | a quit that answered true is never lost |
| | `GetLooperReturnsIfCreated` | `getLooper` returns if the thread can be created |

`queue_safety` also checks the `TypeOK` of `MessageQueue`. The other modules state
theirs to say what their variables hold, as the start of inductive invariants.

Two runs are refuted by TLC, because the code does something else than its
documentation says:

| Run | The code | The documentation |
|---|---|---|
| `all_of_deadlock` | two threads that complete the two promises of an `allOf` wait for each other's promise (`util/concurrent/Promise.h:1419`) | `util/concurrent/Promise.h:222` |
| `async_post` | `onPostExecute` follows a `cancel()` that returned true after `finish` had tested the flag (`os/AsyncTask.h:391`) | `os/AsyncTask.h:222-223` |

In the first, each thread holds the lock of the promise it completes while the action asks the
other promise whether it is done, which takes that one's lock. For this reason
the clients of the `promise` run complete the promises of one `allOf` from one
thread.

Disagreements met while modelling that the models contain but no run states:

* `os/Handler.cpp:72`: the target is assigned before the enqueue that may throw,
  so a failed send of a message that is already queued redirects it to another
  handler (against `os/Handler.h:352`), and if the message was recycled meanwhile, one that
  is queued later by its new owner.
* `os/Handler.h:411`: delays of 2^32 ms and more are truncated (against `:247`);
  `NeverEarly` is checked with delays below `DELAY_MOD`.
* `os/AsyncTask.h:240`: a `cancel()` that comes between the assignments of `mStatus` (`:199`) and
  `mExecutor` (`:200`) uses a null executor (against `:137`; `crashed` in the model). A task
  cancelled during `onPreExecute` runs anyway (against `:213`), and a `cancel()` that reads `mRunnable` while `finish` clears it may copy a
  reference that is gone.
* `os/ServiceManager.cpp:332`: the last unbind stops the service, also one that was started and
  that nobody has stopped (against `content/Context.h:140-142`).
* `lang/Thread.cpp:45`: if `pthread_create` fails while another thread is in
  `getLooper`, that call waits forever (against `os/HandlerThread.h:45`).
* `os/Process.cpp:56-85`: a start that is queued while its process is being
  stopped is lost (against `content/Context.h:134`); impatient
  clients can do that, and patient ones whose start comes between an unbind and the stop it leads
  to, if `Process::stop` gives up on the process.
* `app/SharedPreferencesImpl.cpp:429` truncates a long to an int, `:435` a float to six digits, and
  `tinyxml2.cpp:452` drops strings of white space. The content
  is lost, or an older one returns, if the disk is full when the file is
  written (not noticed), if the backup cannot be removed after a commit, or if
  the backup cannot be restored. Listeners do not hear of keys removed by
  `clear()`, nor of the changes of a failed commit, which the next one stores.
* `util/concurrent/Thenable.h:48-53`: exceptions reach dependents wrapped in a
  CompletionException, except through `thenAccept` and `catchException` with
  consumers, which hand them on as they are.
* `util/logging/LoggerService.cpp:94`: `quit()` interrupts the logger and then
  uses `mService`, which a logger that ends at once has cleared.
  `DestroyReturns` accepts that outcome.
* `util/logging/LogBuffer.cpp:173`: records that fill the ring exactly make the
  indexes equal, and all unread ones look gone; so a record as long as the ring
  is accepted and lost. `LoggerService.cpp:124`: a record that is in a promise
  while its log is switched off and on is dropped.

### Bounds

* MessageQueue: three messages (two in `queue_liveness`), and two threads. Three are needed to insert in the middle of
  the list and to have a match after a non-match, or two matches in a row; two senders plus the looper
  give every kind of race for the lock. The pool has room for one, so that it is
  empty, full and overflowing. `MaxSends` (3 accepted messages) lets each
  message be reused. The state constraint `AlikeOrMixed` of `queue_safety` keeps apart what
  does not interact. In one part messages are alike, and one thread sends again what another one
  has obtained, queued or dispatched (`MaxResends` is 1), after which the clock stops. In the other
  one messages are of two kinds, a callback and a code with an object, so that each removal
  meets matches and others, and none is delayed or sent again. In
  `queue_liveness` messages are alike and `MaxResends` is 0, as its properties are about callers who
  do not send again.
* Time: delays and a clock small enough to let a message overtake another;
  `MAX_WAIT = 1` makes the capped wait end before its message is due.
* `DELAY_MOD = 8` is above all delays.
* Promise: two client threads besides the looper and the daemon, and programs of
  four to six calls, in every order and interleaving; each combinator meets each
  kind of outcome of its suppliers.
* ServiceManager: three calls, two connections, two services in one process,
  one that cannot be created and one that is not installed. Three calls make a
  process stop and start again while old messages are still under way; two
  services make a process outlive one of them. An unbind leaves calls for a bind or a start before the
  stop that follows it.
* SharedPreferences: the state constraint `AlikeOrOneKey` joins two parts. In the first all values
  are the same; there are two keys, one editor at a time with two pending changes, a listener, two
  commits and two faults, but not both of both: a commit on top of a failed one, and a fault on top of a
  fault. In the second there is one key, one commit, no listener and no fault, because values do not
  depend on each other, but values of every type that writing changes, and what becomes of them; kills and
  power losses make it load any number of times.
* Object: three threads with up to three references each: one releases, one
  copies and one promotes.
* LoggerService: two logs; rings of five cells, which two records fill exactly and
  the third overwrites, and which one long record fills or exceeds; one
  command or clear; two services in succession. Three records let one be in
  the promise, one in the ring and one arrive.
* Pool: two workers, two runnables and up to two submissions of each: more
  work than idle workers, and cancels of what was submitted twice.
* AsyncTask: two cancelling threads and two progress values. The run
  that is refuted needs one. HandlerThread: three
  callers.
* `CHECK_DEADLOCK FALSE` almost everywhere: the clock, sends and calls are bounded, and a quit
  queue, a finished task, a stopped pool, a deleted object have nothing left to do. A program
  can always be started again, so `shared_preferences` checks for deadlock.
* Messages, threads and keys are symmetric in the safety runs, which compare them only
  for equality. Liveness runs use no symmetry.

### Fairness

* MessageQueue: weak fairness of the clock and of a traversal in progress; strong
  fairness of the looper, because a removal may take `mLock` again and again and
  a fair mutex is the least that has to be assumed. Senders and removers owe
  nothing. A dispatched handler is assumed to return.
* Promise: weak fairness of each client (it makes the calls of its program), of
  the innermost call of each thread, of the looper and of due timeouts. A lock
  is taken a bounded number of times, so weak fairness is enough for its waiters.
* ServiceManager: weak fairness of the manager's thread, of each process and of
  the process manager, and of the context's handler, which calls `onServiceConnected`. Clients owe nothing,
  and timeouts need not happen.
* ThreadPoolExecutor: weak fairness of every worker and of a shutdown that has
  begun. Runnables are assumed to return. Nobody has to call shutdown.
* AsyncTask: weak fairness of worker, looper and of a cancel that has begun, as long as the program has
  not crashed.
* HandlerThread: strong fairness of the thread and of calls in progress, which
  compete for `mLock`. Spurious wakeups are possible but never fair, so that no
  property relies on them.
* LoggerService: weak fairness of the logger thread and of service calls in
  progress. Nobody has to log, to switch anything on or to end the service.
* SharedPreferences and Object have safety properties only.

## 4. What is proved

Each `...Proofs` module proves `Invariance`, `Spec => []Inv` for an inductive
invariant `Inv`, with one lemma per action (or group of actions that do alike),
and derives the properties from it. A theorem `XHolds` states the property `X`
that a run checks. All constants are arbitrary, as far as the named assumptions
of the modules allow: these say that sets are finite, bounds natural numbers and
`None` nobody's value, and TLC evaluates them in every run.

| Module | Theorems | Hypotheses |
|---|---|---|
| `MessageQueueProofs` | `TypeCorrect`, `OwnershipHolds`, `QueueOrderHolds`, `NoLostWakeupHolds`, `QuitDrainsHolds`, `NoOrphanPromiseHolds`, `Refinement` | - |
| | `NeverEarlyHolds` | every delay is below `DELAY_MOD`: longer ones are truncated by the code |
| | `RemovedIsGoneHolds` | - (says nothing once a message was sent again, which may redirect one in the list) |
| `ThreadPoolExecutorProofs` | `TypeCorrect`, `NoLostWakeupHolds`, `AccountedHolds`, `EnoughNullsHolds` | - |
| `AsyncTaskProofs` | `TypeCorrect`, `EndsOnceHolds` | - |
| `ServiceManagerProofs` | `TypeCorrect`, `RecordsReferHolds`, `NoOrphanHolds`, `ConnectedIsServedHolds` | - (the last two properties speak of patient clients, who are one of the two kinds that `Init` allows) |
| `SharedPreferencesProofs` | `TypeCorrect`, `RecoversHolds`, `ReadsBackHolds`, `LastHeardIsCurrentHolds` | - |
| `ObjectProofs` | `TypeCorrect`, `NoUseAfterFreeHolds`, `CountsMatchHolds`, `FailsOnlyAtTheEndHolds` | - (`ObjectAssumption` keeps the references below `INITIAL`) |
| `PromiseProofs` | `TypeCorrect`, `RunsOnceWhenDueHolds`, `ResultIsFinalHolds`, `NoLostWakeupHolds`, `NoActionStrandedHolds`, `NoTimerLeakHolds` | - (`ProgramsAssumption`: the client is one that the interface lets a program be) |

The hypotheses hold in the runs that check the same property.

### The arguments

* **MessageQueue.** `Inv` is four of the invariants and the part of `Ownership` that does not depend
  on what callers send again (`Linked`), with three facts without which
  they are not inductive. `Cursor`: a traversal is within the list. `Stages`: the program counters of looper and traversal
  agree with `current` and `sweep`; so a dispatched message is recycled from
  no other place, and `quit` is still under way while a waiting looper has not
  been signalled. `TicketBound`: the messages in the list have numbers below the
  next one, so one linked behind its equals comes after them in `Before`.
  Order: `PlaceFacts` shows that `IsPlace` separates messages due no later from
  those due later, and `InsertAtOrder` and `RemoveAtOrder` keep a list ordered.
  Ownership: `RecycleFacts` with the injectivity lemmas. `Linked` holds because whatever is in the
  list, in the pool or dispatched has the in-use flag (`FlaggedInUse`), and `enqueueMessage` and its
  rejection test the flag under the lock; so it needs nothing about the unlocked write of the
  target or about who else sends the message. `OwnedInv` adds `Alone` until the first message is sent again:
  each message in the hands of one sender, with a target. The last four properties rest on
  `Inv` or `OwnedInv` and on lemmas that say once what obtaining, enqueuing, recycling and
  dequeuing do. The refinement maps the list to the set of its entries;
  since the list is in order and has no message twice, its head is an entry that
  `DelayQueue` allows next. `NeverEarly` needs `Timely` (the time of a message
  in the list is no earlier than the one asked for), `RemovedIsGone` needs
  `Passed` (no message before the cursor matches), which `RecycleNext` and `KeepNext` keep, and which
  says of the whole list that nothing matches when the cursor has reached its end; then
  `BarrierBound` (a removal's barrier is below the next ticket) for what is sent later.
* **ThreadPoolExecutor.** The three properties with `Stages` (what a worker holds
  between `take` and `run`, and where the loops of `shutdown` are) are
  inductive. They count: places in the queue, workers that hold a runnable,
  and workers that are alive, so the work is in the lemmas on cardinalities of
  places (`AppendPlaces`, `TailPlaces` of `ListLemmas`, and one for the removal
  of all places of an item).
* **AsyncTask.** `RightToEnd` follows one token: the right to end the task is with the
  runnable in the executor, a worker, a canceller about to post, one `result`
  message or the looper, and in one of them only. `EndsOnce` is what is left when
  it has been used. `Held`: the task keeps itself and its runnable until it is
  `FINISHED`, so only a late `cancel` can meet a released one.
* **ServiceManager.** `Refers` says that each service record names the process
  record of its name, both directions, that process records name different
  instances that were started and not handed over; `Budget` bounds instances
  by the calls made, which is what `Kinds` needs to bound messages.
  `NoOrphan` and `ConnectedIsServed` depend on the order of messages in the inbox and
  in the processes, and hold for clients that wait for answers only; `Talks` and
  `Closing`, `Greeting` and `Kept` say why, and are inductive together with `Inv` (`TalksHold`). `Has` and `Waits` give
  every message a place, 0 being what a process works on, so that a step moves
  messages by a number of places (`Removes`, `Keeps`, `Adds`, `Takes`, `Gets`) and `Frame`
  shows once that `Talk` survives such moves. `Talk(s)` is about one service: every
  part of a request for it in a process belongs to a client that still waits
  (`TokensOpen`), so there is one request at a time, in one process, and the message
  that creates the service comes before the one it is created for
  (`Order`); what stops an earlier object comes before what creates the next
  (`StopsFirst`); the record is where the service is created or bound
  (`CreatedHere`), and a service on record is being created, or is there and not being
  stopped (`Served`); the record has the connections of all connected clients
  (`Known`). `RequestsLast`, `ResultsLast` and `Failures` say what of this is in the inbox, without
  which an answer could arrive after the next request. `EndsEmpty` and `Blank` are
  about processes that have ended or were never started. The stop that the service manager sends to
  itself is nobody's request and may come late: `Closing` says that an unbind is in the inbox
  once per connection and its record knows that connection (`Unbinds`), that no unbind or second such stop
  is in front of a stop for the same service, that the service is not being created any more, and that
  a bind or start in front of the stop finds the record (`LateStops`).
  `Greeting` says that a connection about to get `onServiceConnected` is told so once, is bound,
  known to its record, and has nothing else under way, since its client waits for that call. `Kept` is `NoOrphan` without the
  state of the process, which `EndsEmpty` adds; `ConnectedIsServed` is `Known` and `Served`.
* **SharedPreferences.** `Stages` says for each step of a commit and of a load what
  can be in file and backup; `Kept` that every state in `past`, cut off in any
  way, still loads a known map; both only until `lossy`. `Told` is
  `LastHeardIsCurrent` extended to the keys a commit has yet to announce.
* **Object.** The weak counter is the number of references and of threads in the
  middle of an operation (`WeakCount`). The strong one is the number of strong
  references, counting those being added, or that plus `INITIAL`; in that case,
  if there is one, exactly one thread is about to take `INITIAL` away
  (`StrongCount`). `Lives` and `Ends` say from the counters alone when object
  and counters are there and who deletes them; `Construction` and `Increments`
  that a counter is incremented only for an object somebody keeps; `Stale`
  that a thread which saw a strong counter of 0 saw the end. The counting
  lemmas (`SumMore`, `SumLess`, `NumAtGoto`) turn steps of one thread into
  steps of numbers; `StrongBound` shows that `INITIAL` is out of their reach.
* **Promise.** A thread's stack can have any depth, so the invariant speaks of
  single frames. `Good` says what a frame relies on: an `iterate`, `hold` or
  `onComplete` frame that its promise is done, a `run` frame that all
  suppliers of its action are, an `addAction` frame that its action depends on
  that promise. Promises are never undone, so a frame that is covered by others
  stays good (`GoodStays`), and a step has to be right only about the frames it
  pushes (`RewriteGood`). `Once` follows a claimed action: it is in the looper's
  queue, in one `run` frame of one stack, or has run. `KeepsRuns` compares the
  run frames of a stack before and after a step, counted from the bottom.
  Three more invariants are built on this one.
  * `Young`, for `ResultIsFinal`: `allOf` and `anyOf` complete the promise they
    create without its lock. Until they have created it, that promise is pending
    and without actions, not known, and mentioned by no frame but outer ones of
    the same call (`Apart`, `Layered`, `Fresh`), so nobody else completes it.
  * `Lists`, for `NoLostWakeup` and `NoActionStranded`: one thread at a time has
    `iterate` or `hold` frames for a promise (`Exclusive`), an iterator at the
    end has an empty list and the innermost one of a promise is at the head of its
    list (`Iterators`), who waits waits for a pending promise
    (`Waits`), and a done promise with actions has a frame that will run them
    (`Stranded`).
  * `Timed`, for `NoTimerLeak`: while a timeout is to be armed nobody has tried it
    (`ArmedOnce`), and once it is armed the action that removes its callback is
    being added, in the list of its promise, queued, or running (`Timers`).

### Only model-checked

* All liveness properties, `StartsAnsweredStopsEnd` among them: fairness is beyond the prover.
* `WholeRecords` and `PublishedInOrder` of `LoggerService`: walking over the
  records of a ring is a recursion over data, which the prover cannot induct on.

## 5. Not modelled

* `Binder::transact` and `AsyncAwait`: between `MessageQueue` (a message with a
  promise, `NoOrphanPromise`) and `Promise`, they add control that the two
  modules already have.
* The pointers of the message list under calls that come back into the queue
  from `recycle` (listeners of a cancelled promise run under the recursive lock).
* `SerialExecutor`: a handler thread and a handler; its `shutdown` uses the
  result of `getLooper`, which `HandlerThread` shows may be null.
* `ServiceManager`: `shutdown`, system services and the table of binders;
  `PackageManagerService`, which is read-only after its start.
* `Runtime` and the Mindroid plugin: their tables are not synchronised in this
  version (the code says so with FIXMEs), so that almost every concurrent
  behaviour is undefined and a model would say nothing about it.
* Logging: the handlers (`FileHandler` with its rotation, `TestHandler`), dumping
  and flushing. Console inspection.
* The destructor of `ThreadPoolExecutor` on one of its own workers, and two
  threads that shut it down.
* Vendored code (tinyxml2, googletest), examples, sockets and files (thin layers
  over the operating system), string, number and URI conversions (sequential,
  better tested), containers, bundles and parcels.
