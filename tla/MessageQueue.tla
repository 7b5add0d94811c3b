---------------------------- MODULE MessageQueue ----------------------------
(***************************************************************************)
(* The message core of Mindroid: the global pool of Message objects        *)
(* (os/Message.cpp), one MessageQueue with its lock, condition variable    *)
(* and linked list (os/MessageQueue.cpp), the Handlers through which any   *)
(* thread sends to and removes from it (os/Handler.cpp, os/Handler.h) and  *)
(* the one Looper thread that dispatches from it (os/Looper.cpp).          *)
(*                                                                         *)
(* A step is what the code does between two points at which another        *)
(* thread can interfere: one hold of mLock (or of the pool's lock), what a *)
(* sender writes into its message before it asks for mLock, or one message *)
(* of a traversal by quit() or by one of the three remove methods, which   *)
(* recycle one message after the other while they hold mLock (the pool has *)
(* its own lock, so obtain() interleaves with them).  The doubly linked    *)
(* list from mHeadMessage to mTailMessage is the sequence queue.           *)
(*                                                                         *)
(* A caller may keep the pointer to a message that it has sent and send it *)
(* again at any time: while it is queued, dispatched, in the pool, or in   *)
(* the hands of the next one who obtained it.                              *)
(***************************************************************************)
EXTENDS Integers, Sequences, SequencesExt

CONSTANTS
  Message,       \* identities of Message objects (bounds what can be alive)
  Handler,       \* the handlers attached to this queue's looper
  Content,       \* what a sender fills in: records [what, callback, obj]
  Thread,        \* sending threads; handler code run by the looper is one too
  Result,        \* promises that can be attached to a message
  None,          \* nullptr
  MAX_SIZE,      \* capacity of the message pool
  QuitAllowed,   \* constructor argument of the queue
  MAX_WAIT,      \* longest timed wait, Integer::MAX_VALUE in the code
  DELAY_MOD,     \* a delay is a uint32_t in sendMessageDelayed: 2^32
  Delay,         \* the delays that callers ask for
  AtTime,        \* the absolute times that callers ask for
  MaxTime,       \* bound: the clock stops here
  MaxSends,      \* bound: messages accepted by the queue
  MaxResends     \* bound: sends of a message that was sent before

Forever == -1     \* deadline of an await without a timeout
Null    == 0      \* a what, callback or obj that was not set
Empty   == [what |-> Null, callback |-> Null, obj |-> Null]

\* The methods that traverse the list.
SweepOp == {"quit", "messages", "callbacks", "all"}
Request == [op : SweepOp, by : Thread, target : Handler \cup {None},
            key : Nat, obj : Nat]

ASSUME MessageQueueAssumption ==
  /\ None \notin Message \cup Handler \cup Thread \cup Result
  /\ None \notin Request /\ None \notin [message : Message, when : Nat, ticket : Nat]
  /\ Content \subseteq [what : Nat, callback : Nat, obj : Nat]
  /\ MAX_SIZE \in Nat /\ MAX_WAIT \in Nat \ {0} /\ DELAY_MOD \in Nat \ {0}
  /\ Delay \subseteq Nat /\ AtTime \subseteq Nat
  /\ MaxTime \in Nat /\ MaxSends \in Nat /\ MaxResends \in Nat
  /\ QuitAllowed \in BOOLEAN

VARIABLES
  now,        \* SystemClock::uptimeMillis()
  queue,      \* messages from mHeadMessage to mTailMessage
  mQuitting,  \* set by quit()
  pool,       \* sMessagePool.pool, top first
  target,     \* Message.target
  content,    \* Message.what, .callback and .obj
  result,     \* Message.result
  when,       \* Message.when
  inUse,      \* Message.flags & FLAG_IN_USE
  promise,    \* state of each promise that has been attached to a message
  pc, held, at, \* per thread: progress of a send, the message, its delivery time
  sweep,      \* the call that holds mLock across several steps, if any
  cursor,     \* the messages that its traversal has passed and kept
  looper,     \* progress of Looper::loop
  current,    \* the message dequeueMessage returned, until it is recycled
  deadline    \* when the looper's await ends by itself

\* History: what was asked for, to state the properties.
VARIABLES
  tickets,    \* messages accepted so far
  ticket,     \* per message: its number among the accepted ones
  asked,      \* per thread: the earliest time for the message it sends
  due,        \* per message: the earliest time its sender asked for
  barrier,    \* the last removal that returned, and the tickets issued by then
  resends     \* sends of a message that was sent before

listVars    == <<queue, mQuitting, pool>>
messageVars == <<target, content, result, when, inUse, promise>>
threadVars  == <<pc, held, at>>
looperVars  == <<looper, current, deadline>>
sweepVars   == <<sweep, cursor>>
history     == <<tickets, ticket, asked, due, barrier, resends>>
vars == <<now, listVars, messageVars, threadVars, sweepVars, looperVars, history>>

Free == {m \in Message : /\ m \notin Range(queue) /\ m \notin Range(pool)
                         /\ m # current /\ \A t \in Thread : held[t] # m}

Init ==
  /\ now = 1
  /\ queue = <<>> /\ pool = <<>> /\ mQuitting = FALSE
  /\ target = [m \in Message |-> None] /\ content = [m \in Message |-> Empty]
  /\ result = [m \in Message |-> None] /\ when = [m \in Message |-> 0]
  /\ inUse = [m \in Message |-> FALSE]
  /\ promise = [r \in Result |-> "unused"]
  /\ pc = [t \in Thread |-> "idle"] /\ held = [t \in Thread |-> None]
  /\ at = [t \in Thread |-> 0]
  /\ sweep = None /\ cursor = 0
  /\ looper = "ready" /\ current = None /\ deadline = Forever
  /\ tickets = 0 /\ ticket = [m \in Message |-> 0] /\ due = [m \in Message |-> 0]
  /\ asked = [t \in Thread |-> 0] /\ barrier = None /\ resends = 0

LockFree == sweep = None

\* Variants of the code that a mistake could produce, one before the definition
\* each of them varies, show that the properties below can fail.
SignalNobody == UNCHANGED <<looper, deadline>>
SignalUntimed == IF looper = "waiting" /\ deadline = Forever
                 THEN looper' = "ready" /\ deadline' = Forever
                 ELSE UNCHANGED <<looper, deadline>>

\* mCondition->signal(): only the looper thread ever waits.
Wake   == looper' = "ready" /\ deadline' = Forever
Signal == IF looper = "waiting" THEN Wake ELSE UNCHANGED <<looper, deadline>>

CancelNothing(m) == UNCHANGED promise

CancelResult(m) ==
  promise' = IF result[m] = None \/ promise[result[m]] # "pending" THEN promise
             ELSE [promise EXCEPT ![result[m]] = "cancelled"]

PoolHasRoomOffByOne == Len(pool) <= MAX_SIZE

PoolHasRoom == Len(pool) < MAX_SIZE

(***************************************************************************)
(* Message::recycle cancels a pending result, wipes every field, marks the *)
(* message as in use so that it cannot be sent, and pushes it on the pool  *)
(* unless that is full (then the last reference frees it).                 *)
(***************************************************************************)
Recycle(m) ==
  /\ CancelResult(m)
  /\ target' = [target EXCEPT ![m] = None]
  /\ content' = [content EXCEPT ![m] = Empty]
  /\ result' = [result EXCEPT ![m] = None]
  /\ when' = [when EXCEPT ![m] = 0]
  /\ inUse' = [inUse EXCEPT ![m] = TRUE]
  /\ pool' = IF PoolHasRoom THEN <<m>> \o pool ELSE pool
  /\ ticket' = [ticket EXCEPT ![m] = 0]
  /\ due' = [due EXCEPT ![m] = 0]

(***************************************************************************)
(* Message::obtain pops the pool or allocates.                             *)
(***************************************************************************)
Obtain(t) ==
  /\ pc[t] = "idle"
  /\ \E m \in Message :
       /\ \/ pool # <<>> /\ m = Head(pool) /\ pool' = Tail(pool)
          \/ pool = <<>> /\ m \in Free /\ UNCHANGED pool
       /\ inUse' = [inUse EXCEPT ![m] = FALSE]
       /\ held' = [held EXCEPT ![t] = m]
  /\ pc' = [pc EXCEPT ![t] = "obtained"]
  /\ UNCHANGED <<now, queue, mQuitting, target, content, result, when, promise, at, sweepVars,
                 looperVars, history>>

\* Handler::sendMessageAtTime up to the call of enqueueMessage, unlocked: m gets
\* handler h for time w by thread t, whose caller asked for time d.
Target(t, m, h, w, d) ==
  /\ target' = [target EXCEPT ![m] = h]
  /\ at' = [at EXCEPT ![t] = w] /\ asked' = [asked EXCEPT ![t] = d]
  /\ pc' = [pc EXCEPT ![t] = "sending"]
  /\ UNCHANGED <<now, listVars, when, inUse, sweepVars, looperVars, tickets, ticket, due, barrier>>

\* The caller fills in the message that it has obtained (Binder::transact also
\* attaches a fresh promise) and sends it.
Send(t, c, r, h, w, d) ==
  /\ pc[t] = "obtained"
  /\ r \in {None} \cup {q \in Result : promise[q] = "unused"}
  /\ content' = [content EXCEPT ![held[t]] = c]
  /\ result' = [result EXCEPT ![held[t]] = r]
  /\ promise' = IF r = None THEN promise ELSE [promise EXCEPT ![r] = "pending"]
  /\ Target(t, held[t], h, w, d)
  /\ UNCHANGED <<held, resends>>

SendAfterRemainingTime(t, c, r, h, w) == Send(t, c, r, h, w - now, w)

SendMessageAtTime(t, c, r, h, w) == Send(t, c, r, h, w, w)

\* postDelayed and sendEmptyMessageDelayed take a uint64_t, and pass it on to
\* the uint32_t parameter of sendMessageDelayed.
SendMessageDelayed(t, c, r, h, d) == Send(t, c, r, h, now + (d % DELAY_MOD), now + d)

\* A caller that kept its pointer sends a message once more, wherever it is now.
SendAgain(t, m, h, w) ==
  /\ pc[t] = "idle" /\ resends < MaxResends
  /\ m \notin Free
  /\ held' = [held EXCEPT ![t] = m]
  /\ Target(t, m, h, w, w)
  /\ resends' = resends + 1
  /\ UNCHANGED <<content, result, promise>>

IsPlaceBeforeEquals(i, w) ==
  IF queue = <<>> \/ w = 0 \/ w < when[queue[1]]
  THEN i = 1
  ELSE \/ i = 2 /\ w = when[queue[1]]
       \/ /\ i > 1 /\ w > when[queue[i - 1]]
          /\ \A j \in i .. Len(queue) : w <= when[queue[j]]

IsPlaceAtTail(i, w) == i = Len(queue) + 1

\* Where enqueueMessage links a message with delivery time w: before the head,
\* or after the last message, searched from the tail, that is not due later.
IsPlace(i, w) ==
  IF queue = <<>> \/ w = 0 \/ w < when[queue[1]]
  THEN i = 1
  ELSE /\ i > 1
       /\ w >= when[queue[i - 1]]
       /\ \A j \in i .. Len(queue) : w < when[queue[j]]

AcceptingAlways == TRUE

Accepting == ~ mQuitting

isInUseNever(m) == FALSE

\* The test that keeps a message from being linked twice.
isInUse(m) == inUse[m]

\* The sender is done with the message.
Return(t) ==
  /\ pc' = [pc EXCEPT ![t] = "idle"]
  /\ held' = [held EXCEPT ![t] = None]
  /\ at' = [at EXCEPT ![t] = 0] /\ asked' = [asked EXCEPT ![t] = 0]

EnqueueMessage(t) ==
  /\ pc[t] = "sending" /\ LockFree
  /\ ~ isInUse(held[t]) /\ Accepting
  /\ tickets < MaxSends
  /\ LET m == held[t]
     IN  /\ inUse' = [inUse EXCEPT ![m] = TRUE]
         /\ when' = [when EXCEPT ![m] = at[t]]
         /\ \E i \in 1 .. Len(queue) + 1 :
              /\ IsPlace(i, at[t])
              /\ queue' = InsertAt(queue, i, m)
         /\ ticket' = [ticket EXCEPT ![m] = tickets]
         /\ due' = [due EXCEPT ![m] = asked[t]]
  /\ tickets' = tickets + 1
  /\ Signal
  /\ Return(t)
  /\ UNCHANGED <<now, mQuitting, pool, target, content, result, promise, sweepVars,
                 current, barrier, resends>>

\* The queue is quitting: the message is recycled and the sender told so.
EnqueueRejected(t) ==
  /\ pc[t] = "sending" /\ LockFree
  /\ ~ isInUse(held[t]) /\ mQuitting
  /\ Recycle(held[t])
  /\ Return(t)
  /\ UNCHANGED <<now, queue, mQuitting, sweepVars, looperVars, tickets, barrier, resends>>

\* enqueueMessage throws: the message is in use, or before it took mLock it had no
\* target (any more).
EnqueueThrows(t) ==
  /\ pc[t] = "sending"
  /\ (LockFree /\ isInUse(held[t])) \/ target[held[t]] = None
  /\ Return(t)
  /\ UNCHANGED <<now, listVars, messageVars, sweepVars, looperVars, tickets, ticket, due, barrier,
                 resends>>

(***************************************************************************)
(* quit(), removeMessages, removeCallbacks and removeCallbacksAndMessages: *)
(* Begin takes mLock.  The loop over the front of the list and the one     *)
(* after the front both look at the message that follows the ones kept so  *)
(* far: they unlink and recycle it, or pass on to it.  End releases mLock  *)
(* when none follows.                                                      *)
(***************************************************************************)
Begin(t, op, h, k, o) ==
  /\ pc[t] = "idle" /\ LockFree
  /\ sweep' = [op |-> op, by |-> t, target |-> h, key |-> k, obj |-> o]
  /\ cursor' = 0
  /\ pc' = [pc EXCEPT ![t] = "sweeping"]
  /\ UNCHANGED <<now, queue, pool, messageVars, held, at, looperVars, history>>

Quit(t) ==
  /\ QuitAllowed /\ ~ mQuitting
  /\ mQuitting' = TRUE
  /\ Begin(t, "quit", None, Null, Null)

RemoveMessages(t, h, what, o) ==
  Begin(t, "messages", h, what, o) /\ UNCHANGED mQuitting

RemoveCallbacks(t, h, callback, o) ==
  /\ callback # Null
  /\ Begin(t, "callbacks", h, callback, o) /\ UNCHANGED mQuitting

RemoveCallbacksAndMessages(t, h, o) ==
  Begin(t, "all", h, Null, o) /\ UNCHANGED mQuitting

\* The traversal's condition on a message of the list.
Matches(m, r) ==
  \/ r.op = "quit"
  \/ /\ r.op # "quit"
     /\ target[m] = r.target
     /\ r.op = "messages" => content[m].what = r.key
     /\ r.op = "callbacks" => content[m].callback = r.key
     /\ r.obj # Null => content[m].obj = r.obj

\* The message that the traversal looks at.
IsNext(m) == ~ LockFree /\ cursor < Len(queue) /\ m = queue[cursor + 1]

\* Variant: the loop moves on after a removal, past the message that follows.
RecycleNextAndAdvance ==
  /\ \E m \in Message : IsNext(m) /\ Matches(m, sweep) /\ Recycle(m)
  /\ queue' = RemoveAt(queue, cursor + 1)
  /\ cursor' = IF cursor < Len(queue') THEN cursor + 1 ELSE cursor
  /\ UNCHANGED <<now, mQuitting, threadVars, sweep, looperVars, tickets, asked, barrier, resends>>

RecycleNext ==
  /\ \E m \in Message : IsNext(m) /\ Matches(m, sweep) /\ Recycle(m)
  /\ queue' = RemoveAt(queue, cursor + 1)
  /\ UNCHANGED <<now, mQuitting, threadVars, sweepVars, looperVars, tickets, asked, barrier,
                 resends>>

KeepNext ==
  /\ \E m \in Message : IsNext(m) /\ ~ Matches(m, sweep)
  /\ cursor' = cursor + 1
  /\ UNCHANGED <<now, listVars, messageVars, threadVars, sweep, looperVars, history>>

End ==
  /\ ~ LockFree
  /\ cursor = Len(queue)
  /\ IF sweep.op = "quit"
     THEN Signal /\ UNCHANGED barrier
     ELSE /\ UNCHANGED <<looper, deadline>>
          /\ barrier' = IF queue = <<>> THEN None ELSE [of |-> sweep, ticket |-> tickets]
  /\ pc' = [pc EXCEPT ![sweep.by] = "idle"]
  /\ sweep' = None /\ cursor' = 0
  /\ UNCHANGED <<now, listVars, messageVars, held, at, current,
                 tickets, ticket, asked, due, resends>>

(***************************************************************************)
(* MessageQueue::dequeueMessage, one pass of its loop, called by the       *)
(* looper: return null, wait (with or without timeout), or take the head.  *)
(***************************************************************************)
DequeueNull ==
  /\ looper = "ready" /\ LockFree
  /\ mQuitting
  /\ looper' = "done"
  /\ UNCHANGED <<now, listVars, messageVars, threadVars, sweepVars, current, deadline, history>>

HeadIsAlmostDue == now + 1 >= when[queue[1]]

HeadIsDue == now >= when[queue[1]]

DequeueAwait ==
  /\ looper = "ready" /\ LockFree
  /\ ~ mQuitting
  /\ \/ queue = <<>> /\ deadline' = Forever
     \/ /\ queue # <<>> /\ ~ HeadIsDue
        /\ deadline' = now + (IF when[queue[1]] - now < MAX_WAIT
                              THEN when[queue[1]] - now ELSE MAX_WAIT)
  /\ looper' = "waiting"
  /\ UNCHANGED <<now, listVars, messageVars, threadVars, sweepVars, current, history>>

DequeueMessage ==
  /\ looper = "ready" /\ LockFree
  /\ ~ mQuitting
  /\ queue # <<>> /\ HeadIsDue
  /\ current' = queue[1]
  /\ queue' = Tail(queue)
  /\ looper' = "dispatching"
  /\ UNCHANGED <<now, mQuitting, pool, messageVars, threadVars, sweepVars, deadline, history>>

\* The await times out, or returns although nobody signalled.
AwaitTimeout ==
  /\ looper = "waiting" /\ deadline # Forever /\ now >= deadline
  /\ Wake
  /\ UNCHANGED <<now, listVars, messageVars, threadVars, sweepVars, current, history>>

SpuriousWakeup ==
  /\ looper = "waiting"
  /\ Wake
  /\ UNCHANGED <<now, listVars, messageVars, threadVars, sweepVars, current, history>>

\* Handler::dispatchMessage: the code behind the message runs, and may complete
\* the message's promise and take it off the message, as Binder::onTransact does.
DispatchMessage ==
  /\ looper = "dispatching" /\ target[current] # None
  /\ \/ UNCHANGED <<promise, result>>
     \/ /\ result[current] # None
        /\ promise' = [promise EXCEPT ![result[current]] = "completed"]
        /\ result' = [result EXCEPT ![current] = None]
  /\ looper' = "dispatched"
  /\ UNCHANGED <<now, listVars, target, content, when, inUse, threadVars, sweepVars,
                 current, deadline, history>>

\* A message that was enqueued by a caller who should not have may have been
\* recycled and obtained again since: it has no target, and the looper crashes.
DispatchCrashes ==
  /\ looper = "dispatching" /\ target[current] = None
  /\ looper' = "crashed"
  /\ UNCHANGED <<now, listVars, messageVars, threadVars, sweepVars, current, deadline, history>>

\* Looper::loop recycles the message after its dispatch.
RecycleDispatched ==
  /\ looper = "dispatched"
  /\ Recycle(current)
  /\ current' = None /\ looper' = "ready"
  /\ UNCHANGED <<now, queue, mQuitting, threadVars, sweepVars, deadline, tickets, asked, barrier,
                 resends>>

Tick ==
  /\ now < MaxTime /\ now' = now + 1
  /\ UNCHANGED <<listVars, messageVars, threadVars, sweepVars, looperVars, history>>

Sender(t) ==
  \/ Obtain(t)
  \/ \E c \in Content, r \in Result \cup {None}, h \in Handler :
       \/ \E w \in AtTime : SendMessageAtTime(t, c, r, h, w)
       \/ \E d \in Delay : SendMessageDelayed(t, c, r, h, d)
  \/ EnqueueMessage(t) \/ EnqueueRejected(t) \/ EnqueueThrows(t)
  \/ \E m \in Message, h \in Handler, w \in AtTime : SendAgain(t, m, h, w)

Remover(t) ==
  \/ Quit(t)
  \/ \E h \in Handler, c \in Content : \E o \in {c.obj, Null} :
       \/ RemoveMessages(t, h, c.what, o)
       \/ RemoveCallbacks(t, h, c.callback, o)
       \/ RemoveCallbacksAndMessages(t, h, o)

Looper ==
  \/ DequeueNull \/ DequeueAwait \/ DequeueMessage
  \/ AwaitTimeout \/ DispatchMessage \/ DispatchCrashes \/ RecycleDispatched

Next ==
  \/ Tick
  \/ \E t \in Thread : Sender(t) \/ Remover(t)
  \/ RecycleNext \/ KeepNext \/ End
  \/ Looper \/ SpuriousWakeup

Spec == Init /\ [][Next]_vars

(***************************************************************************)
(* Fairness.  Time passes; a thread inside a traversal goes on; the looper *)
(* thread is scheduled, and gets mLock if it is released again and again   *)
(* while the looper asks for it (a removal can take the lock any number of *)
(* times).  Callers owe nothing: they may stop at any point of a send.     *)
(***************************************************************************)
FairSpec == Spec /\ WF_vars(Tick) /\ WF_vars(RecycleNext \/ KeepNext \/ End) /\ SF_vars(Looper)

-----------------------------------------------------------------------------
(***************************************************************************)
(* Properties.                                                             *)
(***************************************************************************)

\* Every variable holds a value of its kind.
TypeOK ==
  /\ now \in Nat /\ mQuitting \in BOOLEAN
  /\ queue \in Seq(Message) /\ pool \in Seq(Message)
  /\ target \in [Message -> Handler \cup {None}]
  /\ content \in [Message -> Content \cup {Empty}]
  /\ result \in [Message -> Result \cup {None}]
  /\ when \in [Message -> Nat] /\ inUse \in [Message -> BOOLEAN]
  /\ promise \in [Result -> {"unused", "pending", "completed", "cancelled"}]
  /\ pc \in [Thread -> {"idle", "obtained", "sending", "sweeping"}]
  /\ held \in [Thread -> Message \cup {None}] /\ at \in [Thread -> Nat]
  /\ sweep \in Request \cup {None} /\ cursor \in Nat
  /\ looper \in {"ready", "waiting", "dispatching", "dispatched", "done", "crashed"}
  /\ current \in Message \cup {None} /\ deadline \in Nat \cup {Forever}
  /\ tickets \in Nat /\ ticket \in [Message -> Nat] /\ due \in [Message -> Nat]
  /\ asked \in [Thread -> Nat]
  /\ barrier \in [of : Request, ticket : Nat] \cup {None} /\ resends \in Nat

\* The list and the pool link no message twice, share none, and do not hold
\* the one being dispatched; the pool keeps to its size.
LinkedOnce ==
  /\ IsInjective(queue) /\ IsInjective(pool) /\ Len(pool) <= MAX_SIZE
  /\ Range(queue) \cap Range(pool) = {}
  /\ current \notin Range(queue) /\ current \notin Range(pool)

\* The in-use flag is set on these.
FlaggedInUse ==
  \A m \in Message : m \in Range(queue) \/ m \in Range(pool) \/ m = current => inUse[m]

\* A thread has a message from obtain() to the end of the send.
Holding == \A t \in Thread : held[t] # None <=> pc[t] \in {"obtained", "sending"}

\* A message that is being sent is one sender's, not in use, and has a target.
HeldOnce ==
  \A t \in Thread : held[t] # None =>
    /\ ~ inUse[held[t]]
    /\ pc[t] = "sending" => target[held[t]] # None
    /\ \A u \in Thread : held[u] = held[t] => u = t

\* Whatever is queued, or about to be dispatched, has a target.
Targeted ==
  /\ \A m \in Message : m \in Range(queue) => target[m] # None
  /\ looper = "dispatching" => target[current] # None

\* A Message object is linked in one place at a time, however often callers send it
\* again and whatever happens between their write of the target and the test of the
\* in-use flag: once in the queue, once in the pool, or being dispatched.  As long as
\* nobody does so, it is otherwise in the hands of one sender, it is then not in use,
\* and it has a target from there to its dispatch, so that the looper does not crash.
Ownership ==
  /\ LinkedOnce /\ FlaggedInUse /\ Holding
  /\ resends = 0 => HeldOnce /\ Targeted

\* m is to be dispatched before n: earlier delivery time first; among equal
\* times first come, first served; except that time 0 means the front of the
\* queue, so that there the last one sent comes first.
Before(m, n) ==
  \/ when[m] < when[n]
  \/ /\ when[m] = when[n]
     /\ IF when[m] = 0 THEN ticket[n] < ticket[m] ELSE ticket[m] < ticket[n]

\* The list built by enqueueMessage, dequeueMessage and the removals is in
\* dispatch order, whatever the order in which threads got the lock.
QueueOrder ==
  \A i, j \in 1 .. Len(queue) : i < j => Before(queue[i], queue[j])

\* The looper never sleeps past work: if it waits, the queue is not quitting
\* and the head of the list is not due before the wait ends.  (quit() sets
\* mQuitting first and signals last, before it releases the lock.)
NoLostWakeup ==
  looper = "waiting" =>
    /\ mQuitting => ~ LockFree /\ sweep.op = "quit"
    /\ ~ mQuitting /\ queue # <<>> =>
         deadline # Forever /\ deadline <= when[queue[1]]

\* Once quit() has returned the list is empty and stays empty, so that no sender
\* whose message was accepted waits for a looper that has gone; and the looper
\* ends only when quit() was called.
QuitDrains ==
  /\ mQuitting /\ (LockFree \/ sweep.op # "quit") => queue = <<>>
  /\ looper = "done" => mQuitting

\* A promise that has been attached to a message and is not settled is on a
\* message that somebody still has to deal with: a sender, the queue or the
\* looper.  Otherwise the thread that waits for the promise waits forever.
\* (A message that is sent again may lose the promise of the one who obtained it.)
NoOrphanPromise ==
  resends = 0 => \A r \in Result : promise[r] = "pending" =>
    \E m \in Message :
      /\ result[m] = r
      /\ m \in Range(queue) \/ m = current \/ \E t \in Thread : held[t] = m

\* When a removal returns, no message it asked for that was accepted before is
\* in the list, and none comes back later: the traversal skips none, and what it
\* has passed does not come to match, unless a caller sends a message again.
RemovedIsGone ==
  resends = 0 /\ barrier # None =>
    \A m \in Range(queue) : ticket[m] < barrier.ticket => ~ Matches(m, barrier.of)

\* No message reaches its handler before the time the caller asked for.
NeverEarly ==
  looper = "dispatching" => now >= due[current]

\* Every accepted message whose time comes leaves the queue (it is dispatched,
\* removed, or dropped by quit): no wakeup is lost and nobody blocks the looper.
DueLeavesQueue ==
  \A m \in Message :
    m \in Range(queue) /\ when[m] <= MaxTime ~> m \notin Range(queue)

(***************************************************************************)
(* The refinement: the pending entries are the messages in the list, the   *)
(* one being handled is the one dequeueMessage returned last.              *)
(***************************************************************************)
EntryOf(m) == [message |-> m, when |-> when[m], ticket |-> ticket[m]]

DQ == INSTANCE DelayQueue WITH
        pending  <- {EntryOf(m) : m \in Range(queue)},
        handling <- IF current = None THEN None ELSE EntryOf(current),
        next     <- tickets,
        open     <- ~ mQuitting

\* Lists, locks, condition variable, in-use flags and pool together implement
\* the queue that callers are promised.
ImplementsDelayQueue == DQ!Spec

\* After quit() the looper thread leaves its loop.
QuitStopsLooper == mQuitting ~> looper = "done"
=============================================================================
