------------------------- MODULE MessageQueueProofs -------------------------
(***************************************************************************)
(* Safety of the message queue for every number of messages, threads,      *)
(* handlers and times: the invariants that TLC checks on small instances   *)
(* are inductive together with the facts in Stages, Cursor and             *)
(* TicketBound, and the queue implements DelayQueue.  What depends on no   *)
(* message being sent again is proved on top of that, from OwnedInv.       *)
(***************************************************************************)
EXTENDS MessageQueue, ListLemmas

\* The part of Ownership that holds whatever callers send again.
Linked == LinkedOnce /\ FlaggedInUse /\ Holding

\* The program counters agree with what the threads hold.
Stages ==
  /\ current # None <=> looper \in {"dispatching", "dispatched", "crashed"}
  /\ sweep # None => pc[sweep.by] = "sweeping"

\* A traversal is somewhere in the list, and quit() passes no message.
Cursor == cursor <= Len(queue) /\ (sweep = None \/ sweep.op = "quit" => cursor = 0)

\* A message that is enqueued gets a number above all those in the list.
TicketBound == \A m \in Message : m \in Range(queue) => ticket[m] < tickets

\* The inductive invariant.
Inv ==
  /\ TypeOK /\ Linked /\ Stages /\ Cursor /\ TicketBound
  /\ QueueOrder /\ NoLostWakeup /\ QuitDrains

\* Initially nothing is queued, pooled or held.
LEMMA InitInv == Init => Inv
<1> SUFFICES ASSUME Init PROVE Inv
  OBVIOUS
<1> USE MessageQueueAssumption
<1>1. TypeOK
  <2>1. queue \in Seq(Message) /\ pool \in Seq(Message)
    BY EmptySeq DEF Init
  <2>2. now \in Nat /\ mQuitting \in BOOLEAN
    BY DEF Init
  <2> QED BY <2>1, <2>2 DEF Init, TypeOK
<1>2. Range(queue) = {} /\ Range(pool) = {} /\ Len(queue) = 0 /\ Len(pool) = 0
  BY DEF Init, Range
<1>3. Linked
  BY <1>2 DEF Init, Linked, LinkedOnce, FlaggedInUse, Holding, IsInjective
<1>4. Stages /\ Cursor /\ TicketBound
  BY <1>2 DEF Init, Stages, Cursor, TicketBound
<1>5. QueueOrder /\ NoLostWakeup /\ QuitDrains
  BY <1>2 DEF Init, QueueOrder, NoLostWakeup, QuitDrains
<1> QED BY <1>1, <1>3, <1>4, <1>5 DEF Inv

\* Message::recycle puts a message that is nowhere linked into the pool at most,
\* marks it in use, and touches no other message.
LEMMA RecycleFacts ==
  ASSUME TypeOK, NEW m \in Message, Recycle(m), m \notin Range(pool),
         IsInjective(pool), Len(pool) <= MAX_SIZE
  PROVE  /\ pool' \in Seq(Message) /\ IsInjective(pool') /\ Len(pool') <= MAX_SIZE
         /\ Range(pool') \subseteq Range(pool) \cup {m}
         /\ target' \in [Message -> Handler \cup {None}]
         /\ content' \in [Message -> Content \cup {Empty}]
         /\ result' \in [Message -> Result \cup {None}]
         /\ when' \in [Message -> Nat] /\ inUse' \in [Message -> BOOLEAN]
         /\ promise' \in [Result -> {"unused", "pending", "completed", "cancelled"}]
         /\ ticket' \in [Message -> Nat] /\ due' \in [Message -> Nat]
         /\ inUse'[m] = TRUE
         /\ \A n \in Message : n # m => /\ when'[n] = when[n] /\ inUse'[n] = inUse[n]
                                        /\ ticket'[n] = ticket[n]
<1> USE MessageQueueAssumption
<1>1. pool \in Seq(Message) /\ Len(pool) \in Nat /\ MAX_SIZE \in Nat
  BY LenProperties DEF TypeOK
<1>2. CASE PoolHasRoom
  <2>1. pool' = <<m>> \o pool
    BY <1>2 DEF Recycle
  <2>2. /\ pool' \in Seq(Message) /\ IsInjective(pool') /\ Len(pool') <= MAX_SIZE
        /\ Range(pool') \subseteq Range(pool) \cup {m}
    BY <1>1, <1>2, <2>1, PushInjective DEF PoolHasRoom
  <2> QED BY <2>2 DEF TypeOK, Recycle, CancelResult
<1>3. CASE ~ PoolHasRoom
  <2>1. pool' = pool
    BY <1>3 DEF Recycle
  <2> QED BY <1>1, <2>1 DEF TypeOK, Recycle, CancelResult
<1> QED BY <1>2, <1>3

\* The clock touches neither list nor pool, and a wait only gets closer to its end.
LEMMA TickInv == ASSUME Inv, Tick PROVE Inv'
<1> USE MessageQueueAssumption
    DEF Tick, listVars, messageVars, threadVars, sweepVars, looperVars, history
<1>1. TypeOK'
  BY DEF Inv, TypeOK
<1>2. Linked' /\ Stages' /\ Cursor' /\ TicketBound'
  BY DEF Inv, Linked, LinkedOnce, FlaggedInUse, Holding, Stages, Cursor, TicketBound
<1>3. QueueOrder' /\ NoLostWakeup' /\ QuitDrains'
  BY DEF Inv, QueueOrder, Before, NoLostWakeup, QuitDrains, LockFree
<1> QED BY <1>1, <1>2, <1>3 DEF Inv

\* Handler::sendMessageAtTime writes the target of a message, wherever it is.
LEMMA TargetInv ==
  ASSUME Inv, NEW t \in Thread, NEW m \in Message, NEW h \in Handler, NEW w \in Nat, NEW d \in Nat,
         Target(t, m, h, w, d), held' = [held EXCEPT ![t] = m],
         content' \in [Message -> Content \cup {Empty}],
         result' \in [Message -> Result \cup {None}],
         promise' \in [Result -> {"unused", "pending", "completed", "cancelled"}],
         resends' \in Nat, pc[t] \in {"idle", "obtained"}
  PROVE  Inv'
<1> USE MessageQueueAssumption DEF Target, listVars, looperVars, sweepVars
<1>1. TypeOK'
  BY DEF Inv, TypeOK
<1>2. Linked'
  BY DEF Inv, TypeOK, Linked, LinkedOnce, FlaggedInUse, Holding
<1>3. Stages' /\ Cursor' /\ TicketBound'
  BY DEF Inv, TypeOK, Stages, Cursor, TicketBound, Request
<1>4. QueueOrder' /\ NoLostWakeup' /\ QuitDrains'
  BY DEF Inv, QueueOrder, Before, NoLostWakeup, QuitDrains, LockFree
<1> QED BY <1>1, <1>2, <1>3, <1>4 DEF Inv

\* A sender fills in the message that it has obtained.
LEMMA SendInv ==
  ASSUME Inv, NEW t \in Thread, NEW c \in Content, NEW r \in Result \cup {None}, NEW h \in Handler,
         NEW w \in Nat, NEW d \in Nat, Send(t, c, r, h, w, d)
  PROVE  Inv'
<1>1. pc[t] = "obtained" /\ held[t] \in Message
  BY DEF Send, Inv, TypeOK, Linked, Holding
<1>2. /\ content' \in [Message -> Content \cup {Empty}]
      /\ result' \in [Message -> Result \cup {None}]
      /\ promise' \in [Result -> {"unused", "pending", "completed", "cancelled"}]
      /\ held' = [held EXCEPT ![t] = held[t]] /\ resends' \in Nat
  BY <1>1 DEF Send, Inv, TypeOK
<1>3. Target(t, held[t], h, w, d)
  BY DEF Send
<1> QED BY <1>1, <1>2, <1>3, TargetInv

\* A caller sends a message again.
LEMMA SendAgainInv ==
  ASSUME Inv, NEW t \in Thread, NEW m \in Message, NEW h \in Handler, NEW w \in Nat,
         SendAgain(t, m, h, w)
  PROVE  Inv'
<1>1. /\ content' \in [Message -> Content \cup {Empty}]
      /\ result' \in [Message -> Result \cup {None}]
      /\ promise' \in [Result -> {"unused", "pending", "completed", "cancelled"}]
      /\ resends' \in Nat
  BY DEF SendAgain, Inv, TypeOK
<1> QED BY <1>1, TargetInv DEF SendAgain

\* enqueueMessage throws: the sender gives up.
LEMMA EnqueueThrowsInv ==
  ASSUME Inv, NEW t \in Thread, EnqueueThrows(t)
  PROVE  Inv'
<1> USE MessageQueueAssumption
    DEF EnqueueThrows, Return, listVars, messageVars, sweepVars, looperVars
<1>1. TypeOK'
  BY DEF Inv, TypeOK
<1>2. Linked'
  BY DEF Inv, TypeOK, Linked, LinkedOnce, FlaggedInUse, Holding
<1>3. Stages' /\ Cursor' /\ TicketBound'
  BY DEF Inv, TypeOK, Stages, Cursor, TicketBound, Request
<1>4. QueueOrder' /\ NoLostWakeup' /\ QuitDrains'
  BY DEF Inv, QueueOrder, Before, NoLostWakeup, QuitDrains, LockFree
<1> QED BY <1>1, <1>2, <1>3, <1>4 DEF Inv

\* A traversal begins: quit() has set mQuitting, a removal leaves it alone.
LEMMA BeginInv ==
  ASSUME Inv, NEW t \in Thread, NEW op \in SweepOp, NEW h \in Handler \cup {None},
         NEW k \in Nat, NEW o \in Nat, Begin(t, op, h, k, o),
         IF op = "quit" THEN mQuitting' = TRUE ELSE mQuitting' = mQuitting
  PROVE  Inv'
<1> USE MessageQueueAssumption DEF Begin, messageVars, looperVars, history
<1>0. /\ sweep' = [op |-> op, by |-> t, target |-> h, key |-> k, obj |-> o]
      /\ sweep' \in Request /\ sweep'.by = t /\ sweep'.op = op
  BY DEF Request
<1>1. TypeOK'
  <2>1. mQuitting' \in BOOLEAN
    BY DEF Inv, TypeOK
  <2> QED BY <1>0, <2>1 DEF Inv, TypeOK
<1>2. Linked' /\ Stages' /\ Cursor' /\ TicketBound'
  <2>1. Linked'
    <3>1. LinkedOnce' /\ FlaggedInUse'
      BY DEF Inv, Linked, LinkedOnce, FlaggedInUse
    <3>2. Holding'
      BY DEF Inv, TypeOK, Linked, Holding
    <3> QED BY <3>1, <3>2 DEF Linked
  <2>2. Stages'
    BY <1>0, SMTT(30) DEF Inv, TypeOK, Stages
  <2>3. Cursor'
    BY <1>0, LenProperties DEF Inv, TypeOK, Cursor
  <2> QED BY <1>0, <2>1, <2>2, <2>3 DEF Inv, TicketBound
<1>3. QueueOrder'
  BY DEF Inv, QueueOrder, Before
<1>4. sweep' # None
  BY <1>0
<1>5. NoLostWakeup' /\ QuitDrains'
  BY <1>0, <1>4 DEF Inv, TypeOK, NoLostWakeup, QuitDrains, LockFree
<1> QED BY <1>1, <1>2, <1>3, <1>5 DEF Inv

\* The looper that sees mQuitting leaves its loop.
LEMMA DequeueNullInv == ASSUME Inv, DequeueNull PROVE Inv'
<1> USE MessageQueueAssumption
    DEF DequeueNull, listVars, messageVars, threadVars, sweepVars, history
<1>1. TypeOK'
  BY DEF Inv, TypeOK
<1>2. Linked' /\ Stages' /\ Cursor' /\ TicketBound'
  BY DEF Inv, Linked, LinkedOnce, FlaggedInUse, Holding, Stages, Cursor, TicketBound
<1>3. QueueOrder' /\ NoLostWakeup' /\ QuitDrains'
  BY DEF Inv, QueueOrder, Before, NoLostWakeup, QuitDrains, LockFree
<1> QED BY <1>1, <1>2, <1>3 DEF Inv

\* The await ends no later than the head of the list is due.
LEMMA DequeueAwaitInv == ASSUME Inv, DequeueAwait PROVE Inv'
<1> USE MessageQueueAssumption
    DEF DequeueAwait, listVars, messageVars, threadVars, sweepVars, history
<1>0. queue # <<>> => when[queue[1]] \in Nat
  BY EmptySeq, ElementOfSeq DEF Inv, TypeOK
<1>1. TypeOK'
  <2>1. deadline' \in Nat \cup {Forever}
    BY <1>0 DEF Inv, TypeOK
  <2> QED BY <2>1 DEF Inv, TypeOK
<1>2. Linked' /\ Stages' /\ Cursor' /\ TicketBound'
  BY DEF Inv, Linked, LinkedOnce, FlaggedInUse, Holding, Stages, Cursor, TicketBound
<1>3. QueueOrder' /\ QuitDrains'
  BY DEF Inv, QueueOrder, Before, QuitDrains, LockFree
<1>4. NoLostWakeup'
  <2>1. queue # <<>> => deadline' # Forever /\ deadline' <= when[queue[1]]
    <3>1. now \in Nat /\ MAX_WAIT \in Nat
      BY DEF Inv, TypeOK
    <3> QED BY <1>0, <3>1 DEF Forever, HeadIsDue
  <2> QED BY <2>1 DEF NoLostWakeup, LockFree
<1> QED BY <1>1, <1>2, <1>3, <1>4 DEF Inv

\* A looper that wakes up, by timeout or spuriously, only looks at the list again.
LEMMA WakeInv ==
  ASSUME Inv, looper = "waiting", Wake,
         UNCHANGED <<now, listVars, messageVars, threadVars, sweepVars, current, history>>
  PROVE  Inv'
<1> USE MessageQueueAssumption DEF Wake, listVars, messageVars, threadVars, sweepVars, history
<1>1. TypeOK'
  BY DEF Inv, TypeOK
<1>2. Linked' /\ Stages' /\ Cursor' /\ TicketBound'
  BY DEF Inv, Linked, LinkedOnce, FlaggedInUse, Holding, Stages, Cursor, TicketBound
<1>3. QueueOrder' /\ NoLostWakeup' /\ QuitDrains'
  BY DEF Inv, QueueOrder, Before, NoLostWakeup, QuitDrains, LockFree
<1> QED BY <1>1, <1>2, <1>3 DEF Inv

\* Handler::dispatchMessage may settle the promise of the message it handles.
LEMMA DispatchInv == ASSUME Inv, DispatchMessage PROVE Inv'
<1> USE MessageQueueAssumption DEF DispatchMessage, listVars, threadVars, sweepVars, history
<1>1. TypeOK'
  <2>1. current \in Message
    BY DEF Inv, TypeOK, Stages
  <2>2. promise' \in [Result -> {"unused", "pending", "completed", "cancelled"}]
    BY <2>1 DEF Inv, TypeOK
  <2>3. result' \in [Message -> Result \cup {None}]
    BY <2>1 DEF Inv, TypeOK
  <2> QED BY <2>2, <2>3 DEF Inv, TypeOK
<1>2. Linked' /\ Stages' /\ Cursor' /\ TicketBound'
  BY DEF Inv, Linked, LinkedOnce, FlaggedInUse, Holding, Stages, Cursor, TicketBound
<1>3. QueueOrder' /\ NoLostWakeup' /\ QuitDrains'
  BY DEF Inv, QueueOrder, Before, NoLostWakeup, QuitDrains, LockFree
<1> QED BY <1>1, <1>2, <1>3 DEF Inv

\* A message without a target stops the looper.
LEMMA CrashInv == ASSUME Inv, DispatchCrashes PROVE Inv'
<1> USE MessageQueueAssumption
    DEF DispatchCrashes, listVars, messageVars, threadVars, sweepVars, history
<1>1. TypeOK'
  BY DEF Inv, TypeOK
<1>2. Linked' /\ Stages' /\ Cursor' /\ TicketBound'
  BY DEF Inv, Linked, LinkedOnce, FlaggedInUse, Holding, Stages, Cursor, TicketBound
<1>3. QueueOrder' /\ NoLostWakeup' /\ QuitDrains'
  BY DEF Inv, QueueOrder, Before, NoLostWakeup, QuitDrains, LockFree
<1> QED BY <1>1, <1>2, <1>3 DEF Inv

\* What is known of the list and the pool, in terms of their places.
LEMMA ListFacts ==
  ASSUME Inv
  PROVE  /\ queue \in Seq(Message) /\ Len(queue) \in Nat /\ IsInjective(queue)
         /\ DOMAIN queue = 1 .. Len(queue) /\ (queue = <<>> <=> Len(queue) = 0)
         /\ \A j \in 1 .. Len(queue) : queue[j] \in Message /\ queue[j] \in Range(queue)
         /\ pool \in Seq(Message) /\ Len(pool) \in Nat /\ IsInjective(pool)
         /\ Len(pool) <= MAX_SIZE
<1>1. queue \in Seq(Message) /\ pool \in Seq(Message)
  BY DEF Inv, TypeOK
<1>2. /\ Len(queue) \in Nat /\ DOMAIN queue = 1 .. Len(queue) /\ Len(pool) \in Nat
      /\ (queue = <<>> <=> Len(queue) = 0)
  BY <1>1, LenProperties, EmptySeq
<1>3. \A j \in 1 .. Len(queue) : queue[j] \in Message
  BY <1>1, ElementOfSeq
<1>4. \A j \in 1 .. Len(queue) : queue[j] \in Range(queue)
  BY <1>2 DEF Range
<1>5. IsInjective(queue) /\ IsInjective(pool) /\ Len(pool) <= MAX_SIZE
  BY DEF Inv, Linked, LinkedOnce
<1> QED BY <1>1, <1>2, <1>3, <1>4, <1>5

\* Before is decided by delivery times and tickets, which are numbers.
LEMMA OrderFacts ==
  ASSUME Inv
  PROVE  \A j, k \in 1 .. Len(queue) :
           /\ j <= k => when[queue[j]] <= when[queue[k]]
           /\ when[queue[j]] \in Nat /\ ticket[queue[j]] \in Nat
           /\ ticket[queue[j]] < tickets
<1>1. SUFFICES ASSUME NEW j \in 1 .. Len(queue), NEW k \in 1 .. Len(queue)
               PROVE  /\ j <= k => when[queue[j]] <= when[queue[k]]
                      /\ when[queue[j]] \in Nat /\ ticket[queue[j]] \in Nat
                      /\ ticket[queue[j]] < tickets
  OBVIOUS
<1>2. queue[j] \in Message /\ queue[k] \in Message /\ queue[j] \in Range(queue)
  BY ListFacts
<1>3. /\ when[queue[j]] \in Nat /\ ticket[queue[j]] \in Nat
      /\ when[queue[k]] \in Nat
  BY <1>2 DEF Inv, TypeOK
<1>4. ticket[queue[j]] < tickets
  BY <1>2 DEF Inv, TicketBound
<1>5. j < k => Before(queue[j], queue[k])
  BY DEF Inv, QueueOrder
<1> QED BY <1>3, <1>4, <1>5, ListFacts DEF Before

\* The place enqueueMessage searches for, backwards from the tail, has the
\* messages due no later before it and those due later after it.
LEMMA PlaceFacts ==
  ASSUME Inv, NEW w \in Nat, NEW i \in 1 .. Len(queue) + 1, IsPlace(i, w)
  PROVE  \A j \in 1 .. Len(queue) :
           /\ j < i => w # 0 /\ when[queue[j]] <= w
           /\ j >= i => w = 0 \/ w < when[queue[j]]
<1>1. SUFFICES ASSUME NEW j \in 1 .. Len(queue)
               PROVE  /\ j < i => w # 0 /\ when[queue[j]] <= w
                      /\ j >= i => w = 0 \/ w < when[queue[j]]
  OBVIOUS
<1>2. /\ Len(queue) \in Nat /\ 1 \in 1 .. Len(queue) /\ queue # <<>> /\ i \in Nat
      /\ when[queue[1]] \in Nat /\ when[queue[j]] \in Nat
      /\ when[queue[1]] <= when[queue[j]]
  BY <1>1, ListFacts, OrderFacts
<1>3. CASE w = 0 \/ w < when[queue[1]]
  BY <1>2, <1>3 DEF IsPlace
<1>4. CASE ~ (w = 0 \/ w < when[queue[1]])
  <2>1. /\ i > 1 /\ w >= when[queue[i - 1]]
        /\ \A k \in i .. Len(queue) : w < when[queue[k]]
    BY <1>2, <1>4 DEF IsPlace
  <2>2. j < i => when[queue[j]] <= when[queue[i - 1]] /\ when[queue[i - 1]] \in Nat
    <3>1. j < i => i - 1 \in 1 .. Len(queue) /\ j <= i - 1
      BY <1>2, <2>1
    <3> QED BY <3>1, OrderFacts
  <2>3. j >= i => j \in i .. Len(queue)
    BY <1>2
  <2> QED BY <1>2, <1>4, <2>1, <2>2, <2>3
<1> QED BY <1>3, <1>4

\* A message obtained from the pool, or newly allocated, is linked nowhere.
LEMMA ObtainInv ==
  ASSUME Inv, NEW t \in Thread, Obtain(t)
  PROVE  Inv'
<1>0. /\ pc[t] = "idle" /\ pc' = [pc EXCEPT ![t] = "obtained"]
      /\ UNCHANGED <<now, queue, mQuitting, target, content, result, when, promise, at, sweep,
                     cursor, looper, current, deadline, tickets, ticket, asked, due, barrier,
                     resends>>
  BY DEF Obtain, looperVars, sweepVars, history
<1>1. PICK m \in Message :
        /\ \/ pool # <<>> /\ m = Head(pool) /\ pool' = Tail(pool)
           \/ pool = <<>> /\ m \in Free /\ pool' = pool
        /\ inUse' = [inUse EXCEPT ![m] = FALSE]
        /\ held' = [held EXCEPT ![t] = m]
  BY DEF Obtain
<1>2. /\ pool' \in Seq(Message) /\ IsInjective(pool') /\ Len(pool') <= MAX_SIZE
      /\ Range(pool') \subseteq Range(pool) /\ m \notin Range(pool')
      /\ m \notin Range(queue) /\ m # current
  <2>1. CASE pool # <<>>
    <3>1. m = Head(pool) /\ pool' = Tail(pool)
      BY <1>1, <2>1
    <3>2. /\ Tail(pool) \in Seq(Message) /\ Len(Tail(pool)) = Len(pool) - 1
          /\ IsInjective(Tail(pool))
          /\ Head(pool) \in Range(pool) /\ Range(Tail(pool)) = Range(pool) \ {Head(pool)}
      BY <2>1, TailInjective, ListFacts
    <3>3. Len(pool') <= MAX_SIZE
      BY <3>1, <3>2, ListFacts, MessageQueueAssumption
    <3>4. m \notin Range(queue) /\ m # current
      BY <3>1, <3>2 DEF Inv, Linked, LinkedOnce
    <3> QED BY <3>1, <3>2, <3>3, <3>4
  <2>2. CASE pool = <<>>
    BY <1>1, <2>2, ListFacts DEF Free
  <2> QED BY <2>1, <2>2
<1>3. TypeOK'
  BY <1>0, <1>1, <1>2 DEF Inv, TypeOK
<1>4. LinkedOnce'
  BY <1>0, <1>2 DEF Inv, Linked, LinkedOnce
<1>5. FlaggedInUse'
  <2>1. \A n \in Message : n \in Range(queue') \/ n \in Range(pool') \/ n = current'
          => n # m /\ inUse[n]
    BY <1>0, <1>2 DEF Inv, Linked, FlaggedInUse
  <2>2. \A n \in Message : inUse'[n] = IF n = m THEN FALSE ELSE inUse[n]
    BY <1>1 DEF Inv, TypeOK
  <2> QED BY <1>2, <2>1, <2>2 DEF FlaggedInUse
<1>6. Holding'
  BY <1>0, <1>1, <1>2, MessageQueueAssumption DEF Inv, TypeOK, Linked, Holding
<1>7. Stages' /\ Cursor' /\ TicketBound' /\ QueueOrder'
  <2>1. Stages'
    BY <1>0 DEF Inv, TypeOK, Stages, Request
  <2> QED BY <1>0, <2>1 DEF Inv, Cursor, TicketBound, QueueOrder, Before
<1>8. NoLostWakeup' /\ QuitDrains'
  BY <1>0 DEF Inv, NoLostWakeup, QuitDrains, LockFree
<1> QED BY <1>3, <1>4, <1>5, <1>6, <1>7, <1>8 DEF Inv, Linked

\* enqueueMessage links the sender's message at its place in the order and wakes
\* the looper if it waits.
LEMMA EnqueueInv ==
  ASSUME Inv, NEW t \in Thread, EnqueueMessage(t)
  PROVE  Inv'
<1> DEFINE m == held[t]
<1>1. m \in Message /\ m \notin Range(queue) /\ m \notin Range(pool) /\ m # current
  <2>1. m \in Message /\ ~ inUse[m]
    BY DEF EnqueueMessage, isInUse, Inv, TypeOK, Linked, Holding
  <2> HIDE DEF m
  <2> QED BY <2>1 DEF Inv, Linked, FlaggedInUse
<1>2. PICK i \in 1 .. Len(queue) + 1 : IsPlace(i, at[t]) /\ queue' = InsertAt(queue, i, m)
  BY DEF EnqueueMessage
<1>3. /\ queue \in Seq(Message) /\ Len(queue) \in Nat /\ DOMAIN queue = 1 .. Len(queue)
      /\ IsInjective(queue) /\ at[t] \in Nat /\ tickets \in Nat
      /\ when \in [Message -> Nat] /\ ticket \in [Message -> Nat]
      /\ \A j \in 1 .. Len(queue) : queue[j] \in Message /\ queue[j] \in Range(queue)
  BY ListFacts DEF Inv, TypeOK
<1>4. queue' \in Seq(Message) /\ Len(queue') = Len(queue) + 1
  <2> HIDE DEF m
  <2>1. queue \in Seq(Message) /\ i \in 1 .. Len(queue) + 1 /\ m \in Message
    BY <1>1, <1>3
  <2>2. /\ InsertAt(queue, i, m) \in Seq(Message)
        /\ Len(InsertAt(queue, i, m)) = Len(queue) + 1
    BY <2>1, InsertAtProperties
  <2> QED BY <1>2, <2>2
<1>5. IsInjective(queue') /\ Range(queue') = Range(queue) \cup {m}
  BY <1>1, <1>2, <1>3, InsertAtInjective
<1>6. /\ when' = [when EXCEPT ![m] = at[t]] /\ ticket' = [ticket EXCEPT ![m] = tickets]
      /\ tickets' = tickets + 1 /\ inUse' = [inUse EXCEPT ![m] = TRUE]
      /\ pc' = [pc EXCEPT ![t] = "idle"] /\ held' = [held EXCEPT ![t] = None]
      /\ looper' = IF looper = "waiting" THEN "ready" ELSE looper
      /\ deadline' = IF looper = "waiting" THEN Forever ELSE deadline
      /\ mQuitting = FALSE /\ mQuitting' = FALSE /\ sweep = None /\ sweep' = None
      /\ pc[t] = "sending" /\ due' = [due EXCEPT ![m] = asked[t]]
      /\ UNCHANGED <<now, pool, target, content, result, promise, current, cursor, barrier,
                     resends>>
      /\ at' = [at EXCEPT ![t] = 0] /\ asked' = [asked EXCEPT ![t] = 0]
  BY DEF EnqueueMessage, Return, Signal, Wake, Accepting, LockFree, sweepVars, Inv, TypeOK
<1> HIDE DEF m
<1>7. TypeOK'
  <2>1. /\ queue' \in Seq(Message) /\ when' \in [Message -> Nat] /\ ticket' \in [Message -> Nat]
        /\ tickets' \in Nat /\ at' \in [Thread -> Nat] /\ asked' \in [Thread -> Nat]
        /\ due' \in [Message -> Nat]
    <3>1. at \in [Thread -> Nat] /\ asked \in [Thread -> Nat] /\ due \in [Message -> Nat]
      BY DEF Inv, TypeOK
    <3> QED BY <1>1, <1>3, <1>4, <1>6, <3>1, SMTT(30)
  <2>2. /\ inUse' \in [Message -> BOOLEAN] /\ held' \in [Thread -> Message \cup {None}]
        /\ pc' \in [Thread -> {"idle", "obtained", "sending", "sweeping"}]
    BY <1>1, <1>6 DEF Inv, TypeOK
  <2>3. /\ looper' \in {"ready", "waiting", "dispatching", "dispatched", "done", "crashed"}
        /\ deadline' \in Nat \cup {Forever} /\ mQuitting' \in BOOLEAN
    BY <1>6 DEF Inv, TypeOK
  <2> QED BY <1>6, <2>1, <2>2, <2>3 DEF Inv, TypeOK
<1>8. LinkedOnce'
  BY <1>1, <1>5, <1>6 DEF Inv, Linked, LinkedOnce
<1>9. FlaggedInUse'
  BY <1>1, <1>5, <1>6 DEF Inv, TypeOK, Linked, FlaggedInUse
<1>10. Holding' /\ Stages' /\ Cursor'
  <2>1. Holding'
    BY <1>1, <1>6, MessageQueueAssumption DEF Inv, TypeOK, Linked, Holding, m
  <2>2. Stages'
    BY <1>1, <1>6, MessageQueueAssumption, SMTT(30) DEF Inv, TypeOK, Stages, m
  <2>3. Cursor'
    BY <1>3, <1>4, <1>6 DEF Inv, Cursor
  <2> QED BY <2>1, <2>2, <2>3
<1>11. TicketBound'
  BY <1>1, <1>3, <1>5, <1>6 DEF Inv, TicketBound
<1>12. QueueOrder'
  <2> DEFINE R == {p \in Message \X Message : Before(p[1], p[2])'}
  <2>1. \A j \in 1 .. Len(queue) :
          /\ queue[j] \in Message /\ queue[j] # m
          /\ when'[queue[j]] = when[queue[j]] /\ ticket'[queue[j]] = ticket[queue[j]]
          /\ ticket[queue[j]] < tickets
          /\ when[queue[j]] \in Nat /\ ticket[queue[j]] \in Nat
    BY <1>1, <1>3, <1>6, OrderFacts
  <2>2. when'[m] = at[t] /\ ticket'[m] = tickets
    BY <1>1, <1>3, <1>6
  <2>3. \A j, k \in 1 .. Len(queue) : j < k => <<queue[j], queue[k]>> \in R
    BY <2>1 DEF Inv, QueueOrder, Before
  <2>4. \A j \in 1 .. Len(queue) : j < i => <<queue[j], m>> \in R
    <3>1. \A j \in 1 .. Len(queue) : j < i => at[t] # 0 /\ when[queue[j]] <= at[t]
      BY <1>2, <1>3, PlaceFacts
    <3> QED BY <1>1, <1>3, <2>1, <2>2, <3>1, SMTT(30) DEF Before
  <2>5. \A j \in 1 .. Len(queue) : j >= i => <<m, queue[j]>> \in R
    <3>1. \A j \in 1 .. Len(queue) : j >= i => at[t] = 0 \/ at[t] < when[queue[j]]
      BY <1>2, <1>3, PlaceFacts
    <3> QED BY <1>1, <1>3, <2>1, <2>2, <3>1, SMTT(30) DEF Before
  <2> HIDE DEF R
  <2>6. \A j, k \in 1 .. Len(queue) + 1 : j < k => <<queue'[j], queue'[k]>> \in R
    BY <1>1, <1>2, <1>3, <2>3, <2>4, <2>5, InsertAtOrder
  <2> QED BY <1>4, <2>6 DEF QueueOrder, R
<1>13. NoLostWakeup' /\ QuitDrains'
  BY <1>6 DEF Inv, NoLostWakeup, QuitDrains, LockFree
<1> QED BY <1>7, <1>8, <1>9, <1>10, <1>11, <1>12, <1>13 DEF Inv, Linked

\* enqueueMessage on a quitting queue recycles the message in the sender's hands.
LEMMA EnqueueRejectedInv ==
  ASSUME Inv, NEW t \in Thread, EnqueueRejected(t)
  PROVE  Inv'
<1> DEFINE m == held[t]
<1>1. m \in Message /\ m \notin Range(queue) /\ m \notin Range(pool) /\ m # current
  <2>1. m \in Message /\ ~ inUse[m]
    BY DEF EnqueueRejected, isInUse, Inv, TypeOK, Linked, Holding
  <2> HIDE DEF m
  <2> QED BY <2>1 DEF Inv, Linked, FlaggedInUse
<1>2. /\ pc' = [pc EXCEPT ![t] = "idle"] /\ held' = [held EXCEPT ![t] = None]
      /\ at' = [at EXCEPT ![t] = 0] /\ asked' = [asked EXCEPT ![t] = 0] /\ pc[t] = "sending"
      /\ UNCHANGED <<now, queue, mQuitting, sweep, cursor, looper, current, deadline,
                     tickets, barrier, resends>>
  BY DEF EnqueueRejected, Return, looperVars, sweepVars
<1>3. Recycle(m)
  BY DEF EnqueueRejected
<1> HIDE DEF m
<1>4. TypeOK /\ IsInjective(pool) /\ Len(pool) <= MAX_SIZE
  BY ListFacts DEF Inv
<1>5. TypeOK'
  <2>1. /\ held' \in [Thread -> Message \cup {None}] /\ at' \in [Thread -> Nat]
        /\ asked' \in [Thread -> Nat]
        /\ pc' \in [Thread -> {"idle", "obtained", "sending", "sweeping"}]
    BY <1>2, <1>4 DEF TypeOK
  <2> QED BY <1>1, <1>2, <1>3, <1>4, <2>1, RecycleFacts DEF TypeOK
<1>6. LinkedOnce'
  <2>1. /\ IsInjective(pool') /\ Len(pool') <= MAX_SIZE
        /\ Range(pool') \subseteq Range(pool) \cup {m}
    BY <1>1, <1>3, <1>4, RecycleFacts
  <2>2. LinkedOnce
    BY DEF Inv, Linked
  <2> QED BY <1>1, <1>2, <2>1, <2>2 DEF LinkedOnce
<1>7. /\ inUse'[m] = TRUE /\ Range(pool') \subseteq Range(pool) \cup {m}
      /\ \A n \in Message : n # m => /\ when'[n] = when[n] /\ inUse'[n] = inUse[n]
                                     /\ ticket'[n] = ticket[n]
  BY <1>1, <1>3, <1>4, RecycleFacts
<1>8. FlaggedInUse'
  <2>1. \A n \in Message : n \in Range(queue') \/ n \in Range(pool') \/ n = current'
          => n = m \/ inUse[n]
    BY <1>2, <1>7 DEF Inv, Linked, FlaggedInUse
  <2> QED BY <1>7, <2>1 DEF FlaggedInUse
<1>9. Holding' /\ Stages' /\ Cursor'
  <2>1. Holding'
    BY <1>1, <1>2 DEF Inv, TypeOK, Linked, Holding, m
  <2>2. Stages'
    BY <1>2 DEF Inv, TypeOK, Stages, Request
  <2> QED BY <1>2, <2>1, <2>2 DEF Inv, Cursor
<1>10. TicketBound'
  BY <1>1, <1>2, <1>7 DEF Inv, TicketBound
<1>11. QueueOrder'
  <2>1. \A j \in 1 .. Len(queue) : /\ when'[queue[j]] = when[queue[j]]
                                  /\ ticket'[queue[j]] = ticket[queue[j]]
    BY <1>1, <1>7, ListFacts
  <2> QED BY <1>2, <2>1 DEF Inv, QueueOrder, Before
<1>12. NoLostWakeup' /\ QuitDrains'
  <2>1. queue # <<>> => when'[queue[1]] = when[queue[1]]
    BY <1>1, <1>7, ListFacts
  <2> QED BY <1>2, <2>1 DEF Inv, NoLostWakeup, QuitDrains, LockFree
<1> QED BY <1>5, <1>6, <1>8, <1>9, <1>10, <1>11, <1>12 DEF Inv, Linked

\* A traversal unlinks a message and recycles it: the others keep their order,
\* and the new head is due no earlier than the old one.
LEMMA RecycleNextInv == ASSUME Inv, RecycleNext PROVE Inv'
<1>1. PICK i \in 1 .. Len(queue) :
        i = cursor + 1 /\ Recycle(queue[i]) /\ queue' = RemoveAt(queue, i)
  <2>1. cursor \in Nat /\ Len(queue) \in Nat
    BY ListFacts DEF Inv, TypeOK
  <2>2. cursor + 1 \in 1 .. Len(queue) /\ Recycle(queue[cursor + 1])
    BY <2>1 DEF RecycleNext, IsNext
  <2> QED BY <2>2 DEF RecycleNext
<1> DEFINE m == queue[i]
<1>2. /\ UNCHANGED <<now, mQuitting, pc, held, at, sweep, cursor, looper, current, deadline,
                     tickets, asked, barrier, resends>>
      /\ ~ LockFree
  BY DEF RecycleNext, IsNext, threadVars, looperVars, sweepVars
<1>3. m \in Message /\ m \in Range(queue) /\ m \notin Range(pool) /\ m # current
  <2>1. m \in Message /\ m \in Range(queue)
    BY ListFacts
  <2> HIDE DEF m
  <2> QED BY <2>1 DEF Inv, Linked, LinkedOnce
<1>4. /\ queue' \in Seq(Message) /\ Len(queue') = Len(queue) - 1 /\ IsInjective(queue')
      /\ \A j \in 1 .. Len(queue) - 1 : queue'[j] = IF j < i THEN queue[j] ELSE queue[j + 1]
      /\ Range(queue') = Range(queue) \ {m}
  BY <1>1, ListFacts, RemoveAtProperties, RemoveAtInjective
<1>5. TypeOK /\ IsInjective(pool) /\ Len(pool) <= MAX_SIZE /\ Recycle(m)
  BY <1>1, ListFacts DEF Inv
<1>6. \A j \in 1 .. Len(queue) : j # i => queue[j] # m
  BY ListFacts DEF IsInjective
<1> HIDE DEF m
<1>7. TypeOK'
  <2>1. /\ pool' \in Seq(Message)
        /\ target' \in [Message -> Handler \cup {None}]
        /\ content' \in [Message -> Content \cup {Empty}]
        /\ result' \in [Message -> Result \cup {None}]
        /\ when' \in [Message -> Nat] /\ inUse' \in [Message -> BOOLEAN]
        /\ promise' \in [Result -> {"unused", "pending", "completed", "cancelled"}]
        /\ ticket' \in [Message -> Nat] /\ due' \in [Message -> Nat]
    BY <1>3, <1>5, RecycleFacts
  <2> QED BY <1>2, <1>4, <1>5, <2>1 DEF TypeOK
<1>8. LinkedOnce'
  <2>1. /\ IsInjective(pool') /\ Len(pool') <= MAX_SIZE
        /\ Range(pool') \subseteq Range(pool) \cup {m}
    BY <1>3, <1>5, RecycleFacts
  <2> QED BY <1>2, <1>3, <1>4, <2>1 DEF Inv, Linked, LinkedOnce
<1>9. /\ inUse'[m] = TRUE /\ Range(pool') \subseteq Range(pool) \cup {m}
      /\ \A n \in Message : n # m => /\ when'[n] = when[n] /\ inUse'[n] = inUse[n]
                                     /\ ticket'[n] = ticket[n]
  BY <1>3, <1>5, RecycleFacts
<1>10. FlaggedInUse'
  <2>1. \A n \in Message : n \in Range(queue') \/ n \in Range(pool') \/ n = current'
          => n = m \/ inUse[n]
    BY <1>2, <1>4, <1>9 DEF Inv, Linked, FlaggedInUse
  <2> QED BY <1>9, <2>1 DEF FlaggedInUse
<1>11. Holding' /\ Stages' /\ Cursor'
  <2>1. Holding' /\ Stages'
    BY <1>2 DEF Inv, Linked, Holding, Stages
  <2>2. cursor \in Nat /\ Len(queue) \in Nat
    BY ListFacts DEF Inv, TypeOK
  <2> QED BY <1>1, <1>2, <1>4, <2>1, <2>2 DEF Inv, Cursor
<1>12. TicketBound'
  BY <1>2, <1>4, <1>9 DEF Inv, TicketBound
<1>13. QueueOrder'
  <2> DEFINE R == {p \in Message \X Message : Before(p[1], p[2])'}
  <2>1. \A j \in 1 .. Len(queue) : j # i =>
          /\ queue[j] \in Message
          /\ when'[queue[j]] = when[queue[j]] /\ ticket'[queue[j]] = ticket[queue[j]]
    BY <1>6, <1>9, ListFacts
  <2>2. \A j, k \in 1 .. Len(queue) : j < k /\ j # i /\ k # i => <<queue[j], queue[k]>> \in R
    BY <2>1 DEF Inv, QueueOrder, Before
  <2> HIDE DEF R
  <2>3. \A j, k \in 1 .. Len(queue) - 1 : j < k => <<queue'[j], queue'[k]>> \in R
    BY <1>1, <2>2, RemoveAtOrder, ListFacts
  <2> QED BY <1>4, <2>3 DEF QueueOrder, R
<1>14. NoLostWakeup'
  <2>1. queue' # <<>> => /\ queue # <<>>
                         /\ when'[queue'[1]] \in Nat /\ when[queue[1]] \in Nat
                         /\ when[queue[1]] <= when'[queue'[1]]
    <3>1. SUFFICES ASSUME queue' # <<>>
                   PROVE  /\ queue # <<>>
                          /\ when'[queue'[1]] \in Nat /\ when[queue[1]] \in Nat
                          /\ when[queue[1]] <= when'[queue'[1]]
      OBVIOUS
    <3>2. Len(queue) - 1 >= 1 /\ 1 \in 1 .. Len(queue) /\ 2 \in 1 .. Len(queue)
      BY <1>4, <3>1, ListFacts, EmptySeq
    <3>3. PICK k \in 1 .. Len(queue) : k # i /\ queue'[1] = queue[k]
      BY <1>4, <3>2
    <3>4. when'[queue'[1]] = when[queue[k]]
      BY <1>6, <1>9, <3>3, ListFacts
    <3>5. when[queue[1]] <= when[queue[k]] /\ when[queue[k]] \in Nat /\ when[queue[1]] \in Nat
      BY <3>2, <3>3, OrderFacts
    <3> QED BY <3>2, <3>4, <3>5, ListFacts
  <2>2. deadline \in Nat \cup {Forever}
    BY DEF Inv, TypeOK
  <2> QED BY <1>2, <2>1, <2>2 DEF Inv, NoLostWakeup, LockFree, Forever
<1>15. QuitDrains'
  <2>1. mQuitting /\ (LockFree \/ sweep.op # "quit") => queue = <<>>
    BY DEF Inv, QuitDrains
  <2>2. queue # <<>>
    BY <1>1, ListFacts
  <2> QED BY <1>2, <2>1, <2>2 DEF Inv, QuitDrains, LockFree
<1> QED BY <1>7, <1>8, <1>10, <1>11, <1>12, <1>13, <1>14, <1>15 DEF Inv, Linked

\* A traversal passes a message, which quit() never does.
LEMMA KeepNextInv == ASSUME Inv, KeepNext PROVE Inv'
<1> USE MessageQueueAssumption DEF listVars, messageVars, threadVars, looperVars, history
<1>0. /\ cursor' = cursor + 1 /\ cursor < Len(queue) /\ sweep # None /\ sweep.op # "quit"
      /\ UNCHANGED <<now, listVars, messageVars, threadVars, sweep, looperVars, history>>
  BY DEF KeepNext, IsNext, Matches, LockFree
<1>1. TypeOK'
  <2>1. cursor \in Nat
    BY DEF Inv, TypeOK
  <2>2. cursor' \in Nat
    BY <1>0, <2>1
  <2> QED BY <1>0, <2>2 DEF Inv, TypeOK
<1>2. Linked' /\ Stages' /\ TicketBound'
  BY <1>0 DEF Inv, Linked, LinkedOnce, FlaggedInUse, Holding, Stages, TicketBound
<1>3. Cursor'
  <2>1. cursor \in Nat /\ Len(queue) \in Nat
    BY ListFacts DEF Inv, TypeOK
  <2> QED BY <1>0, <2>1 DEF Cursor
<1>4. QueueOrder' /\ NoLostWakeup' /\ QuitDrains'
  BY <1>0 DEF Inv, QueueOrder, Before, NoLostWakeup, QuitDrains, LockFree
<1> QED BY <1>1, <1>2, <1>3, <1>4 DEF Inv

\* A traversal ends: quit() has emptied the list and wakes the looper.
LEMMA EndInv == ASSUME Inv, End PROVE Inv'
<1>1. /\ sweep # None /\ sweep' = None /\ cursor' = 0 /\ cursor = Len(queue)
      /\ pc' = [pc EXCEPT ![sweep.by] = "idle"]
      /\ UNCHANGED <<now, queue, mQuitting, pool, target, content, result, when, inUse, promise,
                     held, at, current, tickets, ticket, asked, due, resends>>
  BY DEF End, LockFree, listVars, messageVars
<1>2. sweep \in Request /\ sweep.by \in Thread /\ sweep.op \in SweepOp
  BY <1>1 DEF Inv, TypeOK, Request
<1>3. /\ pc \in [Thread -> {"idle", "obtained", "sending", "sweeping"}]
      /\ pc[sweep.by] = "sweeping"
  BY <1>1 DEF Inv, TypeOK, Stages
<1>4. CASE sweep.op = "quit"
  <2>1. /\ looper' = IF looper = "waiting" THEN "ready" ELSE looper
        /\ deadline' = IF looper = "waiting" THEN Forever ELSE deadline
        /\ barrier' = barrier
    BY <1>4 DEF End, Signal, Wake
  <2>2. queue = <<>>
    BY <1>1, <1>4, ListFacts DEF Inv, Cursor
  <2>3. TypeOK'
    BY <1>1, <1>2, <1>3, <2>1 DEF Inv, TypeOK
  <2>4. Linked' /\ Stages' /\ Cursor' /\ TicketBound'
    BY <1>1, <1>2, <1>3, <2>1, ListFacts
    DEF Inv, Linked, LinkedOnce, FlaggedInUse, Holding, Stages, Cursor, TicketBound
  <2>5. QueueOrder' /\ NoLostWakeup' /\ QuitDrains'
    BY <1>1, <2>1, <2>2 DEF Inv, QueueOrder, Before, NoLostWakeup, QuitDrains, LockFree
  <2> QED BY <2>3, <2>4, <2>5 DEF Inv
<1>5. CASE sweep.op # "quit"
  <2>1. /\ looper' = looper /\ deadline' = deadline
        /\ barrier' = IF queue = <<>> THEN None ELSE [of |-> sweep, ticket |-> tickets]
    BY <1>5 DEF End
  <2>2. TypeOK'
    <3>1. barrier' \in [of : Request, ticket : Nat] \cup {None}
      BY <1>2, <2>1 DEF Inv, TypeOK
    <3> QED BY <1>1, <1>2, <1>3, <2>1, <3>1 DEF Inv, TypeOK
  <2>3. Linked' /\ Stages' /\ Cursor' /\ TicketBound'
    BY <1>1, <1>2, <1>3, <2>1, ListFacts
    DEF Inv, Linked, LinkedOnce, FlaggedInUse, Holding, Stages, Cursor, TicketBound
  <2>4. QueueOrder' /\ NoLostWakeup' /\ QuitDrains'
    BY <1>1, <1>5, <2>1 DEF Inv, QueueOrder, Before, NoLostWakeup, QuitDrains, LockFree
  <2> QED BY <2>2, <2>3, <2>4 DEF Inv
<1> QED BY <1>4, <1>5

\* dequeueMessage hands the head of the list to the looper.
LEMMA DequeueInv == ASSUME Inv, DequeueMessage PROVE Inv'
<1>1. /\ looper = "ready" /\ looper' = "dispatching" /\ sweep = None
      /\ mQuitting = FALSE /\ queue # <<>>
      /\ current' = queue[1] /\ queue' = Tail(queue)
      /\ UNCHANGED <<now, mQuitting, pool, target, content, result, when, inUse, promise,
                     pc, held, at, sweep, cursor, deadline, tickets, ticket, asked, due,
                     barrier, resends>>
  BY DEF DequeueMessage, LockFree, messageVars, threadVars, sweepVars, history, Inv, TypeOK
<1>2. /\ queue' \in Seq(Message) /\ Len(queue') = Len(queue) - 1
      /\ \A j \in 1 .. Len(queue) - 1 : queue'[j] = queue[j + 1]
      /\ IsInjective(queue') /\ queue[1] \in Message /\ queue[1] \in Range(queue)
      /\ Range(queue') = Range(queue) \ {queue[1]}
  BY <1>1, ListFacts, TailInjective
<1>3. TypeOK'
  BY <1>1, <1>2 DEF Inv, TypeOK
<1>4. LinkedOnce'
  BY <1>1, <1>2 DEF Inv, Linked, LinkedOnce
<1>5. FlaggedInUse' /\ Holding'
  BY <1>1, <1>2 DEF Inv, Linked, FlaggedInUse, Holding
<1>6. Stages' /\ Cursor' /\ TicketBound'
  <2>1. Stages' /\ TicketBound'
    BY <1>1, <1>2, MessageQueueAssumption DEF Inv, Stages, TicketBound
  <2>2. Len(queue') \in Nat
    BY <1>2, LenProperties
  <2> QED BY <1>1, <2>1, <2>2 DEF Inv, Cursor
<1>7. QueueOrder'
  <2>1. SUFFICES ASSUME NEW j \in 1 .. Len(queue) - 1, NEW k \in 1 .. Len(queue) - 1, j < k
                 PROVE  Before(queue'[j], queue'[k])
    BY <1>1, <1>2 DEF QueueOrder, Before
  <2>2. /\ j + 1 \in 1 .. Len(queue) /\ k + 1 \in 1 .. Len(queue) /\ j + 1 < k + 1
        /\ queue'[j] = queue[j + 1] /\ queue'[k] = queue[k + 1]
    BY <1>2, <2>1, ListFacts
  <2> QED BY <2>2 DEF Inv, QueueOrder
<1>8. NoLostWakeup' /\ QuitDrains'
  BY <1>1 DEF Inv, NoLostWakeup, QuitDrains
<1> QED BY <1>3, <1>4, <1>5, <1>6, <1>7, <1>8 DEF Inv, Linked

\* Looper::loop recycles the message it has dispatched.
LEMMA RecycleDispatchedInv == ASSUME Inv, RecycleDispatched PROVE Inv'
<1> DEFINE m == current
<1>1. /\ looper = "dispatched" /\ looper' = "ready" /\ current' = None /\ Recycle(m)
      /\ UNCHANGED <<now, queue, mQuitting, pc, held, at, sweep, cursor, deadline,
                     tickets, asked, barrier, resends>>
  BY DEF RecycleDispatched, threadVars, sweepVars
<1>2. m \in Message /\ m # None
  BY <1>1 DEF Inv, TypeOK, Stages
<1>3. m \notin Range(queue) /\ m \notin Range(pool) /\ IsInjective(pool) /\ Len(pool) <= MAX_SIZE
  BY DEF Inv, Linked, LinkedOnce
<1> HIDE DEF m
<1>5. /\ pool' \in Seq(Message) /\ IsInjective(pool') /\ Len(pool') <= MAX_SIZE
      /\ inUse'[m] = TRUE /\ Range(pool') \subseteq Range(pool) \cup {m}
      /\ \A n \in Message : n # m => /\ when'[n] = when[n] /\ inUse'[n] = inUse[n]
                                     /\ ticket'[n] = ticket[n]
  BY <1>1, <1>2, <1>3, RecycleFacts DEF Inv
<1>6. TypeOK'
  BY <1>1, <1>2, <1>3, RecycleFacts DEF Inv, TypeOK
<1>7. LinkedOnce'
  <2>1. LinkedOnce /\ queue \in Seq(Message)
    BY DEF Inv, Linked, TypeOK
  <2>2. None \notin Range(queue) /\ None \notin Range(pool')
    BY <1>5, <2>1, RangeOfSeq, MessageQueueAssumption
  <2> QED BY <1>1, <1>3, <1>5, <2>1, <2>2 DEF LinkedOnce
<1>8. FlaggedInUse'
  <2>1. \A n \in Message : n \in Range(queue') \/ n \in Range(pool') => n = m \/ inUse[n]
    BY <1>1, <1>5 DEF Inv, Linked, FlaggedInUse
  <2> QED BY <1>1, <1>5, <2>1, MessageQueueAssumption DEF FlaggedInUse
<1>9. Holding' /\ Stages' /\ Cursor'
  BY <1>1 DEF Inv, Linked, Holding, Stages, Cursor
<1>10. \A j \in 1 .. Len(queue) : /\ when'[queue[j]] = when[queue[j]]
                                  /\ ticket'[queue[j]] = ticket[queue[j]]
  BY <1>3, <1>5, ListFacts
<1>11. TicketBound'
  BY <1>1, <1>3, <1>5 DEF Inv, TicketBound
<1>12. QueueOrder' /\ NoLostWakeup' /\ QuitDrains'
  BY <1>1, <1>10 DEF Inv, QueueOrder, Before, NoLostWakeup, QuitDrains, LockFree
<1> QED BY <1>6, <1>7, <1>8, <1>9, <1>11, <1>12 DEF Inv, Linked

\* Every step of a thread, of the looper or of the clock preserves the invariant.
LEMMA NextInv == ASSUME Inv, [Next]_vars PROVE Inv'
<1> USE MessageQueueAssumption
<1>1. CASE UNCHANGED vars
  <2> USE <1>1 DEF vars, listVars, messageVars, threadVars, sweepVars, looperVars, history
  <2>1. TypeOK'
    BY DEF Inv, TypeOK
  <2>2. Linked' /\ Stages' /\ Cursor' /\ TicketBound'
    BY DEF Inv, Linked, LinkedOnce, FlaggedInUse, Holding, Stages, Cursor, TicketBound
  <2>3. QueueOrder' /\ NoLostWakeup' /\ QuitDrains'
    BY DEF Inv, QueueOrder, Before, NoLostWakeup, QuitDrains, LockFree
  <2> QED BY <2>1, <2>2, <2>3 DEF Inv
<1>2. CASE Tick
  BY <1>2, TickInv
<1>3. ASSUME NEW t \in Thread, Sender(t) PROVE Inv'
  <2>1. CASE Obtain(t)
    BY <2>1, ObtainInv
  <2>2. ASSUME NEW c \in Content, NEW r \in Result \cup {None}, NEW h \in Handler,
               \/ \E w \in AtTime : SendMessageAtTime(t, c, r, h, w)
               \/ \E d \in Delay : SendMessageDelayed(t, c, r, h, d)
        PROVE  Inv'
    <3>1. CASE \E w \in AtTime : SendMessageAtTime(t, c, r, h, w)
      BY <3>1, SendInv DEF SendMessageAtTime
    <3>2. CASE \E d \in Delay : SendMessageDelayed(t, c, r, h, d)
      <4>1. PICK d \in Delay : Send(t, c, r, h, now + (d % DELAY_MOD), now + d)
        BY <3>2 DEF SendMessageDelayed
      <4>2. now + (d % DELAY_MOD) \in Nat /\ now + d \in Nat
        BY DEF Inv, TypeOK
      <4> QED BY <4>1, <4>2, SendInv
    <3> QED BY <2>2, <3>1, <3>2
  <2>3. CASE \E m \in Message, h \in Handler, w \in AtTime : SendAgain(t, m, h, w)
    BY <2>3, SendAgainInv
  <2>4. CASE EnqueueMessage(t)
    BY <2>4, EnqueueInv
  <2>5. CASE EnqueueRejected(t)
    BY <2>5, EnqueueRejectedInv
  <2>6. CASE EnqueueThrows(t)
    BY <2>6, EnqueueThrowsInv
  <2> QED BY <1>3, <2>1, <2>2, <2>3, <2>4, <2>5, <2>6 DEF Sender
<1>4. ASSUME NEW t \in Thread, Remover(t) PROVE Inv'
  <2>1. CASE Quit(t)
    BY <2>1, BeginInv DEF Quit, SweepOp, Null
  <2>2. ASSUME NEW h \in Handler, NEW c \in Content, NEW o \in {c.obj, Null},
               \/ RemoveMessages(t, h, c.what, o)
               \/ RemoveCallbacks(t, h, c.callback, o)
               \/ RemoveCallbacksAndMessages(t, h, o)
        PROVE  Inv'
    <3>1. c.what \in Nat /\ c.callback \in Nat /\ o \in Nat /\ Null \in Nat
      BY DEF Null
    <3>2. CASE RemoveMessages(t, h, c.what, o)
      BY <3>1, <3>2, BeginInv DEF RemoveMessages, SweepOp
    <3>3. CASE RemoveCallbacks(t, h, c.callback, o)
      BY <3>1, <3>3, BeginInv DEF RemoveCallbacks, SweepOp
    <3>4. CASE RemoveCallbacksAndMessages(t, h, o)
      BY <3>1, <3>4, BeginInv DEF RemoveCallbacksAndMessages, SweepOp
    <3> QED BY <2>2, <3>2, <3>3, <3>4
  <2> QED BY <1>4, <2>1, <2>2 DEF Remover
<1>5. CASE RecycleNext \/ KeepNext \/ End
  BY <1>5, RecycleNextInv, KeepNextInv, EndInv
<1>6. CASE Looper \/ SpuriousWakeup
  <2>1. CASE AwaitTimeout \/ SpuriousWakeup
    BY <2>1, WakeInv DEF AwaitTimeout, SpuriousWakeup
  <2> QED BY <1>6, <2>1, DequeueNullInv, DequeueAwaitInv, DequeueInv, DispatchInv, CrashInv,
             RecycleDispatchedInv DEF Looper
<1> QED BY <1>1, <1>2, <1>3, <1>4, <1>5, <1>6 DEF Next

\* The invariant holds in every reachable state.
THEOREM Invariance == Spec => []Inv
<1>1. Inv /\ [Next]_vars => Inv'
  BY NextInv
<1> QED BY InitInv, <1>1, PTL DEF Spec

\* Every variable keeps its kind, however many messages, threads and handlers.
THEOREM TypeCorrect == Spec => []TypeOK
  BY Invariance, PTL DEF Inv

\* enqueueMessage's search from the tail keeps the list in dispatch order.
THEOREM QueueOrderHolds == Spec => []QueueOrder
  BY Invariance, PTL DEF Inv

\* Signalling on every enqueueMessage and on quit() is enough: the looper never
\* sleeps past the delivery time of a message or past quit().
THEOREM NoLostWakeupHolds == Spec => []NoLostWakeup
  BY Invariance, PTL DEF Inv

\* After quit() nothing is left in the list or added to it.
THEOREM QuitDrainsHolds == Spec => []QuitDrains
  BY Invariance, PTL DEF Inv

(***************************************************************************)
(* The refinement.  Only the list, the message being dispatched, the       *)
(* delivery times and the tickets of these, mQuitting, the clock and the   *)
(* number of accepted messages are visible in DelayQueue.                  *)
(***************************************************************************)
Pending  == {EntryOf(m) : m \in Range(queue)}
Handling == IF current = None THEN None ELSE EntryOf(current)

\* A step that changes neither the list nor what is visible of a message that is in
\* it or is being dispatched leaves the entries of DelayQueue alone.
LEMMA EntriesKept ==
  ASSUME queue' = queue, current' = current,
         \A n : n \in Range(queue) \/ n = current
                  => when'[n] = when[n] /\ ticket'[n] = ticket[n]
  PROVE  Pending' = Pending /\ Handling' = Handling
<1>1. \A n \in Range(queue) : EntryOf(n)' = EntryOf(n)
  BY DEF EntryOf
<1>2. EntryOf(current)' = EntryOf(current)
  BY DEF EntryOf
<1>3. Pending' = {EntryOf(n)' : n \in Range(queue)}
  BY DEF Pending
<1> QED BY <1>1, <1>2, <1>3 DEF Pending, Handling

\* The steps that DelayQueue does not see.
LEMMA StutterStep ==
  ASSUME Pending' = Pending, Handling' = Handling,
         now' = now, tickets' = tickets, mQuitting' = mQuitting
  PROVE  UNCHANGED DQ!vars
BY DEF DQ!vars, Pending, Handling

\* The clock is DelayQueue's clock.
LEMMA TickStep == ASSUME Inv, Tick PROVE DQ!Tick
<1>1. UNCHANGED <<queue, current, when, ticket, tickets, mQuitting>> /\ now' = now + 1
  BY DEF Tick, listVars, messageVars, looperVars, history
<1>2. Pending' = Pending /\ Handling' = Handling
  BY <1>1, EntriesKept
<1> QED BY <1>1, <1>2 DEF DQ!Tick, Pending, Handling

\* enqueueMessage posts an entry with the next ticket.
LEMMA EnqueueStep ==
  ASSUME Inv, NEW t \in Thread, EnqueueMessage(t)
  PROVE  \E e \in Pending' \ Pending : DQ!Post(e)
<1> DEFINE m == held[t]
           e == [message |-> m, when |-> at[t], ticket |-> tickets]
<1>1. /\ UNCHANGED <<now, mQuitting, current>> /\ ~ mQuitting
      /\ tickets' = tickets + 1
      /\ ticket' = [ticket EXCEPT ![m] = tickets] /\ when' = [when EXCEPT ![m] = at[t]]
      /\ pc[t] = "sending"
  BY DEF EnqueueMessage, Accepting
<1>2. PICK i \in 1 .. Len(queue) + 1 : queue' = InsertAt(queue, i, m)
  BY DEF EnqueueMessage
<1>3. m \in Message /\ m # None /\ m \notin Range(queue) /\ m # current
  <2>1. m \in Message /\ ~ inUse[m]
    BY <1>1 DEF EnqueueMessage, isInUse, Inv, TypeOK, Linked, Holding
  <2> HIDE DEF m
  <2> QED BY <2>1, MessageQueueAssumption DEF Inv, Linked, FlaggedInUse
<1>4. Range(queue') = Range(queue) \cup {m}
  BY <1>2, <1>3, ListFacts, InsertAtInjective
<1>5. at[t] \in Nat /\ tickets \in Nat
  BY DEF Inv, TypeOK
<1>6. /\ when'[m] = at[t] /\ ticket'[m] = tickets
      /\ \A n : n # m => when'[n] = when[n] /\ ticket'[n] = ticket[n]
  BY <1>1, <1>3 DEF Inv, TypeOK
<1> HIDE DEF m
<1>7. \A n : n = m => EntryOf(n)' = e
  BY <1>6 DEF EntryOf
<1>8. \A n \in Range(queue) : EntryOf(n)' = EntryOf(n)
  BY <1>3, <1>6 DEF EntryOf
<1>9. Pending' = Pending \cup {e}
  <2>1. Pending' = {EntryOf(n)' : n \in Range(queue')}
    BY DEF Pending
  <2>2. Pending' = {EntryOf(n)' : n \in Range(queue)} \cup {e}
    BY <1>4, <1>7, <2>1
  <2> QED BY <1>8, <2>2 DEF Pending
<1>10. \A f \in Pending : f.message # m
  BY <1>3 DEF Pending, EntryOf
<1>11. e.message = m /\ e.ticket = tickets /\ e \in DQ!Entry
  BY <1>3, <1>5 DEF DQ!Entry
<1> HIDE DEF e
<1>12. e \in Pending' \ Pending
  BY <1>9, <1>10, <1>11
<1>13. Handling' = Handling
  BY <1>1, <1>3, <1>6 DEF Handling, EntryOf
<1>14. DQ!Post(e)
  BY <1>1, <1>9, <1>10, <1>11, <1>13 DEF DQ!Post, Pending, Handling
<1> QED BY <1>12, <1>14

\* A traversal withdraws one entry per message that it unlinks.
LEMMA RecycleNextStep ==
  ASSUME Inv, RecycleNext
  PROVE  \E e \in Pending : DQ!Withdraw(e)
<1>1. PICK i \in 1 .. Len(queue) : Recycle(queue[i]) /\ queue' = RemoveAt(queue, i)
  <2>1. cursor \in Nat /\ Len(queue) \in Nat
    BY ListFacts DEF Inv, TypeOK
  <2>2. cursor + 1 \in 1 .. Len(queue) /\ Recycle(queue[cursor + 1])
    BY <2>1 DEF RecycleNext, IsNext
  <2> QED BY <2>2 DEF RecycleNext
<1> DEFINE m == queue[i]
           e == EntryOf(m)
<1>2. UNCHANGED <<now, mQuitting, current, tickets>>
  BY DEF RecycleNext, looperVars
<1>3. m \in Message /\ m \in Range(queue) /\ m \notin Range(pool) /\ m # current
  <2>1. m \in Message /\ m \in Range(queue)
    BY ListFacts
  <2> HIDE DEF m
  <2> QED BY <2>1 DEF Inv, Linked, LinkedOnce
<1>4. Range(queue') = Range(queue) \ {m}
  BY <1>1, ListFacts, RemoveAtInjective
<1> HIDE DEF m
<1>5. \A n : n # m => when'[n] = when[n] /\ ticket'[n] = ticket[n]
  <2>1. Recycle(m)
    BY <1>1 DEF m
  <2> QED BY <1>3, <2>1 DEF Recycle, Inv, TypeOK
<1>6. \A n \in Range(queue) \ {m} : EntryOf(n)' = EntryOf(n)
  BY <1>5 DEF EntryOf
<1>7. Pending' = Pending \ {e}
  <2>1. Pending' = {EntryOf(n)' : n \in Range(queue')}
    BY DEF Pending
  <2>2. Pending' = {EntryOf(n) : n \in Range(queue) \ {m}}
    BY <1>4, <1>6, <2>1
  <2>3. \A n \in Range(queue) : n # m => EntryOf(n) # e
    BY DEF EntryOf
  <2> HIDE DEF e
  <2>4. e = EntryOf(m)
    BY DEF e
  <2> QED BY <2>2, <2>3, <2>4 DEF Pending
<1>8. Handling' = Handling
  BY <1>2, <1>3, <1>5 DEF Handling, EntryOf
<1>9. e \in Pending
  BY <1>3 DEF Pending
<1>10. DQ!Withdraw(e)
  BY <1>2, <1>7, <1>8 DEF DQ!Withdraw, Pending, Handling
<1> QED BY <1>9, <1>10

\* dequeueMessage begins to handle the entry that precedes all others and is due.
LEMMA DequeueStep ==
  ASSUME Inv, DequeueMessage
  PROVE  \E e \in Pending : DQ!Handle(e)
<1> DEFINE m == queue[1]
           e == EntryOf(m)
<1>1. /\ looper = "ready" /\ ~ mQuitting /\ queue # <<>> /\ now >= when[m]
      /\ current' = m /\ queue' = Tail(queue)
      /\ UNCHANGED <<now, mQuitting, when, tickets, ticket>>
  BY DEF DequeueMessage, HeadIsDue, messageVars, history
<1>2. /\ m \in Message /\ m \in Range(queue) /\ Range(queue') = Range(queue) \ {m}
  BY <1>1, ListFacts, TailInjective
<1>3. current = None
  BY <1>1 DEF Inv, Stages
<1>4. \A n \in Range(queue) : n # m => Before(m, n)
  <2>1. SUFFICES ASSUME NEW n \in Range(queue), n # m PROVE Before(m, n)
    OBVIOUS
  <2>2. PICK j \in 1 .. Len(queue) : n = queue[j]
    BY ListFacts DEF Range
  <2>3. j > 1 /\ 1 \in 1 .. Len(queue)
    BY <2>1, <2>2, ListFacts
  <2> QED BY <2>2, <2>3 DEF Inv, QueueOrder
<1> HIDE DEF m
<1>5. \A n \in Range(queue) : n # m => DQ!Precedes(e, EntryOf(n))
  BY <1>4 DEF Before, EntryOf, DQ!Precedes
<1>6. \A n : EntryOf(n)' = EntryOf(n)
  BY <1>1 DEF EntryOf
<1>7. e.when = when[m] /\ e.message = m
  BY DEF EntryOf
<1> HIDE DEF e
<1>8. \A f \in Pending \ {e} : DQ!Precedes(e, f)
  BY <1>5 DEF Pending, e
<1>9. Pending' = Pending \ {e}
  <2>1. Pending' = {EntryOf(n) : n \in Range(queue) \ {m}}
    BY <1>2, <1>6 DEF Pending
  <2>2. \A n \in Range(queue) : n # m => EntryOf(n) # e
    BY DEF EntryOf, e
  <2>3. e = EntryOf(m)
    BY DEF e
  <2> QED BY <2>1, <2>2, <2>3 DEF Pending
<1>10. Handling' = e /\ Handling = None
  BY <1>1, <1>2, <1>3, <1>6, MessageQueueAssumption DEF Handling, e
<1>11. e \in Pending
  BY <1>2 DEF Pending, e
<1>12. when[m] \in Nat /\ now \in Nat
  BY <1>2 DEF Inv, TypeOK
<1>13. DQ!Handle(e)
  BY <1>1, <1>7, <1>8, <1>9, <1>10, <1>12 DEF DQ!Handle, Pending, Handling
<1> QED BY <1>11, <1>13

\* Recycling the message that was dispatched ends its handling.
LEMMA HandledStep == ASSUME Inv, RecycleDispatched PROVE DQ!Handled
<1>1. /\ Recycle(current) /\ current' = None /\ looper = "dispatched"
      /\ UNCHANGED <<now, queue, mQuitting, tickets>>
  BY DEF RecycleDispatched
<1>2. current \in Message /\ current # None /\ current \notin Range(queue)
  BY <1>1 DEF Inv, TypeOK, Stages, Linked, LinkedOnce
<1>3. \A n \in Range(queue) : EntryOf(n)' = EntryOf(n)
  BY <1>1, <1>2 DEF EntryOf, Recycle, Inv, TypeOK
<1>4. Pending' = Pending
  <2>1. Pending' = {EntryOf(n)' : n \in Range(queue)}
    BY <1>1 DEF Pending
  <2> QED BY <1>3, <2>1 DEF Pending
<1>5. Handling # None /\ Handling' = None
  <2>1. EntryOf(current) \in [message : Message, when : Nat, ticket : Nat]
    BY <1>2 DEF EntryOf, Inv, TypeOK
  <2> QED BY <1>1, <1>2, <2>1, MessageQueueAssumption DEF Handling
<1> QED BY <1>1, <1>4, <1>5 DEF DQ!Handled, Pending, Handling

\* Every step of the threads, the looper and the clock is one step of DelayQueue, or
\* one that it does not see.
LEMMA NextStep == ASSUME Inv, [Next]_vars PROVE [DQ!Next]_(DQ!vars)
<1>1. ASSUME UNCHANGED <<queue, current, when, ticket, now, tickets, mQuitting>>
      PROVE  UNCHANGED DQ!vars
  BY <1>1, EntriesKept, StutterStep
<1>2. CASE UNCHANGED vars
  BY <1>1, <1>2 DEF vars, listVars, messageVars, looperVars, history
<1>3. CASE Tick
  BY <1>3, TickStep DEF DQ!Next
<1>4. ASSUME NEW t \in Thread, Sender(t) PROVE [DQ!Next]_(DQ!vars)
  <2>1. CASE EnqueueMessage(t)
    BY <2>1, EnqueueStep DEF DQ!Next, Pending
  <2>2. CASE EnqueueRejected(t)
    <3>1. /\ Recycle(held[t]) /\ pc[t] = "sending"
          /\ UNCHANGED <<now, queue, mQuitting, current, tickets>>
      BY <2>2 DEF EnqueueRejected, looperVars
    <3>2. PICK m : m = held[t]
      OBVIOUS
    <3>3. m \in Message /\ m \notin Range(queue) /\ m # current
      <4>1. m \in Message /\ ~ inUse[m]
        BY <2>2, <3>1, <3>2 DEF EnqueueRejected, isInUse, Inv, TypeOK, Linked, Holding
      <4> QED BY <4>1 DEF Inv, Linked, FlaggedInUse
    <3>4. \A n : n # m => when'[n] = when[n] /\ ticket'[n] = ticket[n]
      BY <3>1, <3>2, <3>3 DEF Recycle, Inv, TypeOK
    <3>5. Pending' = Pending /\ Handling' = Handling
      BY <3>1, <3>3, <3>4, EntriesKept
    <3> QED BY <3>1, <3>5, StutterStep
  <2>3. CASE ~ (EnqueueMessage(t) \/ EnqueueRejected(t))
    <3>1. UNCHANGED <<queue, current, when, ticket, now, tickets, mQuitting>>
      BY <1>4, <2>3 DEF Sender, Obtain, SendMessageAtTime, SendMessageDelayed, Send, SendAgain,
                        Target, EnqueueThrows, listVars, messageVars, looperVars, history
    <3> QED BY <1>1, <3>1
  <2> QED BY <2>1, <2>2, <2>3
<1>5. ASSUME NEW t \in Thread, Remover(t) PROVE [DQ!Next]_(DQ!vars)
  <2>1. UNCHANGED <<queue, current, when, ticket, now, tickets>>
    BY <1>5 DEF Remover, Quit, RemoveMessages, RemoveCallbacks, RemoveCallbacksAndMessages,
                Begin, messageVars, looperVars, history
  <2>2. mQuitting' = TRUE \/ mQuitting' = mQuitting
    BY <1>5 DEF Remover, Quit, RemoveMessages, RemoveCallbacks, RemoveCallbacksAndMessages
  <2>3. CASE mQuitting' = TRUE
    <3>1. Pending' = Pending /\ Handling' = Handling
      BY <2>1, EntriesKept
    <3>2. DQ!Close
      BY <2>1, <2>3, <3>1 DEF DQ!Close, Pending, Handling
    <3> QED BY <3>2 DEF DQ!Next
  <2> QED BY <1>1, <2>1, <2>2, <2>3
<1>6. CASE RecycleNext
  BY <1>6, RecycleNextStep DEF DQ!Next, Pending
<1>7. CASE KeepNext \/ End
  BY <1>1, <1>7 DEF KeepNext, End, listVars, messageVars, looperVars, history
<1>8. CASE DequeueMessage
  BY <1>8, DequeueStep DEF DQ!Next, Pending
<1>9. CASE RecycleDispatched
  BY <1>9, HandledStep DEF DQ!Next
<1>10. CASE \/ DequeueNull \/ DequeueAwait \/ AwaitTimeout \/ DispatchMessage
            \/ DispatchCrashes \/ SpuriousWakeup
  <2>1. UNCHANGED <<queue, current, when, ticket, now, tickets, mQuitting>>
    BY <1>10 DEF DequeueNull, DequeueAwait, AwaitTimeout, DispatchMessage, DispatchCrashes,
                 SpuriousWakeup, listVars, messageVars, history
  <2> QED BY <1>1, <2>1
<1> QED BY <1>2, <1>3, <1>4, <1>5, <1>6, <1>7, <1>8, <1>9, <1>10 DEF Next, Looper

\* The list, the lock, the condition variable, the in-use flags and the pool together
\* implement the queue that callers are promised: entries are handled one at a time,
\* when due, in dispatch order, and none after quit().
THEOREM Refinement == Spec => ImplementsDelayQueue
<1>1. Init => DQ!Init
  <2> SUFFICES ASSUME Init PROVE DQ!Init
    OBVIOUS
  <2>1. Range(queue) = {}
    BY DEF Init, Range
  <2> QED BY <2>1 DEF Init, DQ!Init
<1>2. Inv /\ [Next]_vars => [DQ!Next]_(DQ!vars)
  BY NextStep
<1> QED BY <1>1, <1>2, Invariance, PTL DEF Spec, ImplementsDelayQueue, DQ!Spec

(***************************************************************************)
(* Which message a step moves, and where it was before.                    *)
(***************************************************************************)

\* A sender has a message; if it is not in use, it is linked nowhere.
LEMMA HeldFacts ==
  ASSUME Inv, NEW t \in Thread, pc[t] \in {"obtained", "sending"}
  PROVE  /\ held[t] \in Message /\ held[t] # None
         /\ ~ inUse[held[t]] =>
              held[t] \notin Range(queue) /\ held[t] \notin Range(pool) /\ held[t] # current
<1>1. PICK m : m = held[t]
  OBVIOUS
<1>2. m \in Message /\ m # None
  BY <1>1 DEF Inv, TypeOK, Linked, Holding
<1>3. ~ inUse[m] => m \notin Range(queue) /\ m \notin Range(pool) /\ m # current
  BY <1>2 DEF Inv, Linked, FlaggedInUse
<1> QED BY <1>1, <1>2, <1>3

\* Message::obtain hands out a message that is linked nowhere and, unless somebody
\* sends one again, that nobody has.
LEMMA ObtainFacts ==
  ASSUME Inv, NEW t \in Thread, Obtain(t)
  PROVE  \E m \in Message :
           /\ m \notin Range(queue) /\ m # current
           /\ HeldOnce => \A u \in Thread : held[u] # m
           /\ inUse' = [inUse EXCEPT ![m] = FALSE]
           /\ held' = [held EXCEPT ![t] = m]
<1>1. PICK m \in Message :
        /\ \/ pool # <<>> /\ m = Head(pool) /\ pool' = Tail(pool)
           \/ pool = <<>> /\ m \in Free /\ pool' = pool
        /\ inUse' = [inUse EXCEPT ![m] = FALSE]
        /\ held' = [held EXCEPT ![t] = m]
  BY DEF Obtain
<1>2. /\ m \notin Range(queue) /\ m # current
      /\ HeldOnce => \A u \in Thread : held[u] # m
  <2>1. CASE pool # <<>>
    <3>1. m \in Range(pool)
      BY <1>1, <2>1, TailInjective, ListFacts
    <3>2. inUse[m] /\ m # None
      BY <3>1, MessageQueueAssumption DEF Inv, Linked, FlaggedInUse
    <3> QED BY <3>1, <3>2 DEF Inv, Linked, LinkedOnce, HeldOnce
  <2>2. CASE pool = <<>>
    BY <1>1, <2>2 DEF Free
  <2> QED BY <2>1, <2>2
<1> QED BY <1>1, <1>2

\* enqueueMessage moves the sender's message, which was linked nowhere, into the list.
LEMMA EnqueueFacts ==
  ASSUME Inv, NEW t \in Thread, EnqueueMessage(t)
  PROVE  /\ held[t] \in Message /\ held[t] \notin Range(queue) /\ held[t] # current
         /\ Range(queue') = Range(queue) \cup {held[t]}
<1>1. PICK m : m = held[t]
  OBVIOUS
<1>2. PICK i \in 1 .. Len(queue) + 1 : queue' = InsertAt(queue, i, m)
  BY <1>1 DEF EnqueueMessage
<1>3. m \in Message /\ m \notin Range(queue) /\ m # current
  BY <1>1, HeldFacts DEF EnqueueMessage, isInUse
<1> QED BY <1>1, <1>2, <1>3, ListFacts, InsertAtInjective

\* A rejected message is linked nowhere.
LEMMA RejectedFacts ==
  ASSUME Inv, NEW t \in Thread, EnqueueRejected(t)
  PROVE  held[t] \in Message /\ held[t] \notin Range(queue) /\ held[t] # current
BY HeldFacts DEF EnqueueRejected, isInUse

\* A traversal takes the message it looks at out of the list.
LEMMA RecycleNextFacts ==
  ASSUME Inv, RecycleNext
  PROVE  \E m \in Range(queue) :
           /\ m \in Message /\ m # current
           /\ HeldOnce => \A u \in Thread : held[u] # m
           /\ Recycle(m) /\ Range(queue') = Range(queue) \ {m}
<1>1. PICK i \in 1 .. Len(queue) : Recycle(queue[i]) /\ queue' = RemoveAt(queue, i)
  <2>1. cursor \in Nat /\ Len(queue) \in Nat
    BY ListFacts DEF Inv, TypeOK
  <2>2. cursor + 1 \in 1 .. Len(queue) /\ Recycle(queue[cursor + 1])
    BY <2>1 DEF RecycleNext, IsNext
  <2> QED BY <2>2 DEF RecycleNext
<1>2. PICK m : m = queue[i]
  OBVIOUS
<1>3. m \in Message /\ m \in Range(queue) /\ Range(queue') = Range(queue) \ {m}
  BY <1>1, <1>2, ListFacts, RemoveAtInjective
<1>4. inUse[m] /\ m # None /\ m # current
  BY <1>3, MessageQueueAssumption DEF Inv, Linked, FlaggedInUse, LinkedOnce
<1>5. HeldOnce => \A u \in Thread : held[u] # m
  BY <1>4 DEF HeldOnce
<1> QED BY <1>1, <1>2, <1>3, <1>4, <1>5

\* dequeueMessage moves the head of the list, which is due, to the looper.
LEMMA DequeueFacts ==
  ASSUME Inv, DequeueMessage
  PROVE  /\ current = None /\ current' \in Message /\ current' \in Range(queue)
         /\ Range(queue') = Range(queue) \ {current'} /\ when[current'] <= now
<1>1. /\ looper = "ready" /\ queue # <<>> /\ now >= when[queue[1]]
      /\ current' = queue[1] /\ queue' = Tail(queue)
  BY DEF DequeueMessage, HeadIsDue
<1>2. /\ queue[1] \in Message /\ queue[1] \in Range(queue)
      /\ Range(queue') = Range(queue) \ {queue[1]}
  BY <1>1, ListFacts, TailInjective
<1>3. current = None
  BY <1>1 DEF Inv, Stages
<1>4. when[queue[1]] \in Nat /\ now \in Nat
  BY <1>2 DEF Inv, TypeOK
<1> QED BY <1>1, <1>2, <1>3, <1>4

\* The message that the looper dispatches is in use and linked nowhere.
LEMMA DispatchedFacts ==
  ASSUME Inv, looper \in {"dispatching", "dispatched"}
  PROVE  /\ current \in Message /\ current # None /\ current \notin Range(queue)
         /\ HeldOnce => \A u \in Thread : held[u] # current
<1>1. current \in Message /\ current # None /\ current \notin Range(queue)
  BY DEF Inv, TypeOK, Stages, Linked, LinkedOnce
<1>2. inUse[current]
  BY <1>1 DEF Inv, Linked, FlaggedInUse
<1> QED BY <1>1, <1>2 DEF HeldOnce

(***************************************************************************)
(* Ownership.  As long as no message is sent again, one sender has it.     *)
(***************************************************************************)
Alone == HeldOnce /\ Targeted

\* A step that recycles a message which no other sender has leaves the rest alone.
LEMMA RecycleAlone ==
  ASSUME Inv, Alone, NEW m \in Message, Recycle(m), Range(queue') \subseteq Range(queue) \ {m},
         \A t \in Thread : \/ held'[t] = None
                           \/ held'[t] = held[t] /\ held[t] # m /\ pc'[t] = pc[t],
         looper' = "dispatching" =>
           looper = "dispatching" /\ current' = current /\ current # m
  PROVE  Alone'
<1>1. \A n : n # m => inUse'[n] = inUse[n] /\ target'[n] = target[n]
  BY DEF Recycle, Inv, TypeOK
<1>2. HeldOnce'
  BY <1>1 DEF Alone, HeldOnce
<1>3. Targeted'
  BY <1>1 DEF Alone, Targeted
<1> QED BY <1>2, <1>3 DEF Alone

\* Every step but a repeated send keeps a message in one pair of hands.
LEMMA AloneStep ==
  ASSUME Inv, Alone, [Next]_vars, resends' = resends
  PROVE  Alone'
<1> USE MessageQueueAssumption
<1>1. ASSUME UNCHANGED <<inUse, target, pc, held, queue, looper, current>>
      PROVE  Alone'
  BY <1>1 DEF Alone, HeldOnce, Targeted
<1>2. CASE UNCHANGED vars \/ Tick \/ KeepNext
  BY <1>1, <1>2 DEF vars, Tick, KeepNext, listVars, messageVars, threadVars, looperVars
<1>3. ASSUME NEW t \in Thread, Sender(t) PROVE Alone'
  <2>1. CASE Obtain(t)
    <3>1. PICK m \in Message :
            /\ m \notin Range(queue) /\ m # current /\ \A u \in Thread : held[u] # m
            /\ inUse' = [inUse EXCEPT ![m] = FALSE]
            /\ held' = [held EXCEPT ![t] = m]
      BY <2>1, ObtainFacts DEF Alone
    <3>2. /\ pc' = [pc EXCEPT ![t] = "obtained"]
          /\ UNCHANGED <<target, queue, looper, current>>
      BY <2>1 DEF Obtain, looperVars
    <3>3. \A u \in Thread : /\ held'[u] = IF u = t THEN m ELSE held[u]
                            /\ pc'[u] = IF u = t THEN "obtained" ELSE pc[u]
                            /\ held[u] # None => held[u] \in Message
      BY <3>1, <3>2 DEF Inv, TypeOK
    <3>4. \A n \in Message : inUse'[n] = IF n = m THEN FALSE ELSE inUse[n]
      BY <3>1 DEF Inv, TypeOK
    <3>5. HeldOnce'
      <4>1. SUFFICES ASSUME NEW u \in Thread, held'[u] # None
                     PROVE  /\ ~ inUse'[held'[u]]
                            /\ pc'[u] = "sending" => target'[held'[u]] # None
                            /\ \A v \in Thread : held'[v] = held'[u] => v = u
        BY DEF HeldOnce
      <4>2. CASE u = t
        BY <3>1, <3>3, <3>4, <4>2
      <4>3. CASE u # t
        BY <3>1, <3>2, <3>3, <3>4, <4>1, <4>3 DEF Alone, HeldOnce
      <4> QED BY <4>2, <4>3
    <3>6. Targeted'
      BY <3>2 DEF Alone, Targeted
    <3> QED BY <3>5, <3>6 DEF Alone
  <2>2. ASSUME NEW c, NEW r, NEW h \in Handler, NEW w, NEW d, Send(t, c, r, h, w, d) PROVE Alone'
    <3>1. PICK m : m = held[t]
      OBVIOUS
    <3>2. /\ pc[t] = "obtained" /\ pc' = [pc EXCEPT ![t] = "sending"]
          /\ target' = [target EXCEPT ![m] = h]
          /\ UNCHANGED <<inUse, held, queue, looper, current>>
      BY <2>2, <3>1 DEF Send, Target, listVars, looperVars
    <3>3. m \in Message /\ m # None
      BY <3>1, <3>2, HeldFacts
    <3>4. \A n : target[n] # None => target'[n] # None
      BY <3>2, <3>3 DEF Inv, TypeOK
    <3>5. target'[m] # None
      BY <3>2, <3>3 DEF Inv, TypeOK
    <3>6. \A u \in Thread : pc'[u] = IF u = t THEN "sending" ELSE pc[u]
      BY <3>2 DEF Inv, TypeOK
    <3>7. HeldOnce'
      BY <3>1, <3>2, <3>4, <3>5, <3>6 DEF Alone, HeldOnce
    <3>8. Targeted'
      BY <3>2, <3>4 DEF Alone, Targeted
    <3> QED BY <3>7, <3>8 DEF Alone
  <2>3. CASE EnqueueMessage(t)
    <3>1. PICK m : m = held[t]
      OBVIOUS
    <3>2. /\ pc[t] = "sending" /\ inUse' = [inUse EXCEPT ![m] = TRUE]
          /\ pc' = [pc EXCEPT ![t] = "idle"] /\ held' = [held EXCEPT ![t] = None]
          /\ UNCHANGED <<target, current>> /\ (looper' = looper \/ looper' = "ready")
      BY <2>3, <3>1 DEF EnqueueMessage, Return, Signal, Wake
    <3>3. m \in Message /\ m # None /\ Range(queue') = Range(queue) \cup {m}
      BY <2>3, <3>1, <3>2, HeldFacts, EnqueueFacts
    <3>4. target[m] # None /\ \A u \in Thread : held[u] = m => u = t
      BY <3>1, <3>2, <3>3 DEF Alone, HeldOnce
    <3>5. \A u \in Thread : /\ held'[u] = IF u = t THEN None ELSE held[u]
                            /\ pc'[u] = IF u = t THEN "idle" ELSE pc[u]
                            /\ held[u] # None => held[u] \in Message
      BY <3>2 DEF Inv, TypeOK
    <3>6. \A n \in Message : n # m => inUse'[n] = inUse[n]
      BY <3>2 DEF Inv, TypeOK
    <3>7. HeldOnce'
      BY <3>2, <3>4, <3>5, <3>6 DEF Alone, HeldOnce
    <3>8. Targeted'
      BY <3>2, <3>3, <3>4 DEF Alone, Targeted
    <3> QED BY <3>7, <3>8 DEF Alone
  <2>4. CASE EnqueueRejected(t)
    <3>1. PICK m : m = held[t]
      OBVIOUS
    <3>2. /\ pc[t] = "sending" /\ Recycle(m) /\ UNCHANGED <<queue, looper, current>>
          /\ pc' = [pc EXCEPT ![t] = "idle"] /\ held' = [held EXCEPT ![t] = None]
      BY <2>4, <3>1 DEF EnqueueRejected, Return, looperVars
    <3>3. m \in Message /\ m # None /\ m \notin Range(queue) /\ m # current
      BY <2>4, <3>1, <3>2, HeldFacts, RejectedFacts
    <3>4. \A u \in Thread : held[u] = m => u = t
      BY <3>1, <3>3 DEF Alone, HeldOnce
    <3>5. \A u \in Thread : \/ held'[u] = None
                            \/ held'[u] = held[u] /\ held[u] # m /\ pc'[u] = pc[u]
      BY <3>2, <3>4 DEF Inv, TypeOK
    <3> QED BY <3>2, <3>3, <3>5, RecycleAlone
  <2>5. CASE EnqueueThrows(t)
    <3>1. held[t] # None /\ (inUse[held[t]] \/ target[held[t]] = None) /\ pc[t] = "sending"
      BY <2>5, HeldFacts DEF EnqueueThrows, isInUse
    <3> QED BY <3>1 DEF Alone, HeldOnce
  <2>6. CASE \E m \in Message, h \in Handler, w \in AtTime : SendAgain(t, m, h, w)
    <3>1. resends' = resends + 1 /\ resends \in Nat
      BY <2>6 DEF SendAgain, Inv, TypeOK
    <3> QED BY <3>1
  <2> QED BY <1>3, <2>1, <2>2, <2>3, <2>4, <2>5, <2>6
         DEF Sender, SendMessageAtTime, SendMessageDelayed
<1>4. ASSUME NEW t \in Thread, Remover(t) PROVE Alone'
  <2>1. /\ pc[t] = "idle" /\ pc' = [pc EXCEPT ![t] = "sweeping"]
        /\ UNCHANGED <<inUse, target, held, queue, looper, current>>
    BY <1>4 DEF Remover, Quit, RemoveMessages, RemoveCallbacks, RemoveCallbacksAndMessages,
                Begin, messageVars, looperVars
  <2>2. \A u \in Thread : pc'[u] = "sending" => pc[u] = "sending"
    BY <2>1 DEF Inv, TypeOK
  <2> QED BY <2>1, <2>2 DEF Alone, HeldOnce, Targeted
<1>5. CASE RecycleNext
  <2>1. PICK m \in Message :
          /\ m # current /\ \A u \in Thread : held[u] # m
          /\ Recycle(m) /\ Range(queue') = Range(queue) \ {m}
    BY <1>5, RecycleNextFacts DEF Alone
  <2>2. UNCHANGED <<pc, held, looper, current>>
    BY <1>5 DEF RecycleNext, threadVars, looperVars
  <2> QED BY <2>1, <2>2, RecycleAlone
<1>6. CASE End
  <2>1. /\ pc' = [pc EXCEPT ![sweep.by] = "idle"] /\ looper' \in {looper, "ready"}
        /\ UNCHANGED <<inUse, target, held, queue, current>>
    BY <1>6 DEF End, Signal, Wake, listVars, messageVars
  <2>2. \A u \in Thread : pc'[u] = "sending" => pc[u] = "sending"
    BY <2>1 DEF Inv, TypeOK
  <2> QED BY <2>1, <2>2 DEF Alone, HeldOnce, Targeted
<1>7. CASE DequeueMessage
  <2>1. UNCHANGED <<inUse, target, held, pc>>
    BY <1>7 DEF DequeueMessage, messageVars, threadVars
  <2> QED BY <1>7, <2>1, DequeueFacts DEF Alone, HeldOnce, Targeted
<1>8. CASE RecycleDispatched
  <2>1. /\ UNCHANGED <<queue, held, pc>> /\ looper = "dispatched" /\ Recycle(current)
        /\ looper' = "ready"
    BY <1>8 DEF RecycleDispatched, threadVars
  <2>2. PICK m : m = current
    OBVIOUS
  <2>3. m \in Message /\ m \notin Range(queue) /\ \A u \in Thread : held[u] # m
    BY <2>1, <2>2, DispatchedFacts DEF Alone
  <2> QED BY <2>1, <2>2, <2>3, RecycleAlone
<1>9. CASE DequeueNull \/ DequeueAwait \/ AwaitTimeout \/ SpuriousWakeup \/ DispatchMessage
           \/ DispatchCrashes
  <2>1. /\ looper' # "dispatching" /\ UNCHANGED <<inUse, target, pc, held, queue, current>>
    BY <1>9 DEF DequeueNull, DequeueAwait, AwaitTimeout, SpuriousWakeup, Wake, DispatchMessage,
                DispatchCrashes, listVars, messageVars, threadVars
  <2> QED BY <2>1 DEF Alone, HeldOnce, Targeted
<1> QED BY <1>2, <1>3, <1>4, <1>5, <1>6, <1>7, <1>8, <1>9 DEF Next, Looper

\* The counter of repeated sends only grows.
LEMMA ResendsGrow ==
  ASSUME Inv, [Next]_vars
  PROVE  resends \in Nat /\ (resends' = resends \/ resends' = resends + 1)
<1>1. resends \in Nat
  BY DEF Inv, TypeOK
<1>2. CASE UNCHANGED vars \/ Tick \/ KeepNext \/ RecycleNext \/ End
  <2>1. CASE UNCHANGED vars \/ Tick \/ KeepNext
    BY <1>1, <2>1 DEF vars, Tick, KeepNext, history
  <2>2. CASE RecycleNext
    BY <1>1, <2>2 DEF RecycleNext
  <2>3. CASE End
    BY <1>1, <2>3 DEF End
  <2> QED BY <1>2, <2>1, <2>2, <2>3
<1>3. ASSUME NEW t \in Thread, Sender(t) PROVE resends' = resends \/ resends' = resends + 1
  BY <1>3 DEF Sender, Obtain, SendMessageAtTime, SendMessageDelayed, Send, SendAgain,
              EnqueueMessage, EnqueueRejected, EnqueueThrows, history
<1>4. ASSUME NEW t \in Thread, Remover(t) PROVE resends' = resends
  BY <1>4 DEF Remover, Quit, RemoveMessages, RemoveCallbacks, RemoveCallbacksAndMessages,
              Begin, history
<1>5. CASE Looper \/ SpuriousWakeup
  <2>1. CASE RecycleDispatched
    BY <1>1, <2>1 DEF RecycleDispatched
  <2>2. CASE ~ RecycleDispatched
    BY <1>1, <1>5, <2>2 DEF Looper, SpuriousWakeup, DequeueNull, DequeueAwait, DequeueMessage,
                      AwaitTimeout, DispatchMessage, DispatchCrashes, history
  <2> QED BY <2>1, <2>2
<1> QED BY <1>1, <1>2, <1>3, <1>4, <1>5 DEF Next

\* The invariant, with the part that misuse may break.
OwnedInv == Inv /\ (resends = 0 => Alone)

\* A step after which no message was sent again starts in a state with none.
LEMMA NotResent ==
  ASSUME OwnedInv, [Next]_vars, resends' = 0
  PROVE  resends = 0 /\ resends' = resends /\ Alone /\ Inv
<1>1. resends \in Nat /\ (resends' = resends \/ resends' = resends + 1)
  BY ResendsGrow DEF OwnedInv
<1> QED BY <1>1 DEF OwnedInv

\* It holds in every reachable state.
THEOREM OwnedInvariance == Spec => []OwnedInv
<1>1. Init => OwnedInv
  <2>1. Init => Range(queue) = {}
    BY DEF Init, Range
  <2> QED BY <2>1, InitInv DEF OwnedInv, Init, Alone, HeldOnce, Targeted
<1>2. OwnedInv /\ [Next]_vars => OwnedInv'
  BY NextInv, NotResent, AloneStep DEF OwnedInv
<1> QED BY <1>1, <1>2, PTL DEF Spec

\* No Message object is ever linked in two places, whatever callers that kept their
\* pointers do between their unlocked write of the target and the test of the in-use
\* flag under mLock.  If none does, it has one owner at a time and always a target.
THEOREM OwnershipHolds == Spec => []Ownership
<1>1. OwnedInv => Ownership
  BY DEF OwnedInv, Inv, Linked, Alone, Ownership
<1> QED BY <1>1, OwnedInvariance, PTL

(***************************************************************************)
(* Promises.  What must be known beyond OwnedInv: a promise is only on a   *)
(* message that is past its send, so that a sender that fills in the       *)
(* message it has obtained covers none.                                    *)
(***************************************************************************)

\* Somebody still has to deal with the message.
Owned(m) == m \in Range(queue) \/ m = current \/ \E t \in Thread : held[t] = m

\* The message has been sent.
Sent(m) ==
  m \in Range(queue) \/ m = current \/ \E t \in Thread : held[t] = m /\ pc[t] = "sending"

Loaded == \A m \in Message : result[m] # None => Sent(m)

\* Every pending promise is on a message that somebody deals with.
Settled ==
  \A r \in Result : promise[r] = "pending" => \E m \in Message : result[m] = r /\ Owned(m)

\* Whoever recycles a message settles its promise first.
LEMMA RecycleSettles ==
  ASSUME Inv, Loaded, Settled, NEW m \in Message, Recycle(m),
         \A n \in Message \ {m} : (Owned(n) => Owned(n)') /\ (Sent(n) => Sent(n)')
  PROVE  Loaded' /\ Settled'
<1>1. \A n \in Message : n # m => result'[n] = result[n]
  BY DEF Recycle, Inv, TypeOK
<1>2. result'[m] = None
  BY DEF Recycle, Inv, TypeOK
<1>3. Loaded'
  BY <1>1, <1>2 DEF Loaded
<1>4. ASSUME NEW r \in Result, promise'[r] = "pending"
      PROVE  \E n \in Message : result'[n] = r /\ Owned(n)'
  <2>1. promise[r] = "pending" /\ result[m] # r
    BY <1>4, MessageQueueAssumption DEF Recycle, CancelResult, Inv, TypeOK
  <2>2. PICK n \in Message : result[n] = r /\ Owned(n)
    BY <2>1 DEF Settled
  <2> QED BY <1>1, <2>1, <2>2
<1>5. Settled'
  BY <1>4 DEF Settled
<1> QED BY <1>3, <1>5

\* No step leaves a pending promise on a message that nobody deals with.
LEMMA SettledStep ==
  ASSUME Inv, Alone, Loaded, Settled, [Next]_vars, resends' = resends
  PROVE  Loaded' /\ Settled'
<1> USE MessageQueueAssumption
<1>1. ASSUME UNCHANGED <<promise, result>>,
             \A n \in Message : (Owned(n) => Owned(n)') /\ (Sent(n) => Sent(n)')
      PROVE  Loaded' /\ Settled'
  BY <1>1 DEF Loaded, Settled
<1>2. ASSUME UNCHANGED <<promise, result, queue, current, held>>,
             \A u \in Thread : pc[u] = "sending" => pc'[u] = "sending"
      PROVE  Loaded' /\ Settled'
  BY <1>1, <1>2 DEF Owned, Sent
<1>3. CASE UNCHANGED vars \/ Tick \/ KeepNext
  BY <1>2, <1>3 DEF vars, Tick, KeepNext, listVars, messageVars, threadVars, looperVars
<1>4. ASSUME NEW t \in Thread, Sender(t) PROVE Loaded' /\ Settled'
  <2>1. CASE Obtain(t)
    <3>1. PICK m \in Message : held' = [held EXCEPT ![t] = m]
      BY <2>1, ObtainFacts
    <3>2. /\ UNCHANGED <<promise, result, queue, current>> /\ pc[t] = "idle"
          /\ pc' = [pc EXCEPT ![t] = "obtained"]
      BY <2>1 DEF Obtain, looperVars
    <3>3. held[t] = None
      BY <3>2 DEF Inv, Linked, Holding
    <3>4. \A u \in Thread : u # t => held'[u] = held[u] /\ pc'[u] = pc[u]
      BY <3>1, <3>2 DEF Inv, TypeOK
    <3>5. \A n \in Message : (Owned(n) => Owned(n)') /\ (Sent(n) => Sent(n)')
      BY <3>2, <3>3, <3>4 DEF Owned, Sent
    <3> QED BY <1>1, <3>2, <3>5
  <2>2. ASSUME NEW c, NEW r \in Result \cup {None}, NEW h, NEW w, NEW d, Send(t, c, r, h, w, d)
        PROVE  Loaded' /\ Settled'
    <3>1. PICK m : m = held[t]
      OBVIOUS
    <3>2. /\ pc[t] = "obtained" /\ pc' = [pc EXCEPT ![t] = "sending"]
          /\ result' = [result EXCEPT ![m] = r]
          /\ promise' = IF r = None THEN promise ELSE [promise EXCEPT ![r] = "pending"]
          /\ UNCHANGED <<held, queue, current>>
      BY <2>2, <3>1 DEF Send, Target, listVars, looperVars
    <3>3. m \in Message /\ ~ Sent(m)
      <4>1. m \in Message /\ ~ inUse[m] /\ \A u \in Thread : held[u] = m => u = t
        BY <3>1, <3>2, HeldFacts DEF Alone, HeldOnce
      <4>2. m \notin Range(queue) /\ m # current
        BY <3>1, <3>2, <4>1, HeldFacts
      <4> QED BY <3>2, <4>1, <4>2 DEF Sent
    <3>4. result[m] = None
      BY <3>3 DEF Loaded
    <3>5. \A n \in Message : (Owned(n) => Owned(n)') /\ (Sent(n) => Sent(n)')
      BY <3>2 DEF Owned, Sent, Inv, TypeOK
    <3>6. Owned(m)' /\ Sent(m)'
      BY <3>1, <3>2 DEF Owned, Sent, Inv, TypeOK
    <3>7. \A n \in Message : result'[n] = IF n = m THEN r ELSE result[n]
      BY <3>2 DEF Inv, TypeOK
    <3>8. Loaded'
      BY <3>5, <3>6, <3>7 DEF Loaded
    <3>9. ASSUME NEW q \in Result, promise'[q] = "pending"
          PROVE  \E n \in Message : result'[n] = q /\ Owned(n)'
      <4>1. CASE q = r
        BY <3>3, <3>6, <3>7, <4>1
      <4>2. CASE q # r
        <5>1. promise[q] = "pending"
          BY <3>2, <3>9, <4>2 DEF Inv, TypeOK
        <5>2. PICK n \in Message : result[n] = q /\ Owned(n)
          BY <5>1 DEF Settled
        <5> QED BY <3>4, <3>5, <3>7, <5>2
      <4> QED BY <4>1, <4>2
    <3>10. Settled'
      BY <3>9 DEF Settled
    <3> QED BY <3>8, <3>10
  <2>3. CASE EnqueueMessage(t)
    <3>1. /\ UNCHANGED <<promise, result, current>> /\ pc[t] = "sending"
          /\ held' = [held EXCEPT ![t] = None] /\ pc' = [pc EXCEPT ![t] = "idle"]
      BY <2>3 DEF EnqueueMessage, Return
    <3>2. Range(queue') = Range(queue) \cup {held[t]}
      BY <2>3, EnqueueFacts
    <3>3. \A n \in Message : (Owned(n) => Owned(n)') /\ (Sent(n) => Sent(n)')
      BY <3>1, <3>2 DEF Owned, Sent, Inv, TypeOK
    <3> QED BY <1>1, <3>1, <3>3
  <2>4. CASE EnqueueRejected(t)
    <3>1. /\ UNCHANGED <<queue, current>> /\ pc[t] = "sending" /\ Recycle(held[t])
          /\ held' = [held EXCEPT ![t] = None] /\ pc' = [pc EXCEPT ![t] = "idle"]
      BY <2>4 DEF EnqueueRejected, Return, looperVars
    <3>2. held[t] \in Message
      BY <3>1, HeldFacts
    <3>3. \A n \in Message \ {held[t]} : (Owned(n) => Owned(n)') /\ (Sent(n) => Sent(n)')
      BY <3>1 DEF Owned, Sent, Inv, TypeOK
    <3> QED BY <3>1, <3>2, <3>3, RecycleSettles
  <2>5. CASE EnqueueThrows(t)
    <3>1. held[t] # None /\ (inUse[held[t]] \/ target[held[t]] = None) /\ pc[t] = "sending"
      BY <2>5, HeldFacts DEF EnqueueThrows, isInUse
    <3> QED BY <3>1 DEF Alone, HeldOnce
  <2>6. CASE \E m \in Message, h \in Handler, w \in AtTime : SendAgain(t, m, h, w)
    <3>1. resends' = resends + 1 /\ resends \in Nat
      BY <2>6 DEF SendAgain, Inv, TypeOK
    <3> QED BY <3>1
  <2> QED BY <1>4, <2>1, <2>2, <2>3, <2>4, <2>5, <2>6
         DEF Sender, SendMessageAtTime, SendMessageDelayed
<1>5. ASSUME NEW t \in Thread, Remover(t) PROVE Loaded' /\ Settled'
  <2>1. /\ pc[t] = "idle" /\ pc' = [pc EXCEPT ![t] = "sweeping"]
        /\ UNCHANGED <<promise, result, queue, current, held>>
    BY <1>5 DEF Remover, Quit, RemoveMessages, RemoveCallbacks, RemoveCallbacksAndMessages,
                Begin, messageVars, looperVars
  <2>2. \A u \in Thread : pc[u] = "sending" => pc'[u] = "sending"
    BY <2>1 DEF Inv, TypeOK
  <2> QED BY <1>2, <2>1, <2>2
<1>6. CASE RecycleNext
  <2>1. PICK m \in Message : Recycle(m) /\ Range(queue') = Range(queue) \ {m}
    BY <1>6, RecycleNextFacts
  <2>2. UNCHANGED <<current, held, pc>>
    BY <1>6 DEF RecycleNext, threadVars, looperVars
  <2>3. \A n \in Message \ {m} : (Owned(n) => Owned(n)') /\ (Sent(n) => Sent(n)')
    BY <2>1, <2>2 DEF Owned, Sent
  <2> QED BY <2>1, <2>3, RecycleSettles
<1>7. CASE End
  <2>1. /\ pc' = [pc EXCEPT ![sweep.by] = "idle"] /\ sweep # None
        /\ UNCHANGED <<promise, result, queue, current, held>>
    BY <1>7 DEF End, LockFree, listVars, messageVars
  <2>2. sweep.by \in Thread /\ pc[sweep.by] = "sweeping"
    BY <2>1 DEF Inv, TypeOK, Stages, Request
  <2>3. \A u \in Thread : pc[u] = "sending" => pc'[u] = "sending"
    BY <2>1, <2>2 DEF Inv, TypeOK
  <2> QED BY <1>2, <2>1, <2>3
<1>8. CASE DequeueMessage
  <2>1. UNCHANGED <<promise, result, held, pc>>
    BY <1>8 DEF DequeueMessage, messageVars, threadVars
  <2>2. \A n \in Message : (Owned(n) => Owned(n)') /\ (Sent(n) => Sent(n)')
    BY <1>8, <2>1, DequeueFacts DEF Owned, Sent
  <2> QED BY <1>1, <2>1, <2>2
<1>9. CASE DispatchMessage
  <2>1. UNCHANGED <<queue, current, held, pc>> /\ looper = "dispatching"
    BY <1>9 DEF DispatchMessage, listVars, threadVars
  <2>2. CASE UNCHANGED <<promise, result>>
    BY <1>2, <2>1, <2>2
  <2>3. CASE /\ result[current] # None
             /\ promise' = [promise EXCEPT ![result[current]] = "completed"]
             /\ result' = [result EXCEPT ![current] = None]
    <3>1. current \in Message
      BY <2>1, DispatchedFacts
    <3>2. \A n \in Message : (Owned(n) => Owned(n)') /\ (Sent(n) => Sent(n)')
      BY <2>1 DEF Owned, Sent
    <3>3. \A n \in Message : result'[n] = IF n = current THEN None ELSE result[n]
      BY <2>3 DEF Inv, TypeOK
    <3>4. Loaded'
      BY <3>2, <3>3 DEF Loaded
    <3>5. ASSUME NEW q \in Result, promise'[q] = "pending"
          PROVE  \E n \in Message : result'[n] = q /\ Owned(n)'
      <4>1. promise[q] = "pending" /\ q # result[current]
        BY <2>3, <3>5 DEF Inv, TypeOK
      <4>2. PICK n \in Message : result[n] = q /\ Owned(n)
        BY <4>1 DEF Settled
      <4> QED BY <3>2, <3>3, <4>1, <4>2
    <3>6. Settled'
      BY <3>5 DEF Settled
    <3> QED BY <3>4, <3>6
  <2> QED BY <1>9, <2>2, <2>3 DEF DispatchMessage
<1>10. CASE RecycleDispatched
  <2>1. UNCHANGED <<queue, held, pc>> /\ looper = "dispatched" /\ Recycle(current)
    BY <1>10 DEF RecycleDispatched, threadVars
  <2>2. current \in Message
    BY <2>1, DispatchedFacts
  <2>3. \A n \in Message \ {current} : (Owned(n) => Owned(n)') /\ (Sent(n) => Sent(n)')
    BY <2>1 DEF Owned, Sent
  <2> QED BY <2>1, <2>2, <2>3, RecycleSettles
<1>11. CASE DequeueNull \/ DequeueAwait \/ AwaitTimeout \/ SpuriousWakeup \/ DispatchCrashes
  BY <1>2, <1>11 DEF DequeueNull, DequeueAwait, AwaitTimeout, SpuriousWakeup, DispatchCrashes,
                     listVars, messageVars, threadVars
<1> QED BY <1>3, <1>4, <1>5, <1>6, <1>7, <1>8, <1>9, <1>10, <1>11 DEF Next, Looper

\* No thread waits for a promise whose message is gone: recycling, quitting, removing,
\* rejecting and dispatching all leave it settled or still to be dealt with, as long as
\* no message is sent again.
THEOREM NoOrphanPromiseHolds == Spec => []NoOrphanPromise
<1> DEFINE I == resends = 0 => Loaded /\ Settled
<1>1. Init => I
  BY DEF Init, Loaded, Settled
<1>2. OwnedInv /\ I /\ [Next]_vars => I'
  BY NotResent, SettledStep
<1>3. I => NoOrphanPromise
  BY DEF NoOrphanPromise, Settled, Owned
<1> HIDE DEF I
<1> QED BY <1>1, <1>2, <1>3, OwnedInvariance, PTL DEF Spec

(***************************************************************************)
(* Delivery times.  The time asked for is kept from the sender's call to   *)
(* the dispatch if it fits the uint32_t parameter of sendMessageDelayed,   *)
(* also for a message that is sent again.                                  *)
(***************************************************************************)
Timely ==
  /\ \A t \in Thread : pc[t] = "sending" => asked[t] <= at[t]
  /\ \A m \in Message : m \in Range(queue) => due[m] <= when[m]
  /\ looper = "dispatching" => due[current] <= now

\* A step that recycles a message leaves the times of the others alone.
LEMMA RecycleTimely ==
  ASSUME Inv, Timely, NEW m \in Message, Recycle(m), m \notin Range(queue'),
         Range(queue') \subseteq Range(queue), now' = now,
         \A t \in Thread : pc'[t] = "sending" =>
           pc[t] = "sending" /\ asked'[t] = asked[t] /\ at'[t] = at[t],
         looper' = "dispatching" =>
           looper = "dispatching" /\ current' = current /\ current # m
  PROVE  Timely'
<1>1. \A n \in Message : n # m => due'[n] = due[n] /\ when'[n] = when[n]
  BY DEF Recycle, Inv, TypeOK
<1>2. looper = "dispatching" => current \in Message
  BY DispatchedFacts
<1>3. \A t \in Thread : pc'[t] = "sending" => asked'[t] <= at'[t]
  BY DEF Timely
<1>4. \A n \in Message : n \in Range(queue') => due'[n] <= when'[n]
  BY <1>1 DEF Timely
<1>5. looper' = "dispatching" => due'[current'] <= now'
  BY <1>1, <1>2 DEF Timely
<1> QED BY <1>3, <1>4, <1>5 DEF Timely

\* The senders compute no earlier a time than their callers ask for.
LEMMA TargetTimely ==
  ASSUME Inv, Timely, NEW t \in Thread, NEW m, NEW h, NEW w \in Nat, NEW d \in Nat,
         d <= w, Target(t, m, h, w, d)
  PROVE  Timely'
<1>1. /\ pc' = [pc EXCEPT ![t] = "sending"]
      /\ at' = [at EXCEPT ![t] = w] /\ asked' = [asked EXCEPT ![t] = d]
      /\ UNCHANGED <<now, queue, when, due, looper, current>>
  BY DEF Target, listVars, looperVars
<1>2. \A u \in Thread : pc'[u] = "sending" => asked'[u] <= at'[u]
  BY <1>1 DEF Timely, Inv, TypeOK
<1> QED BY <1>1, <1>2 DEF Timely

\* enqueueMessage gives the message the delivery time that its sender computed.
LEMMA EnqueueTimely ==
  ASSUME Inv, Timely, NEW t \in Thread, EnqueueMessage(t)
  PROVE  Timely'
<1>1. PICK m : m = held[t]
  OBVIOUS
<1>2. /\ pc[t] = "sending" /\ pc' = [pc EXCEPT ![t] = "idle"]
      /\ at' = [at EXCEPT ![t] = 0] /\ asked' = [asked EXCEPT ![t] = 0]
      /\ when' = [when EXCEPT ![m] = at[t]] /\ due' = [due EXCEPT ![m] = asked[t]]
      /\ UNCHANGED <<now, current>> /\ (looper' = looper \/ looper' = "ready")
  BY <1>1 DEF EnqueueMessage, Return, Signal, Wake
<1>3. m \in Message /\ m # current /\ Range(queue') = Range(queue) \cup {m} /\ asked[t] <= at[t]
  BY <1>1, <1>2, EnqueueFacts DEF Timely
<1>4. \A u \in Thread : pc'[u] = "sending" => asked'[u] <= at'[u]
  BY <1>2 DEF Timely, Inv, TypeOK
<1>5. \A n \in Message : n \in Range(queue') => due'[n] <= when'[n]
  BY <1>2, <1>3 DEF Timely, Inv, TypeOK
<1>6. looper' = "dispatching" => due'[current'] <= now'
  BY <1>2, <1>3 DEF Timely, Inv, TypeOK
<1> QED BY <1>4, <1>5, <1>6 DEF Timely

\* Every step keeps the times if no delay is truncated.
LEMMA TimelyStep ==
  ASSUME \A d \in Delay : d < DELAY_MOD, Inv, Timely, [Next]_vars
  PROVE  Timely'
<1>1. ASSUME UNCHANGED <<queue, current, at, asked, when, due>>, now' >= now,
             \A t \in Thread : pc'[t] = "sending" => pc[t] = "sending",
             looper' = "dispatching" => looper = "dispatching"
      PROVE  Timely'
  <2>1. now' >= now /\ now \in Nat /\ (looper = "dispatching" => due[current] \in Nat)
    BY <1>1, DispatchedFacts DEF Inv, TypeOK
  <2>2. now' \in Nat
    BY NextInv DEF Inv, TypeOK
  <2> QED BY <1>1, <2>1, <2>2 DEF Timely
<1>2. now \in Nat /\ pc \in [Thread -> {"idle", "obtained", "sending", "sweeping"}]
  BY DEF Inv, TypeOK
<1>3. CASE UNCHANGED vars \/ Tick \/ KeepNext
  BY <1>1, <1>2, <1>3 DEF vars, Tick, KeepNext, listVars, messageVars, threadVars, looperVars,
                          history
<1>4. ASSUME NEW t \in Thread, Sender(t) PROVE Timely'
  <2>1. CASE Obtain(t)
    <3>1. /\ UNCHANGED <<queue, current, at, asked, when, due, now, looper>>
          /\ pc' = [pc EXCEPT ![t] = "obtained"]
      BY <2>1 DEF Obtain, looperVars, history
    <3> QED BY <1>1, <1>2, <3>1
  <2>2. ASSUME NEW c, NEW r, NEW h, NEW w \in AtTime, SendMessageAtTime(t, c, r, h, w)
        PROVE  Timely'
    <3>1. Target(t, held[t], h, w, w) /\ w \in Nat
      BY <2>2, MessageQueueAssumption DEF SendMessageAtTime, Send
    <3> QED BY <3>1, TargetTimely
  <2>3. ASSUME NEW c, NEW r, NEW h, NEW d \in Delay, SendMessageDelayed(t, c, r, h, d)
        PROVE  Timely'
    <3>1. d \in Nat /\ d < DELAY_MOD /\ DELAY_MOD \in Nat \ {0}
      BY MessageQueueAssumption
    <3>2. d % DELAY_MOD = d
      BY <3>1
    <3>3. Target(t, held[t], h, now + d, now + d)
      BY <2>3, <3>2 DEF SendMessageDelayed, Send
    <3> QED BY <1>2, <3>1, <3>3, TargetTimely
  <2>4. CASE EnqueueMessage(t)
    BY <2>4, EnqueueTimely
  <2>5. CASE EnqueueRejected(t)
    <3>1. PICK m : m = held[t]
      OBVIOUS
    <3>2. /\ UNCHANGED <<queue, now, looper, current>> /\ Recycle(m)
          /\ pc' = [pc EXCEPT ![t] = "idle"]
          /\ at' = [at EXCEPT ![t] = 0] /\ asked' = [asked EXCEPT ![t] = 0]
      BY <2>5, <3>1 DEF EnqueueRejected, Return, looperVars
    <3>3. m \in Message /\ m \notin Range(queue) /\ m # current
      BY <2>5, <3>1, RejectedFacts
    <3>4. \A u \in Thread : pc'[u] = "sending" =>
            pc[u] = "sending" /\ asked'[u] = asked[u] /\ at'[u] = at[u]
      BY <3>2 DEF Inv, TypeOK
    <3> QED BY <3>2, <3>3, <3>4, RecycleTimely
  <2>6. CASE EnqueueThrows(t)
    <3>1. /\ UNCHANGED <<queue, current, when, due, now, looper>>
          /\ pc' = [pc EXCEPT ![t] = "idle"]
          /\ at' = [at EXCEPT ![t] = 0] /\ asked' = [asked EXCEPT ![t] = 0]
      BY <2>6 DEF EnqueueThrows, Return, listVars, messageVars, looperVars
    <3>2. \A u \in Thread : pc'[u] = "sending" =>
            pc[u] = "sending" /\ asked'[u] = asked[u] /\ at'[u] = at[u]
      BY <3>1 DEF Inv, TypeOK
    <3> QED BY <3>1, <3>2 DEF Timely
  <2>7. ASSUME NEW m, NEW h, NEW w \in AtTime, SendAgain(t, m, h, w) PROVE Timely'
    BY <2>7, TargetTimely, MessageQueueAssumption DEF SendAgain
  <2> QED BY <1>4, <2>1, <2>2, <2>3, <2>4, <2>5, <2>6, <2>7 DEF Sender
<1>5. ASSUME NEW t \in Thread, Remover(t) PROVE Timely'
  <2>1. /\ UNCHANGED <<queue, current, at, asked, when, due, now, looper>>
        /\ pc' = [pc EXCEPT ![t] = "sweeping"]
    BY <1>5 DEF Remover, Quit, RemoveMessages, RemoveCallbacks, RemoveCallbacksAndMessages,
                Begin, messageVars, looperVars, history
  <2> QED BY <1>1, <1>2, <2>1
<1>6. CASE RecycleNext
  <2>1. PICK m \in Message :
          Recycle(m) /\ Range(queue') = Range(queue) \ {m} /\ m # current
    BY <1>6, RecycleNextFacts
  <2>2. UNCHANGED <<current, at, asked, pc, now, looper>>
    BY <1>6 DEF RecycleNext, threadVars, looperVars
  <2> QED BY <2>1, <2>2, RecycleTimely
<1>7. CASE End
  <2>1. /\ UNCHANGED <<queue, current, at, asked, when, due, now>>
        /\ pc' = [pc EXCEPT ![sweep.by] = "idle"] /\ looper' \in {looper, "ready"}
    BY <1>7 DEF End, Signal, Wake, listVars, messageVars
  <2> QED BY <1>1, <1>2, <2>1
<1>8. CASE DequeueMessage
  <2>1. UNCHANGED <<at, asked, pc, now, when, due>> /\ looper' = "dispatching"
    BY <1>8 DEF DequeueMessage, messageVars, threadVars, history
  <2>2. PICK m : m = current'
    OBVIOUS
  <2>3. m \in Message /\ m \in Range(queue) /\ Range(queue') = Range(queue) \ {m} /\ when[m] <= now
    BY <1>8, <2>2, DequeueFacts
  <2>4. due[m] <= now
    BY <1>2, <2>3 DEF Timely, Inv, TypeOK
  <2> QED BY <2>1, <2>2, <2>3, <2>4 DEF Timely
<1>9. CASE RecycleDispatched
  <2>1. /\ UNCHANGED <<queue, at, asked, pc, now>> /\ looper = "dispatched" /\ Recycle(current)
        /\ looper' = "ready"
    BY <1>9 DEF RecycleDispatched, threadVars
  <2>2. current \in Message /\ current \notin Range(queue)
    BY <2>1, DispatchedFacts
  <2> QED BY <2>1, <2>2, RecycleTimely
<1>10. CASE \/ DequeueNull \/ DequeueAwait \/ AwaitTimeout \/ SpuriousWakeup
            \/ DispatchMessage \/ DispatchCrashes
  BY <1>1, <1>2, <1>10 DEF DequeueNull, DequeueAwait, AwaitTimeout, SpuriousWakeup, Wake,
                     DispatchMessage, DispatchCrashes, listVars, messageVars, threadVars, history
<1> QED BY <1>3, <1>4, <1>5, <1>6, <1>7, <1>8, <1>9, <1>10 DEF Next, Looper

\* No handler sees a message before the time its sender asked for, provided that the
\* delays fit into a uint32_t (sendMessageDelayed truncates those that do not).
THEOREM NeverEarlyHolds ==
  ASSUME \A d \in Delay : d < DELAY_MOD
  PROVE  Spec => []NeverEarly
<1>1. Init => Timely
  <2>1. Init => Range(queue) = {}
    BY DEF Init, Range
  <2> QED BY <2>1 DEF Init, Timely
<1>2. Inv /\ Timely /\ [Next]_vars => Timely'
  BY TimelyStep
<1>3. Inv /\ Timely => NeverEarly
  <2> SUFFICES ASSUME Inv, Timely, looper = "dispatching" PROVE now >= due[current]
    BY DEF NeverEarly
  <2>1. now \in Nat /\ due[current] \in Nat
    BY DispatchedFacts DEF Inv, TypeOK
  <2> QED BY <2>1 DEF Timely
<1> QED BY <1>1, <1>2, <1>3, Invariance, PTL DEF Spec

(***************************************************************************)
(* Removals.  barrier is the last removal that returned, with the number   *)
(* of messages accepted by then.  A traversal has removed the matches among*)
(* the messages that it has passed; the matches that lie ahead are still   *)
(* to come, and nothing is added while it holds mLock.                     *)
(***************************************************************************)
Gone ==
  barrier # None =>
    \A m \in Range(queue) : ticket[m] < barrier.ticket => ~ Matches(m, barrier.of)
BarrierBound == barrier # None => barrier.ticket <= tickets
Passed == sweep # None => \A j \in 1 .. cursor : ~ Matches(queue[j], sweep)
Removal == Gone /\ BarrierBound /\ Passed

\* A step that adds nothing to the list and keeps the fields of what is in it brings
\* no removed message back.
LEMMA ListShrinks ==
  ASSUME Inv, Gone, BarrierBound, UNCHANGED <<barrier, tickets>>,
         Range(queue') \subseteq Range(queue),
         \A n \in Range(queue') : /\ target'[n] = target[n] /\ content'[n] = content[n]
                                  /\ ticket'[n] = ticket[n]
  PROVE  Gone' /\ BarrierBound'
<1>1. \A n \in Range(queue') : Matches(n, barrier.of)' <=> Matches(n, barrier.of)
  BY DEF Matches
<1> QED BY <1>1 DEF Gone, BarrierBound

\* What is recycled is no longer in the list.
LEMMA RecycleShrinks ==
  ASSUME Inv, Gone, BarrierBound, NEW m \in Message, Recycle(m),
         UNCHANGED <<barrier, tickets>>,
         Range(queue') \subseteq Range(queue), m \notin Range(queue')
  PROVE  Gone' /\ BarrierBound'
<1>1. \A n : n # m => /\ target'[n] = target[n] /\ content'[n] = content[n]
                      /\ ticket'[n] = ticket[n]
  BY DEF Recycle, Inv, TypeOK
<1> QED BY <1>1, ListShrinks

\* What a traversal has passed does not come to match while the list stays.
LEMMA PassedKept ==
  ASSUME Inv, Passed, UNCHANGED <<queue, sweep, cursor>>,
         \A n \in Range(queue) : target'[n] = target[n] /\ content'[n] = content[n]
  PROVE  Passed'
<1>1. SUFFICES ASSUME sweep # None, NEW j \in 1 .. cursor PROVE ~ Matches(queue[j], sweep)'
  BY DEF Passed
<1>2. queue[j] \in Range(queue)
  <2>1. cursor \in Nat /\ Len(queue) \in Nat /\ cursor <= Len(queue)
    BY ListFacts DEF Inv, TypeOK, Cursor
  <2>2. j \in 1 .. Len(queue)
    BY <2>1
  <2> QED BY <2>2, ListFacts
<1>3. ~ Matches(queue[j], sweep)
  BY <1>1 DEF Passed
<1> QED BY <1>2, <1>3 DEF Matches

\* A step that holds no lock across steps passes nothing.
LEMMA NothingPassed == ASSUME sweep' = None \/ cursor' = 0 PROVE Passed'
BY DEF Passed

\* A traversal that unlinks the message it looks at still has the same ones behind it.
LEMMA RecycleNextPassed == ASSUME Inv, Passed, RecycleNext PROVE Passed'
<1>1. /\ cursor \in Nat /\ Len(queue) \in Nat /\ cursor < Len(queue)
      /\ queue' = RemoveAt(queue, cursor + 1) /\ UNCHANGED <<sweep, cursor>>
  BY ListFacts DEF RecycleNext, IsNext, sweepVars, Inv, TypeOK
<1>2. PICK i \in 1 .. Len(queue) : i = cursor + 1
  BY <1>1
<1>3. PICK m : m = queue[i]
  OBVIOUS
<1>4. Recycle(m) /\ m \in Message
  BY <1>2, <1>3, ListFacts DEF RecycleNext, IsNext
<1>5. \A j \in 1 .. Len(queue) - 1 : queue'[j] = IF j < i THEN queue[j] ELSE queue[j + 1]
  BY <1>1, <1>2, ListFacts, RemoveAtProperties
<1>6. SUFFICES ASSUME sweep # None, NEW j \in 1 .. cursor PROVE ~ Matches(queue[j], sweep)'
  BY <1>1 DEF Passed
<1>7. j \in 1 .. Len(queue) /\ j \in 1 .. Len(queue) - 1 /\ j < i /\ j # i
  BY <1>1, <1>2
<1>8. queue'[j] = queue[j] /\ queue[j] # m
  BY <1>3, <1>5, <1>7, ListFacts DEF IsInjective
<1>9. target'[queue[j]] = target[queue[j]] /\ content'[queue[j]] = content[queue[j]]
  BY <1>4, <1>8 DEF Recycle, Inv, TypeOK
<1>10. ~ Matches(queue[j], sweep)
  BY <1>6 DEF Passed
<1> QED BY <1>1, <1>8, <1>9, <1>10 DEF Matches

\* A message that the traversal passes does not match.
LEMMA KeepNextPassed == ASSUME Inv, Passed, KeepNext PROVE Passed'
<1>1. /\ cursor \in Nat /\ cursor' = cursor + 1 /\ ~ Matches(queue[cursor + 1], sweep)
      /\ UNCHANGED <<queue, sweep, target, content>>
  BY DEF KeepNext, IsNext, listVars, messageVars, Inv, TypeOK
<1>2. SUFFICES ASSUME sweep # None, NEW j \in 1 .. cursor + 1 PROVE ~ Matches(queue[j], sweep)'
  BY <1>1 DEF Passed
<1>3. ~ Matches(queue[j], sweep)
  <2>1. CASE j = cursor + 1
    BY <1>1, <2>1
  <2>2. CASE j # cursor + 1
    <3>1. j \in 1 .. cursor
      BY <1>1, <2>2
    <3> QED BY <1>2, <3>1 DEF Passed
  <2> QED BY <2>1, <2>2
<1> QED BY <1>1, <1>3 DEF Matches

\* Every step keeps the removed messages out if nobody sends a message again.
LEMMA RemovedStep ==
  ASSUME Inv, Alone, Removal, [Next]_vars, resends' = resends
  PROVE  Removal'
<1> USE MessageQueueAssumption DEF Removal
<1>1. ASSUME UNCHANGED <<queue, target, content, ticket, tickets, barrier, sweep, cursor>>
      PROVE  Removal'
  BY <1>1, ListShrinks, PassedKept
<1>2. CASE UNCHANGED vars \/ Tick
  BY <1>1, <1>2 DEF vars, Tick, listVars, messageVars, sweepVars, history
<1>3. ASSUME NEW t \in Thread, Sender(t) PROVE Removal'
  <2>1. CASE Obtain(t)
    BY <1>1, <2>1 DEF Obtain, sweepVars, history
  <2>2. ASSUME NEW c, NEW r, NEW h, NEW w, NEW d, Send(t, c, r, h, w, d) PROVE Removal'
    <3>1. PICK m : m = held[t]
      OBVIOUS
    <3>2. /\ pc[t] = "obtained" /\ target' = [target EXCEPT ![m] = h]
          /\ content' = [content EXCEPT ![m] = c]
          /\ UNCHANGED <<queue, ticket, tickets, barrier, sweep, cursor>>
      BY <2>2, <3>1 DEF Send, Target, listVars, sweepVars
    <3>3. m \notin Range(queue)
      BY <3>1, <3>2, HeldFacts DEF Alone, HeldOnce
    <3>4. \A n \in Range(queue) : target'[n] = target[n] /\ content'[n] = content[n]
      BY <3>2, <3>3 DEF Inv, TypeOK
    <3> QED BY <3>2, <3>4, ListShrinks, PassedKept
  <2>3. CASE EnqueueMessage(t)
    <3>1. PICK m : m = held[t]
      OBVIOUS
    <3>2. /\ UNCHANGED <<target, content, barrier, sweep>> /\ tickets' = tickets + 1
          /\ ticket' = [ticket EXCEPT ![m] = tickets] /\ sweep = None
      BY <2>3, <3>1 DEF EnqueueMessage, LockFree, sweepVars
    <3>3. m \in Message /\ m \notin Range(queue) /\ Range(queue') = Range(queue) \cup {m}
      BY <2>3, <3>1, EnqueueFacts
    <3>4. /\ ticket'[m] = tickets /\ tickets \in Nat
          /\ \A n \in Range(queue) : ticket'[n] = ticket[n]
      BY <3>2, <3>3 DEF Inv, TypeOK
    <3>5. \A n : Matches(n, barrier.of)' <=> Matches(n, barrier.of)
      BY <3>2 DEF Matches
    <3>6. barrier # None => barrier.ticket <= tickets /\ barrier.ticket \in Nat
      BY DEF BarrierBound, Inv, TypeOK
    <3>7. BarrierBound'
      BY <3>2, <3>4, <3>6 DEF BarrierBound
    <3>8. Gone'
      BY <3>2, <3>3, <3>4, <3>5, <3>6 DEF Gone
    <3> QED BY <3>2, <3>7, <3>8, NothingPassed
  <2>4. CASE EnqueueRejected(t)
    <3>1. UNCHANGED <<queue, tickets, barrier, sweep>> /\ sweep = None /\ Recycle(held[t])
      BY <2>4 DEF EnqueueRejected, LockFree, sweepVars
    <3> QED BY <2>4, <3>1, RejectedFacts, RecycleShrinks, NothingPassed
  <2>5. CASE EnqueueThrows(t)
    BY <1>1, <2>5 DEF EnqueueThrows, listVars, messageVars, sweepVars
  <2>6. CASE \E m \in Message, h \in Handler, w \in AtTime : SendAgain(t, m, h, w)
    <3>1. resends' = resends + 1 /\ resends \in Nat
      BY <2>6 DEF SendAgain, Inv, TypeOK
    <3> QED BY <3>1
  <2> QED BY <1>3, <2>1, <2>2, <2>3, <2>4, <2>5, <2>6
         DEF Sender, SendMessageAtTime, SendMessageDelayed
<1>4. ASSUME NEW t \in Thread, Remover(t) PROVE Removal'
  <2>1. cursor' = 0 /\ UNCHANGED <<queue, target, content, ticket, tickets, barrier>>
    BY <1>4 DEF Remover, Quit, RemoveMessages, RemoveCallbacks, RemoveCallbacksAndMessages,
                Begin, messageVars, history
  <2> QED BY <2>1, ListShrinks, NothingPassed
<1>5. CASE RecycleNext
  <2>1. PICK m \in Message : Recycle(m) /\ Range(queue') = Range(queue) \ {m}
    BY <1>5, RecycleNextFacts
  <2>2. UNCHANGED <<tickets, barrier>>
    BY <1>5 DEF RecycleNext
  <2> QED BY <1>5, <2>1, <2>2, RecycleShrinks, RecycleNextPassed
<1>6. CASE KeepNext
  <2>1. UNCHANGED <<queue, target, content, ticket, tickets, barrier>>
    BY <1>6 DEF KeepNext, listVars, messageVars, history
  <2> QED BY <1>6, <2>1, ListShrinks, KeepNextPassed
<1>7. CASE End
  <2>1. /\ UNCHANGED <<queue, target, content, ticket, tickets>>
        /\ cursor = Len(queue) /\ cursor' = 0 /\ sweep # None
    BY <1>7 DEF End, LockFree, listVars, messageVars
  <2>2. Gone' /\ BarrierBound'
    <3>1. CASE barrier' = barrier
      BY <2>1, <3>1, ListShrinks
    <3>2. CASE barrier' = None
      BY <3>2 DEF Gone, BarrierBound
    <3>3. CASE barrier' = [of |-> sweep, ticket |-> tickets]
      <4>1. \A n \in Range(queue) : ~ Matches(n, sweep)
        BY <2>1, ListFacts DEF Passed, Range
      <4>2. \A n : Matches(n, barrier.of)' <=> Matches(n, sweep)
        BY <2>1, <3>3 DEF Matches
      <4>3. Gone'
        BY <2>1, <3>3, <4>1, <4>2 DEF Gone
      <4>4. tickets \in Nat
        BY DEF Inv, TypeOK
      <4> QED BY <2>1, <3>3, <4>3, <4>4 DEF BarrierBound
    <3> QED BY <1>7, <3>1, <3>2, <3>3 DEF End
  <2> QED BY <2>1, <2>2, NothingPassed
<1>8. CASE DequeueMessage
  <2>1. UNCHANGED <<target, content, ticket, tickets, barrier, sweep>> /\ sweep = None
    BY <1>8 DEF DequeueMessage, LockFree, messageVars, sweepVars, history
  <2> QED BY <1>8, <2>1, DequeueFacts, ListShrinks, NothingPassed
<1>9. CASE RecycleDispatched
  <2>1. /\ UNCHANGED <<queue, tickets, barrier, sweep, cursor>> /\ looper = "dispatched"
        /\ Recycle(current)
    BY <1>9 DEF RecycleDispatched, sweepVars
  <2>2. current \in Message /\ current \notin Range(queue)
    BY <2>1, DispatchedFacts
  <2>3. \A n \in Range(queue) : target'[n] = target[n] /\ content'[n] = content[n]
    BY <2>1, <2>2 DEF Recycle, Inv, TypeOK
  <2> QED BY <2>1, <2>2, <2>3, RecycleShrinks, PassedKept
<1>10. CASE \/ DequeueNull \/ DequeueAwait \/ AwaitTimeout \/ SpuriousWakeup
            \/ DispatchMessage \/ DispatchCrashes
  BY <1>1, <1>10 DEF DequeueNull, DequeueAwait, AwaitTimeout, SpuriousWakeup, DispatchMessage,
                     DispatchCrashes, listVars, messageVars, sweepVars, history
<1> QED BY <1>2, <1>3, <1>4, <1>5, <1>6, <1>7, <1>8, <1>9, <1>10 DEF Next, Looper

\* The traversals of removeMessages, removeCallbacks and removeCallbacksAndMessages skip
\* no message: once one has returned, no message that it asked for and that was accepted
\* before is in the list, and none comes back, as long as no caller sends a message again
\* (that assigns a target to a message in the list, which then may match after all).
THEOREM RemovedIsGoneHolds == Spec => []RemovedIsGone
<1> DEFINE I == resends = 0 => Removal
<1>1. Init => I
  BY DEF Init, Removal, Gone, BarrierBound, Passed
<1>2. OwnedInv /\ I /\ [Next]_vars => I'
  BY NotResent, RemovedStep
<1>3. I => RemovedIsGone
  BY DEF Removal, Gone, RemovedIsGone
<1> HIDE DEF I
<1> QED BY <1>1, <1>2, <1>3, OwnedInvariance, PTL DEF Spec
=============================================================================
