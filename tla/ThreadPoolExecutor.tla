------------------------- MODULE ThreadPoolExecutor -------------------------
(***************************************************************************)
(* util/concurrent/ThreadPoolExecutor and the LinkedBlockingQueue that its *)
(* workers share: callers put and cancel runnables, mSize workers take and *)
(* run them, and shutdown() (or the destructor) interrupts each worker,    *)
(* puts one null runnable per worker and joins them in turn.  A step is    *)
(* one hold of the queue's lock or one access of an atomic flag.           *)
(***************************************************************************)
EXTENDS Integers, Sequences, FiniteSets

CONSTANTS
  mSize,      \* number of workers
  Runnable,   \* runnables that callers submit
  Nullptr,    \* the null runnable that ends a worker
  MaxPuts     \* bound: how often one runnable is submitted

ASSUME ThreadPoolAssumption ==
  /\ mSize \in Nat /\ MaxPuts \in Nat
  /\ Nullptr \notin Runnable

Worker == 1 .. mSize

VARIABLES
  queue,        \* items from mHeadNode on
  pc,           \* per worker: where WorkerThread::run is
  item,         \* per worker: what take() returned
  interrupted,  \* per worker: Thread::mInterrupted
  shutdown,     \* where shutdown() is: its loop, and
  next          \* the worker its loop has come to

\* History: submissions of a runnable, and what became of them.
VARIABLES puts, started, cancelled

queueVars == <<queue, pc, item>>
history   == <<puts, started, cancelled>>
vars == <<queueVars, interrupted, shutdown, next, history>>

Init ==
  /\ queue = <<>>
  /\ pc = [w \in Worker |-> "check"] /\ item = [w \in Worker |-> Nullptr]
  /\ interrupted = [w \in Worker |-> FALSE]
  /\ shutdown = "idle" /\ next = 1
  /\ puts = [r \in Runnable |-> 0] /\ started = [r \in Runnable |-> 0]
  /\ cancelled = [r \in Runnable |-> 0]

Waiting == {w \in Worker : pc[w] = "waiting"}
Takers  == {w \in Worker : pc[w] = "take"}
Live    == {w \in Worker : pc[w] # "done"}
Places(x) == {i \in 1 .. Len(queue) : queue[i] = x}

\* Variant: only the put that finds the queue empty signals.
PutSignalsIfEmpty(x) ==
  /\ queue' = Append(queue, x)
  /\ IF queue # <<>> \/ Waiting = {} THEN UNCHANGED pc
     ELSE \E w \in Waiting : pc' = [pc EXCEPT ![w] = "take"]

\* LinkedBlockingQueue::put appends and wakes one waiting worker, if any.
Put(x) ==
  /\ queue' = Append(queue, x)
  /\ IF Waiting = {} THEN UNCHANGED pc
     ELSE \E w \in Waiting : pc' = [pc EXCEPT ![w] = "take"]

Execute(r) ==
  /\ puts[r] < MaxPuts
  /\ Put(r)
  /\ puts' = [puts EXCEPT ![r] = @ + 1]
  /\ UNCHANGED <<item, interrupted, shutdown, next, started, cancelled>>

\* Variant: the traversal stops after the matches at the front of the queue.
RemoveFront(r) ==
  /\ Places(r) # {}
  /\ queue' = IF queue[1] = r THEN Tail(queue) ELSE queue
  /\ cancelled' = [cancelled EXCEPT ![r] = @ + Cardinality(Places(r))]

\* The places of the queue other than those of r, and the k-th of a set of places.
Others(r) == 1 .. Len(queue) \ Places(r)
Nth(P, k) == CHOOSE i \in P : Cardinality({j \in P : j <= i}) = k

\* LinkedBlockingQueue::remove drops every occurrence and keeps the rest in order
\* (a call that finds none changes nothing).
RemoveItem(r) ==
  /\ Places(r) # {}
  /\ queue' = [k \in 1 .. Cardinality(Others(r)) |-> queue[Nth(Others(r), k)]]
  /\ cancelled' = [cancelled EXCEPT ![r] = @ + Cardinality(Places(r))]

Cancel(r) ==
  /\ RemoveItem(r)
  /\ UNCHANGED <<pc, item, interrupted, shutdown, next, puts, started>>

(***************************************************************************)
(* WorkerThread::run.                                                      *)
(***************************************************************************)
\* while (!isInterrupted())
Check(w) ==
  /\ pc[w] = "check"
  /\ pc' = [pc EXCEPT ![w] = IF interrupted[w] THEN "done" ELSE "take"]
  /\ UNCHANGED <<queue, item, interrupted, shutdown, next, history>>

\* take(): remove the head, or wait for a signal and try again.
TakeAwait(w) ==
  /\ pc[w] = "take" /\ queue = <<>>
  /\ pc' = [pc EXCEPT ![w] = "waiting"]
  /\ UNCHANGED <<queue, item, interrupted, shutdown, next, history>>

TakeItem(w) ==
  /\ pc[w] = "take" /\ queue # <<>>
  /\ item' = [item EXCEPT ![w] = Head(queue)]
  /\ queue' = Tail(queue)
  /\ pc' = [pc EXCEPT ![w] = "taken"]
  /\ UNCHANGED <<interrupted, shutdown, next, history>>

SpuriousWakeup(w) ==
  /\ pc[w] = "waiting"
  /\ pc' = [pc EXCEPT ![w] = "take"]
  /\ UNCHANGED <<queue, item, interrupted, shutdown, next, history>>

\* Variant: a worker that takes a null runnable goes round its loop again.
RunSkippingNull(w) ==
  /\ pc[w] = "taken"
  /\ IF item[w] # Nullptr
     THEN started' = [started EXCEPT ![item[w]] = @ + 1]
     ELSE UNCHANGED started
  /\ pc' = [pc EXCEPT ![w] = "check"]
  /\ item' = [item EXCEPT ![w] = Nullptr]
  /\ UNCHANGED <<queue, interrupted, shutdown, next, puts, cancelled>>

\* Run the runnable, or leave the loop if it is null.
Run(w) ==
  /\ pc[w] = "taken"
  /\ IF item[w] # Nullptr
     THEN /\ started' = [started EXCEPT ![item[w]] = @ + 1]
          /\ pc' = [pc EXCEPT ![w] = "check"]
     ELSE /\ pc' = [pc EXCEPT ![w] = "done"] /\ UNCHANGED started
  /\ item' = [item EXCEPT ![w] = Nullptr]
  /\ UNCHANGED <<queue, interrupted, shutdown, next, puts, cancelled>>

(***************************************************************************)
(* shutdown(): interrupt worker i and put a null runnable, for every i;    *)
(* then join worker i, for every i.                                        *)
(***************************************************************************)
Begin ==
  /\ shutdown = "idle"
  /\ shutdown' = "interrupt"
  /\ UNCHANGED <<queueVars, interrupted, next, history>>

Interrupt ==
  /\ shutdown = "interrupt" /\ next <= mSize
  /\ interrupted' = [interrupted EXCEPT ![next] = TRUE]
  /\ shutdown' = "put"
  /\ UNCHANGED <<queueVars, next, history>>

\* Variant: the worker that will take the null runnable is thought to be gone.
PutNullUnlessDone ==
  /\ shutdown = "put"
  /\ IF pc[next] \in {"done", "check"} THEN UNCHANGED <<queue, pc>> ELSE Put(Nullptr)
  /\ next' = next + 1 /\ shutdown' = "interrupt"
  /\ UNCHANGED <<item, interrupted, history>>

PutNull ==
  /\ shutdown = "put"
  /\ Put(Nullptr)
  /\ next' = next + 1 /\ shutdown' = "interrupt"
  /\ UNCHANGED <<item, interrupted, history>>

BeginJoin ==
  /\ shutdown = "interrupt" /\ next > mSize
  /\ shutdown' = "join" /\ next' = 1
  /\ UNCHANGED <<queueVars, interrupted, history>>

Join ==
  /\ shutdown = "join" /\ next <= mSize
  /\ pc[next] = "done"
  /\ next' = next + 1
  /\ UNCHANGED <<queueVars, interrupted, shutdown, history>>

EndJoin ==
  /\ shutdown = "join" /\ next > mSize
  /\ shutdown' = "done"
  /\ UNCHANGED <<queueVars, interrupted, next, history>>

WorkerStep(w) == Check(w) \/ TakeAwait(w) \/ TakeItem(w) \/ Run(w)
Shutdown == Begin \/ Interrupt \/ PutNull \/ BeginJoin \/ Join \/ EndJoin

Next ==
  \/ \E r \in Runnable : Execute(r) \/ Cancel(r)
  \/ \E w \in Worker : WorkerStep(w) \/ SpuriousWakeup(w)
  \/ Shutdown

Spec == Init /\ [][Next]_vars

\* Every worker is scheduled and the runnables it runs return; whoever called
\* shutdown() goes on with it, but nobody has to call it.
FairSpec ==
  /\ Spec
  /\ \A w \in Worker : WF_vars(WorkerStep(w))
  /\ WF_vars(Interrupt \/ PutNull \/ BeginJoin \/ Join \/ EndJoin)

-----------------------------------------------------------------------------
\* Every variable holds a value of its kind.
TypeOK ==
  /\ queue \in Seq(Runnable \cup {Nullptr})
  /\ pc \in [Worker -> {"check", "take", "waiting", "taken", "done"}]
  /\ item \in [Worker -> Runnable \cup {Nullptr}]
  /\ interrupted \in [Worker -> BOOLEAN]
  /\ shutdown \in {"idle", "interrupt", "put", "join", "done"}
  /\ next \in 1 .. mSize + 1
  /\ puts \in [Runnable -> Nat] /\ started \in [Runnable -> Nat]
  /\ cancelled \in [Runnable -> Nat]

\* No lost wakeup: while some worker sleeps, each item in the queue has a worker
\* of its own that is awake and on its way to take it.
NoLostWakeup == Waiting # {} => Len(queue) <= Cardinality(Takers)

\* Every submission is accounted for: it is in the queue, was cancelled, is in
\* the hands of one worker, or was started, exactly once.
Accounted ==
  \A r \in Runnable :
    puts[r] = started[r] + cancelled[r] + Cardinality(Places(r))
              + Cardinality({w \in Worker : item[w] = r})

\* Null runnables put, and those shutdown() has still to put.
NullsToPut ==
  CASE shutdown = "idle"      -> mSize
    [] shutdown = "interrupt" -> mSize - next + 1
    [] shutdown = "put"       -> mSize - next + 1
    [] OTHER                  -> 0

\* There is a null runnable for every worker that has not ended, including those
\* that will end without taking theirs because they see the interrupt first.
EnoughNulls ==
  Cardinality({w \in Live : pc[w] # "taken" \/ item[w] # Nullptr})
    <= Cardinality(Places(Nullptr)) + NullsToPut

\* shutdown() returns: join never waits for a worker that sleeps in take().
ShutdownReturns == shutdown # "idle" ~> shutdown = "done"
=============================================================================
