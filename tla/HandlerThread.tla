--------------------------- MODULE HandlerThread ---------------------------
(***************************************************************************)
(* os/HandlerThread on top of lang/Thread: one thread is started, prepares *)
(* its looper and loops until it is told to quit, while callers ask it for *)
(* its looper, tell it to quit and join it.  mSelf, which isAlive() reads, *)
(* is written without mLock.  Of the looper only its quitting flag matters *)
(* here (module MessageQueue is about the rest), and of the promise that   *)
(* join() waits for, whether it is complete.                               *)
(***************************************************************************)
EXTENDS Integers

CONSTANTS
  Caller,      \* threads that use the HandlerThread
  None,        \* nobody, and nothing
  CreateFails  \* may pthread_create fail?

ASSUME HandlerThreadAssumption == None \notin Caller /\ CreateFails \in BOOLEAN

VARIABLES
  mSelf,       \* Thread::mSelf # nullptr: the thread is alive
  mExecution,  \* Thread::mExecution: None, "pending" or "complete"
  mLooper,     \* HandlerThread::mLooper # nullptr
  quitting,    \* the looper has been told to quit
  starting,    \* the caller inside Thread::start
  thread,      \* what the thread itself is doing
  mLock,       \* owner of HandlerThread::mLock
  pc, op,      \* per caller: progress of, and which of, getLooper and quit, or join
  answer       \* per caller: what its last finished call returned

callVars == <<pc, op, answer>>
vars == <<mSelf, mExecution, mLooper, quitting, starting, thread, mLock, callVars>>

Init ==
  /\ mSelf = FALSE /\ mExecution = None /\ mLooper = FALSE /\ quitting = FALSE
  /\ starting = None /\ thread = "none" /\ mLock = None
  /\ pc = [c \in Caller |-> "idle"] /\ op = [c \in Caller |-> None]
  /\ answer = [c \in Caller |-> None]

Go(c, to) == pc' = [pc EXCEPT ![c] = to]

(***************************************************************************)
(* Thread::start, by one caller at a time: nothing is locked here.  A      *)
(* second call does nothing.                                               *)
(***************************************************************************)
Start(c) ==
  /\ pc[c] = "idle" /\ starting = None /\ mExecution = None
  /\ mSelf' = TRUE
  /\ starting' = c /\ Go(c, "execution")
  /\ UNCHANGED <<mExecution, mLooper, quitting, thread, mLock, op, answer>>

SetExecution(c) ==
  /\ pc[c] = "execution"
  /\ mExecution' = "pending" /\ Go(c, "create")
  /\ UNCHANGED <<mSelf, mLooper, quitting, starting, thread, mLock, op, answer>>

Create(c) ==
  /\ pc[c] = "create"
  /\ \/ thread' = "created" /\ starting' = None /\ Go(c, "idle") /\ UNCHANGED mSelf
     \/ CreateFails /\ mSelf' = FALSE /\ Go(c, "failed") /\ UNCHANGED <<starting, thread>>
  /\ UNCHANGED <<mExecution, mLooper, quitting, mLock, op, answer>>

CreateFailed(c) ==
  /\ pc[c] = "failed"
  /\ mExecution' = "complete" /\ starting' = None /\ Go(c, "idle")
  /\ UNCHANGED <<mSelf, mLooper, quitting, thread, mLock, op, answer>>

(***************************************************************************)
(* The thread: HandlerThread::run inside Thread::exec.                     *)
(***************************************************************************)
\* Variant: nobody is told that there is a looper now.
PrepareLooperSilently ==
  /\ thread = "created" /\ mLock = None
  /\ mLooper' = TRUE
  /\ thread' = "looping"
  /\ UNCHANGED <<mSelf, mExecution, quitting, starting, mLock, callVars>>

PrepareLooper ==
  /\ thread = "created" /\ mLock = None
  /\ mLooper' = TRUE
  /\ pc' = [c \in Caller |-> IF pc[c] = "await" THEN "woken" ELSE pc[c]]
  /\ thread' = "looping"
  /\ UNCHANGED <<mSelf, mExecution, quitting, starting, mLock, op, answer>>

LoopEnds ==
  /\ thread = "looping" /\ quitting
  /\ thread' = "looped"
  /\ UNCHANGED <<mSelf, mExecution, mLooper, quitting, starting, mLock, callVars>>

ClearSelf ==
  /\ thread = "looped"
  /\ mSelf' = FALSE /\ thread' = "cleared"
  /\ UNCHANGED <<mExecution, mLooper, quitting, starting, mLock, callVars>>

\* Variant: the execution is completed only if somebody can still be waiting.
CompleteIfAlive ==
  /\ thread = "cleared"
  /\ mExecution' = IF mSelf THEN "complete" ELSE mExecution
  /\ thread' = "ended"
  /\ UNCHANGED <<mSelf, mLooper, quitting, starting, mLock, callVars>>

Complete ==
  /\ thread = "cleared"
  /\ mExecution' = "complete" /\ thread' = "ended"
  /\ UNCHANGED <<mSelf, mLooper, quitting, starting, mLock, callVars>>

(***************************************************************************)
(* getLooper, also as the first half of quit.                              *)
(***************************************************************************)
Call(c, o) ==
  /\ pc[c] = "idle"
  /\ op' = [op EXCEPT ![c] = o]
  /\ answer' = [answer EXCEPT ![c] = None]
  /\ Go(c, "lock")
  /\ UNCHANGED <<mSelf, mExecution, mLooper, quitting, starting, thread, mLock>>

Answer(c, a) == answer' = [answer EXCEPT ![c] = a]

\* The call that got looper l (or null) from getLooper is finished, or goes on
\* to Looper::quit.
Got(c, l) ==
  /\ IF l /\ op[c] = "quit"
     THEN Go(c, "quit") /\ UNCHANGED answer
     ELSE Go(c, "idle") /\ Answer(c, IF l THEN "looper" ELSE "null")
  /\ mLock' = None
  /\ UNCHANGED op

GetLooper(c) ==
  /\ pc[c] = "lock" /\ mLock = None
  /\ IF mSelf
     THEN Go(c, "check") /\ mLock' = c /\ UNCHANGED <<op, answer>>
     ELSE Got(c, FALSE)
  /\ UNCHANGED <<mSelf, mExecution, mLooper, quitting, starting, thread>>

AwaitLooper(c) ==
  /\ pc[c] = "check"
  /\ mSelf /\ ~ mLooper
  /\ Go(c, "await") /\ mLock' = None
  /\ UNCHANGED <<mSelf, mExecution, mLooper, quitting, starting, thread, op, answer>>

ReturnLooper(c) ==
  /\ pc[c] = "check"
  /\ ~ mSelf \/ mLooper
  /\ Got(c, mLooper)
  /\ UNCHANGED <<mSelf, mExecution, mLooper, quitting, starting, thread>>

SpuriousWakeup(c) ==
  /\ pc[c] = "await"
  /\ Go(c, "woken")
  /\ UNCHANGED <<mSelf, mExecution, mLooper, quitting, starting, thread, mLock, op, answer>>

Relock(c) ==
  /\ pc[c] = "woken" /\ mLock = None
  /\ Go(c, "check") /\ mLock' = c
  /\ UNCHANGED <<mSelf, mExecution, mLooper, quitting, starting, thread, op, answer>>

\* looper->quit(), which the loop sees whenever it comes to it.
Quit(c) ==
  /\ pc[c] = "quit"
  /\ quitting' = TRUE
  /\ Go(c, "idle") /\ Answer(c, "quit")
  /\ UNCHANGED <<mSelf, mExecution, mLooper, starting, thread, mLock, op>>

\* Thread::join, once the thread was started: wait for the execution.
CallJoin(c) ==
  /\ pc[c] = "idle" /\ thread # "none"
  /\ Go(c, "join")
  /\ op' = [op EXCEPT ![c] = "join"] /\ Answer(c, None)
  /\ UNCHANGED <<mSelf, mExecution, mLooper, quitting, starting, thread, mLock>>

Join(c) ==
  /\ pc[c] = "join" /\ mExecution = "complete"
  /\ Go(c, "idle") /\ Answer(c, "joined")
  /\ UNCHANGED <<mSelf, mExecution, mLooper, quitting, starting, thread, mLock, op>>

Run == PrepareLooper \/ LoopEnds \/ ClearSelf \/ Complete
InCall(c) ==
  \/ SetExecution(c) \/ Create(c) \/ CreateFailed(c)
  \/ GetLooper(c) \/ AwaitLooper(c) \/ ReturnLooper(c) \/ Relock(c) \/ Quit(c) \/ Join(c)

Next ==
  \/ Run
  \/ \E c \in Caller :
       \/ InCall(c) \/ SpuriousWakeup(c)
       \/ Start(c) \/ Call(c, "getLooper") \/ Call(c, "quit") \/ CallJoin(c)

Spec == Init /\ [][Next]_vars

\* The started thread is scheduled; callers go on with the calls they have begun,
\* and get mLock if it is free again and again.
FairSpec == Spec /\ SF_vars(Run) /\ \A c \in Caller : SF_vars(InCall(c))

-----------------------------------------------------------------------------
\* Every variable holds a value of its kind.
TypeOK ==
  /\ mSelf \in BOOLEAN /\ mLooper \in BOOLEAN /\ quitting \in BOOLEAN
  /\ mExecution \in {None, "pending", "complete"}
  /\ starting \in Caller \cup {None} /\ mLock \in Caller \cup {None}
  /\ thread \in {"none", "created", "looping", "looped", "cleared", "ended"}
  /\ pc \in [Caller -> {"idle", "execution", "create", "failed", "lock", "check", "await",
                        "woken", "quit", "join"}]
  /\ op \in [Caller -> {None, "getLooper", "quit", "join"}]
  /\ answer \in [Caller -> {None, "looper", "null", "quit", "joined"}]
  /\ mLock # None => pc[mLock] = "check"

\* A quit that answered true is never lost, even if it comes before the thread
\* has entered its loop: the thread ends, and so does whoever joins it.
QuitEndsThread ==
  /\ \A c \in Caller : answer[c] = "quit" ~> thread = "ended"
  /\ \A c \in Caller : pc[c] = "join" /\ quitting ~> pc[c] # "join"

\* getLooper and quit return, however they race with the start and the end of
\* the thread, unless the thread could not be created.
GetLooperReturnsIfCreated ==
  \A c \in Caller :
    pc[c] = "lock" ~> \/ pc[c] \in {"idle", "quit"}
                      \/ thread = "none" /\ mExecution = "complete"
=============================================================================
