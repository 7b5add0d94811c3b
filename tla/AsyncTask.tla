----------------------------- MODULE AsyncTask -----------------------------
(***************************************************************************)
(* One os/AsyncTask: the looper thread that executes it and handles its    *)
(* messages, the executor's worker that runs doInBackground, and threads   *)
(* (code in onPreExecute or doInBackground among them) that cancel it.  A  *)
(* step is one access of shared state; none of it is locked.               *)
(*                                                                         *)
(* External to the task are its executor, of which only the place of the   *)
(* one WorkerRunnable matters, and the message queue of its handler: all   *)
(* messages of the task are sent by one thread at a time and undelayed, so *)
(* it is a FIFO channel.  Nobody shuts the executor down.                  *)
(***************************************************************************)
EXTENDS Integers, Sequences

CONSTANTS
  Thread,        \* threads that call cancel()
  CanRemove,     \* does Executor::cancel remove?  Not for Handler::asExecutor()
  MaxProgress    \* bound: calls of publishProgress

ASSUME AsyncTaskAssumption == CanRemove \in BOOLEAN /\ MaxProgress \in Nat

VARIABLES
  mStatus,      \* PENDING, RUNNING, FINISHED
  mExecutor,    \* is the pointer set?
  mSelf,        \* the task's reference to itself
  mRunnable,    \* the task's reference to the WorkerRunnable: not cleared yet
  mCancelled,   \* the AtomicBoolean
  runnable,     \* the WorkerRunnable: "new", "queued", "running", "removed", "done"
  messages,     \* the handler's messages, first to last
  looper,       \* what the looper thread is doing for the task
  pc,           \* per thread: progress of cancel()
  publishing,   \* publishProgress has seen the task not cancelled
  progress,     \* bound counter of publishProgress
  crashed       \* the program has used a null or dangling pointer

\* History: how often the callbacks were invoked, and whether a cancel() returned true.
VARIABLES posted, cancelledCalls, updates, granted

pointers == <<mExecutor, mSelf, mRunnable>>
calls == <<posted, cancelledCalls, updates>>
history == <<calls, granted>>
vars == <<mStatus, pointers, mCancelled, runnable, messages, looper, pc, publishing, progress,
          crashed, history>>

Init ==
  /\ mStatus = "PENDING" /\ mCancelled = FALSE
  /\ mExecutor = FALSE /\ mSelf = FALSE /\ mRunnable = TRUE /\ crashed = FALSE
  /\ runnable = "new" /\ messages = <<>> /\ looper = "idle"
  /\ pc = [t \in Thread |-> "idle"]
  /\ publishing = FALSE /\ progress = 0
  /\ posted = 0 /\ cancelledCalls = 0 /\ updates = 0 /\ granted = FALSE

SendToTarget(what) == messages' = Append(messages, what)

(***************************************************************************)
(* executeOnExecutor: the task is RUNNING before it has an executor, and   *)
(* onPreExecute runs before the runnable is submitted.  A second execution *)
(* throws.                                                                 *)
(***************************************************************************)
ExecuteOnExecutor ==
  /\ looper = "idle" /\ mStatus = "PENDING"
  /\ mSelf' = TRUE /\ mStatus' = "RUNNING"
  /\ looper' = "setExecutor"
  /\ UNCHANGED <<mExecutor, mRunnable, mCancelled, runnable, messages, pc, publishing, progress,
                 crashed, history>>

SetExecutor ==
  /\ looper = "setExecutor"
  /\ mExecutor' = TRUE
  /\ looper' = "onPreExecute"
  /\ UNCHANGED <<mStatus, mSelf, mRunnable, mCancelled, runnable, messages, pc, publishing,
                 progress, crashed, history>>

Submit ==
  /\ looper = "onPreExecute"
  /\ runnable' = "queued"
  /\ looper' = "idle"
  /\ UNCHANGED <<mStatus, pointers, mCancelled, messages, pc, publishing, progress, crashed,
                 history>>

(***************************************************************************)
(* cancel().                                                               *)
(***************************************************************************)
GoTo(t, place) == pc' = [pc EXCEPT ![t] = place]
ReturnTrue(t) == GoTo(t, "idle") /\ granted' = TRUE

CancelCheck(t) ==
  /\ pc[t] = "idle" /\ ~ mCancelled
  /\ GoTo(t, "status")
  /\ UNCHANGED <<mStatus, pointers, mCancelled, runnable, messages, looper, publishing, progress,
                 crashed, history>>

CancelStatus(t) ==
  /\ pc[t] = "status"
  /\ GoTo(t, IF mStatus = "RUNNING" THEN "set" ELSE "idle")
  /\ UNCHANGED <<mStatus, pointers, mCancelled, runnable, messages, looper, publishing, progress,
                 crashed, history>>

CancelSet(t) ==
  /\ pc[t] = "set"
  /\ mCancelled' = TRUE
  /\ GoTo(t, "read")
  /\ UNCHANGED <<mStatus, pointers, runnable, messages, looper, publishing, progress, crashed,
                 history>>

\* mExecutor->cancel(mRunnable) reads both pointers.  There may be no executor
\* yet; nothing is removed for a null runnable.
CancelRead(t) ==
  /\ pc[t] = "read"
  /\ \/ ~ mExecutor /\ crashed' = TRUE /\ UNCHANGED <<pc, granted>>
     \/ mExecutor /\ mRunnable /\ GoTo(t, "copy") /\ UNCHANGED <<crashed, granted>>
     \/ mExecutor /\ ~ mRunnable /\ ReturnTrue(t) /\ UNCHANGED crashed
  /\ UNCHANGED <<mStatus, pointers, mCancelled, runnable, messages, looper, publishing, progress,
                 calls>>

\* The argument takes a reference to the runnable, which finish() may have
\* released meanwhile.
CancelCopy(t) ==
  /\ pc[t] = "copy"
  /\ \/ GoTo(t, "remove") /\ UNCHANGED crashed
     \/ ~ mRunnable /\ crashed' = TRUE /\ UNCHANGED pc
  /\ UNCHANGED <<mStatus, pointers, mCancelled, runnable, messages, looper, publishing, progress,
                 history>>

\* Variant: the result is posted whether or not the executor gave the task up.
CancelRemoveAlways(t) ==
  /\ pc[t] = "remove"
  /\ runnable' = IF CanRemove /\ runnable = "queued" THEN "removed" ELSE runnable
  /\ GoTo(t, "post")
  /\ UNCHANGED <<mStatus, pointers, mCancelled, messages, looper, publishing, progress, crashed,
                 history>>

\* The executor answers whether it has removed the runnable.
CancelRemove(t) ==
  /\ pc[t] = "remove"
  /\ \/ /\ CanRemove /\ runnable = "queued"
        /\ runnable' = "removed" /\ GoTo(t, "post") /\ UNCHANGED granted
     \/ /\ ~ (CanRemove /\ runnable = "queued")
        /\ ReturnTrue(t) /\ UNCHANGED runnable
  /\ UNCHANGED <<mStatus, pointers, mCancelled, messages, looper, publishing, progress, crashed,
                 calls>>

\* Variant: a removed task is just dropped.
CancelPostNothing(t) ==
  /\ pc[t] = "post"
  /\ ReturnTrue(t)
  /\ UNCHANGED <<mStatus, pointers, mCancelled, runnable, messages, looper, publishing,
                 progress, crashed, calls>>

CancelPost(t) ==
  /\ pc[t] = "post"
  /\ SendToTarget("result")
  /\ ReturnTrue(t)
  /\ UNCHANGED <<mStatus, pointers, mCancelled, runnable, looper, publishing, progress, crashed,
                 calls>>

(***************************************************************************)
(* The worker: WorkerRunnable::run, and publishProgress in doInBackground. *)
(***************************************************************************)
Run ==
  /\ runnable = "queued"
  /\ runnable' = "running"
  /\ UNCHANGED <<mStatus, pointers, mCancelled, messages, looper, pc, publishing, progress,
                 crashed, history>>

PublishCheck ==
  /\ runnable = "running" /\ ~ publishing
  /\ progress < MaxProgress /\ progress' = progress + 1
  /\ publishing' = ~ mCancelled
  /\ UNCHANGED <<mStatus, pointers, mCancelled, runnable, messages, looper, pc, crashed, history>>

PublishProgress ==
  /\ publishing
  /\ SendToTarget("progress")
  /\ publishing' = FALSE
  /\ UNCHANGED <<mStatus, pointers, mCancelled, runnable, looper, pc, progress, crashed,
                 history>>

\* doInBackground has returned.
PostResult ==
  /\ runnable = "running" /\ ~ publishing
  /\ SendToTarget("result")
  /\ runnable' = "done"
  /\ UNCHANGED <<mStatus, pointers, mCancelled, looper, pc, publishing, progress,
                 crashed, history>>

(***************************************************************************)
(* The looper thread: InternalHandler::handleMessage and finish().         *)
(***************************************************************************)
HandleProgress ==
  /\ looper = "idle" /\ messages # <<>> /\ Head(messages) = "progress"
  /\ messages' = Tail(messages)
  /\ updates' = updates + 1
  /\ UNCHANGED <<mStatus, pointers, mCancelled, runnable, looper, pc, publishing, progress,
                 crashed, posted, cancelledCalls, granted>>

FinishCheck ==
  /\ looper = "idle" /\ messages # <<>> /\ Head(messages) = "result"
  /\ messages' = Tail(messages)
  /\ looper' = IF mCancelled THEN "onCancelled" ELSE "onPostExecute"
  /\ UNCHANGED <<mStatus, pointers, mCancelled, runnable, pc, publishing, progress, crashed,
                 history>>

FinishCallback ==
  /\ \/ /\ looper = "onPostExecute"
        /\ posted' = posted + 1 /\ UNCHANGED cancelledCalls
     \/ /\ looper = "onCancelled"
        /\ cancelledCalls' = cancelledCalls + 1 /\ UNCHANGED posted
  /\ looper' = "finish"
  /\ UNCHANGED <<mStatus, pointers, mCancelled, runnable, messages, pc, publishing, progress,
                 crashed, updates, granted>>

Finish ==
  /\ looper = "finish"
  /\ mStatus' = "FINISHED"
  /\ looper' = "clearRunnable"
  /\ UNCHANGED <<pointers, mCancelled, runnable, messages, pc, publishing, progress, crashed,
                 history>>

ClearRunnable ==
  /\ looper = "clearRunnable"
  /\ mRunnable' = FALSE
  /\ looper' = "clearSelf"
  /\ UNCHANGED <<mStatus, mExecutor, mSelf, mCancelled, runnable, messages, pc, publishing,
                 progress, crashed, history>>

ClearSelf ==
  /\ looper = "clearSelf"
  /\ mSelf' = FALSE
  /\ looper' = "idle"
  /\ UNCHANGED <<mStatus, mExecutor, mRunnable, mCancelled, runnable, messages, pc, publishing,
                 progress, crashed, history>>

Canceller(t) ==
  \/ CancelStatus(t) \/ CancelSet(t) \/ CancelRead(t) \/ CancelCopy(t)
  \/ CancelRemove(t) \/ CancelPost(t)
Worker == Run \/ PublishCheck \/ PublishProgress \/ PostResult
Looper ==
  \/ SetExecutor \/ Submit \/ HandleProgress \/ FinishCheck \/ FinishCallback
  \/ Finish \/ ClearRunnable \/ ClearSelf

\* A crash ends the program.
Next ==
  /\ ~ crashed
  /\ \/ ExecuteOnExecutor \/ Looper \/ Worker
     \/ \E t \in Thread : CancelCheck(t) \/ Canceller(t)

Spec == Init /\ [][Next]_vars

\* doInBackground and the callbacks return, both threads are scheduled, and a
\* thread goes on with a cancel() that it has begun.  Nobody has to call one.
FairSpec ==
  /\ Spec
  /\ WF_vars(~ crashed /\ Worker) /\ WF_vars(~ crashed /\ Looper)
  /\ \A t \in Thread : WF_vars(~ crashed /\ Canceller(t))

-----------------------------------------------------------------------------
\* Every variable holds a value of its kind.
TypeOK ==
  /\ mStatus \in {"PENDING", "RUNNING", "FINISHED"}
  /\ <<mExecutor, mSelf, mRunnable>> \in BOOLEAN \X BOOLEAN \X BOOLEAN
  /\ <<mCancelled, publishing, crashed, granted>> \in BOOLEAN \X BOOLEAN \X BOOLEAN \X BOOLEAN
  /\ runnable \in {"new", "queued", "running", "removed", "done"}
  /\ messages \in Seq({"progress", "result"})
  /\ looper \in {"idle", "setExecutor", "onPreExecute", "onPostExecute", "onCancelled", "finish",
                 "clearRunnable", "clearSelf"}
  /\ pc \in [Thread -> {"idle", "status", "set", "read", "copy", "remove", "post"}]
  /\ progress \in 0 .. MaxProgress /\ updates \in 0 .. MaxProgress
  /\ posted \in 0 .. 1 /\ cancelledCalls \in 0 .. 1

\* However cancel() races with executeOnExecutor, the worker and finish(), the task
\* ends once: one of onPostExecute and onCancelled is invoked, once, never before
\* doInBackground has returned or been ruled out, and no onProgressUpdate comes
\* after it.  Until then the task keeps itself and its runnable.
EndsOnce ==
  /\ posted + cancelledCalls <= 1
  /\ looper \in {"onPostExecute", "onCancelled"} =>
       posted + cancelledCalls = 0 /\ runnable \in {"done", "removed"}
  /\ mStatus = "FINISHED" => posted + cancelledCalls = 1
  /\ posted + cancelledCalls = 1 => messages = <<>> /\ ~ publishing
  /\ mStatus = "RUNNING" => mSelf /\ mRunnable

\* A task that is executed finishes, cancelled or not, unless cancel() met a pointer
\* that executeOnExecutor had not set or finish() had released.
TaskFinishes == mStatus = "RUNNING" ~> mStatus = "FINISHED" \/ crashed

\* "Calling this method guarantees that onPostExecute is never invoked": not after a
\* cancel() that has returned true.
NoPostAfterCancel == [][granted => posted' = posted]_vars
=============================================================================
