-------------------------- MODULE AsyncTaskProofs --------------------------
(***************************************************************************)
(* An AsyncTask ends once, for any number of threads that cancel it.  The  *)
(* argument follows the right to end the task: it is in the executor until *)
(* the runnable is done or removed, then in one of a canceller about to    *)
(* post, one "result" message, or the looper, and it is used up by the     *)
(* callback.                                                               *)
(***************************************************************************)
EXTENDS AsyncTask, ListLemmas

What == {"progress", "result"}
Place == {"idle", "status", "set", "read", "copy", "remove", "post"}
Count(what) == Cardinality(PlacesOf(messages, {what}))
Calls == posted + cancelledCalls
NobodyPosts == \A t \in Thread : pc[t] # "post"
Working == NobodyPosts /\ Count("result") = 0 /\ Calls = 0

\* Where the right to end the task is.
RightToEnd ==
  \/ mStatus = "PENDING" /\ looper = "idle" /\ runnable = "new" /\ Working
  \/ /\ mStatus = "RUNNING" /\ looper \in {"setExecutor", "onPreExecute"} /\ runnable = "new"
     /\ Working
  \/ mStatus = "RUNNING" /\ looper = "idle" /\ runnable \in {"queued", "running"} /\ Working
  \/ /\ mStatus = "RUNNING" /\ looper = "idle" /\ runnable = "removed"
     /\ \E t \in Thread : \A u \in Thread : pc[u] = "post" <=> u = t
     /\ Count("result") = 0 /\ Calls = 0
  \/ /\ mStatus = "RUNNING" /\ looper = "idle" /\ runnable \in {"removed", "done"}
     /\ NobodyPosts /\ Count("result") = 1 /\ Calls = 0
  \/ /\ mStatus = "RUNNING" /\ looper \in {"onPostExecute", "onCancelled"}
     /\ runnable \in {"removed", "done"} /\ Working
  \/ /\ mStatus = "RUNNING" /\ looper = "finish" /\ runnable \in {"removed", "done"}
     /\ NobodyPosts /\ Count("result") = 0 /\ Calls = 1
  \/ /\ mStatus = "FINISHED" /\ looper \in {"clearRunnable", "clearSelf", "idle"}
     /\ runnable \in {"removed", "done"}
     /\ NobodyPosts /\ Count("result") = 0 /\ Calls = 1

\* Only a running doInBackground publishes, and every progress message is one of
\* its calls.
ProgressBound ==
  /\ publishing = TRUE => runnable = "running"
  /\ updates + Count("progress") + (IF publishing THEN 1 ELSE 0) <= progress

\* The result is the last message, and finish() begins with its removal.
ResultLast ==
  /\ \A i \in 1 .. Len(messages) : messages[i] = "result" => i = Len(messages)
  /\ looper \in {"onPostExecute", "onCancelled", "finish"} \/ mStatus = "FINISHED" => messages = <<>>

\* The task keeps itself and the runnable until it has finished.
Held ==
  /\ mStatus = "RUNNING" => mSelf = TRUE
  /\ mStatus # "FINISHED" => mRunnable = TRUE

\* The type of the state, with the counters not yet bounded.
Kinds ==
  /\ mStatus \in {"PENDING", "RUNNING", "FINISHED"}
  /\ mExecutor \in BOOLEAN /\ mSelf \in BOOLEAN /\ mRunnable \in BOOLEAN
  /\ mCancelled \in BOOLEAN /\ publishing \in BOOLEAN /\ crashed \in BOOLEAN /\ granted \in BOOLEAN
  /\ runnable \in {"new", "queued", "running", "removed", "done"}
  /\ messages \in Seq(What)
  /\ looper \in {"idle", "setExecutor", "onPreExecute", "onPostExecute", "onCancelled", "finish",
                 "clearRunnable", "clearSelf"}
  /\ pc \in [Thread -> Place]
  /\ progress \in 0 .. MaxProgress /\ updates \in Nat
  /\ posted \in Nat /\ cancelledCalls \in Nat

Inv == Kinds /\ RightToEnd /\ ProgressBound /\ ResultLast /\ Held

\* The messages of each kind are a natural number.
LEMMA CountType ==
  ASSUME Kinds, NEW what
  PROVE  Count(what) \in Nat
BY PlacesFinite DEF Count, Kinds

\* sendToTarget adds one message of its kind.
LEMMA SendFacts ==
  ASSUME Kinds, NEW what \in What, SendToTarget(what)
  PROVE  /\ messages' \in Seq(What)
         /\ \A x : Count(x)' = Count(x) + (IF x = what THEN 1 ELSE 0)
<1>1. messages \in Seq(What) /\ messages' = Append(messages, what)
  BY DEF Kinds, SendToTarget
<1>2. \A x : Cardinality(PlacesOf(Append(messages, what), {x}))
               = Cardinality(PlacesOf(messages, {x})) + (IF what \in {x} THEN 1 ELSE 0)
  BY <1>1, AppendPlaces
<1>3. \A x : Count(x)' = Cardinality(PlacesOf(Append(messages, what), {x}))
  BY <1>1 DEF Count
<1>4. messages' \in Seq(What)
  BY <1>1, AppendProperties
<1> QED BY <1>2, <1>3, <1>4 DEF Count

\* Handling the first message removes one of its kind.
LEMMA HandleFacts ==
  ASSUME Kinds, messages # <<>>, messages' = Tail(messages)
  PROVE  /\ messages' \in Seq(What)
         /\ \A x : Count(x)' = Count(x) - (IF x = Head(messages) THEN 1 ELSE 0)
<1>1. messages \in Seq(What)
  BY DEF Kinds
<1>2. \A x : Cardinality(PlacesOf(Tail(messages), {x}))
               = Cardinality(PlacesOf(messages, {x})) - (IF Head(messages) \in {x} THEN 1 ELSE 0)
  BY <1>1, TailPlaces
<1>3. \A x : Count(x)' = Cardinality(PlacesOf(Tail(messages), {x}))
  BY DEF Count
<1>4. messages' \in Seq(What)
  BY <1>1, HeadTailProperties
<1> QED BY <1>2, <1>3, <1>4 DEF Count

\* Without a message of a kind, none is of that kind.
LEMMA CountZero ==
  ASSUME Kinds, NEW what, Count(what) = 0
  PROVE  \A i \in 1 .. Len(messages) : messages[i] # what
<1>1. PlacesOf(messages, {what}) = {}
  BY PlacesFinite, FS_EmptySet DEF Count, Kinds
<1> QED BY <1>1 DEF PlacesOf

\* A message is sent while no result is on its way, and before finish() begins.
LEMMA SendLast ==
  ASSUME Inv, NEW what \in What, SendToTarget(what), Count("result") = 0,
         mStatus = "RUNNING", looper = "idle", UNCHANGED <<mStatus, looper>>
  PROVE  ResultLast'
<1>1. messages \in Seq(What) /\ messages' = Append(messages, what)
  BY DEF Inv, Kinds, SendToTarget
<1>2. Len(messages') = Len(messages) + 1 /\ \A i \in 1 .. Len(messages) : messages'[i] = messages[i]
  BY <1>1
<1>3. \A i \in 1 .. Len(messages) : messages[i] # "result"
  BY CountZero DEF Inv
<1>4. \A i \in 1 .. Len(messages') : messages'[i] = "result" => i = Len(messages')
  BY <1>1, <1>2, <1>3
<1> QED BY <1>4 DEF ResultLast

\* A message is handled, the result as the last one.
LEMMA HandleLast ==
  ASSUME Inv, messages # <<>>, messages' = Tail(messages), mStatus' = mStatus, looper = "idle",
         \/ Head(messages) = "progress" /\ looper' = "idle"
         \/ Head(messages) = "result"
  PROVE  ResultLast'
<1>1. messages \in Seq(What)
  BY DEF Inv, Kinds
<1>2. /\ Len(messages) \in Nat /\ Len(messages) > 0 /\ Len(messages') = Len(messages) - 1
      /\ \A i \in 1 .. Len(messages') : messages'[i] = messages[i + 1]
  BY <1>1
<1>3. \A i \in 1 .. Len(messages') : messages'[i] = "result" => i = Len(messages')
  <2>1. \A j \in 1 .. Len(messages) : messages[j] = "result" => j = Len(messages)
    BY DEF Inv, ResultLast
  <2> SUFFICES ASSUME NEW i \in 1 .. Len(messages'), messages'[i] = "result"
               PROVE  i = Len(messages')
    OBVIOUS
  <2>2. i + 1 \in 1 .. Len(messages) /\ messages[i + 1] = "result"
    BY <1>2
  <2>3. i + 1 = Len(messages)
    BY <2>1, <2>2
  <2>4. PICK n \in Nat : n = Len(messages) /\ Len(messages') = n - 1
    BY <1>2
  <2>5. i \in Int
    OBVIOUS
  <2> QED BY <2>3, <2>4, <2>5
<1>4. CASE Head(messages) = "progress" /\ looper' = "idle"
  <2>1. mStatus # "FINISHED"
    BY DEF Inv, ResultLast
  <2> QED BY <1>3, <1>4, <2>1 DEF ResultLast
<1>5. CASE Head(messages) = "result"
  <2>1. Len(messages) = 1
    <3>1. 1 \in 1 .. Len(messages) /\ messages[1] = "result"
      BY <1>1, <1>2, <1>5
    <3>2. \A j \in 1 .. Len(messages) : messages[j] = "result" => j = Len(messages)
      BY DEF Inv, ResultLast
    <3> QED BY <3>1, <3>2
  <2>2. messages' = <<>>
    BY <1>1, <1>2, <2>1
  <2> QED BY <1>3, <2>2 DEF ResultLast
<1> QED BY <1>4, <1>5

\* Before it is executed the task has no message, no canceller and no callback.
LEMMA InitInv == Init => Inv
<1> SUFFICES ASSUME Init PROVE Inv
  OBVIOUS
<1>1. Kinds
  <2>1. /\ mCancelled \in BOOLEAN /\ publishing \in BOOLEAN /\ crashed \in BOOLEAN
        /\ granted \in BOOLEAN /\ mExecutor \in BOOLEAN /\ mSelf \in BOOLEAN
        /\ mRunnable \in BOOLEAN
    BY DEF Init
  <2>2. messages \in Seq(What) /\ progress \in 0 .. MaxProgress
    BY AsyncTaskAssumption, EmptySeq DEF Init
  <2>3. pc \in [Thread -> Place]
    BY DEF Init, Place
  <2> QED BY <2>1, <2>2, <2>3 DEF Init, Kinds
<1>2. \A x : PlacesOf(messages, {x}) = {}
  BY EmptySeq DEF Init, PlacesOf
<1>3. \A x : Count(x) = 0
  BY <1>2, FS_EmptySet DEF Count
<1>4. RightToEnd
  BY <1>3 DEF Init, RightToEnd, Working, NobodyPosts, Calls
<1>5. ProgressBound
  BY <1>3 DEF Init, ProgressBound
<1>6. ResultLast /\ Held
  BY DEF Init, ResultLast, Held
<1> QED BY <1>1, <1>4, <1>5, <1>6 DEF Inv

\* The steps of executeOnExecutor and the worker's start move the task to the executor.
LEMMA StartInv ==
  ASSUME Inv, ExecuteOnExecutor \/ SetExecutor \/ Submit \/ Run
  PROVE  Inv'
<1> USE DEF Inv
<1>1. UNCHANGED <<mRunnable, mCancelled, messages, pc, publishing, progress, crashed, posted,
                  cancelledCalls, updates, granted>>
  BY DEF ExecuteOnExecutor, SetExecutor, Submit, Run, history, calls, pointers
<1>2. Count("result")' = Count("result") /\ Count("progress")' = Count("progress")
  BY <1>1 DEF Count
<1>3. Calls' = Calls /\ (NobodyPosts' <=> NobodyPosts)
  BY <1>1 DEF Calls, NobodyPosts
<1>4. Kinds'
  <2>1. mExecutor' \in BOOLEAN /\ mSelf' \in BOOLEAN
    BY DEF ExecuteOnExecutor, SetExecutor, Submit, Run, pointers, Kinds
  <2> QED BY <1>1, <2>1 DEF Kinds, ExecuteOnExecutor, SetExecutor, Submit, Run
<1>5. RightToEnd'
  BY <1>2, <1>3 DEF RightToEnd, Working, ExecuteOnExecutor, SetExecutor, Submit, Run
<1>6. ProgressBound'
  <2>1. publishing' = TRUE => runnable' = "running"
    BY <1>1 DEF ProgressBound, RightToEnd, ExecuteOnExecutor, SetExecutor, Submit, Run
  <2> QED BY <1>1, <1>2, <2>1 DEF ProgressBound
<1>7. ResultLast'
  BY <1>1 DEF ResultLast, ExecuteOnExecutor, SetExecutor, Submit, Run
<1>8. Held'
  BY <1>1 DEF Held, ExecuteOnExecutor, SetExecutor, Submit, Run, pointers
<1> QED BY <1>4, <1>5, <1>6, <1>7, <1>8

\* The steps of cancel() before it asks the executor leave the right to end the task
\* where it is, and so does a crash.
LEMMA CancelBeginInv ==
  ASSUME Inv, NEW t \in Thread,
         CancelCheck(t) \/ CancelStatus(t) \/ CancelSet(t) \/ CancelRead(t) \/ CancelCopy(t)
  PROVE  Inv'
<1> USE DEF Inv, GoTo, ReturnTrue
<1>1. UNCHANGED <<mStatus, mExecutor, mSelf, mRunnable, runnable, messages, looper, publishing,
                  progress, posted, cancelledCalls, updates>>
  BY DEF CancelCheck, CancelStatus, CancelSet, CancelRead, CancelCopy, history, calls, pointers
<1>2. Count("result")' = Count("result") /\ Count("progress")' = Count("progress")
  BY <1>1 DEF Count
<1>3. mCancelled' \in BOOLEAN /\ crashed' \in BOOLEAN /\ granted' \in BOOLEAN
  BY DEF CancelCheck, CancelStatus, CancelSet, CancelRead, CancelCopy, history, Kinds
<1>4. PICK place \in Place \ {"post"} :
        pc' = pc \/ (pc' = [pc EXCEPT ![t] = place] /\ pc[t] # "post")
  BY DEF CancelCheck, CancelStatus, CancelSet, CancelRead, CancelCopy, Place
<1>5. /\ pc' \in [Thread -> Place]
      /\ \A u \in Thread : pc'[u] = "post" <=> pc[u] = "post"
  BY <1>4 DEF Kinds
<1>6. Kinds'
  BY <1>1, <1>3, <1>5 DEF Kinds
<1>7. (NobodyPosts' <=> NobodyPosts) /\ Calls' = Calls
  BY <1>1, <1>5 DEF NobodyPosts, Calls
<1>8. (\E v \in Thread : \A u \in Thread : pc[u] = "post" <=> u = v)
        => \E v \in Thread : \A u \in Thread : pc'[u] = "post" <=> u = v
  BY <1>5
<1>9. RightToEnd'
  BY <1>1, <1>2, <1>7, <1>8 DEF RightToEnd, Working
<1>10. ProgressBound' /\ ResultLast' /\ Held'
  BY <1>1, <1>2 DEF ProgressBound, ResultLast, Held
<1> QED BY <1>6, <1>9, <1>10

\* The canceller whose removal succeeds takes the right to end the task from the executor.
LEMMA CancelRemoveInv ==
  ASSUME Inv, NEW t \in Thread, CancelRemove(t)
  PROVE  Inv'
<1> USE DEF Inv, GoTo, ReturnTrue
<1>1. UNCHANGED <<mStatus, mExecutor, mSelf, mRunnable, mCancelled, messages, looper, publishing,
                  progress, crashed, posted, cancelledCalls, updates>> /\ pc[t] = "remove"
  BY DEF CancelRemove, calls, pointers
<1>0. granted' \in BOOLEAN
  BY DEF CancelRemove, Kinds
<1>9. ResultLast' /\ Held'
  BY <1>1 DEF ResultLast, Held
<1>2. Count("result")' = Count("result") /\ Count("progress")' = Count("progress")
  BY <1>1 DEF Count
<1>3. Calls' = Calls
  BY <1>1 DEF Calls
<1>4. CASE runnable = "queued" /\ runnable' = "removed" /\ pc' = [pc EXCEPT ![t] = "post"]
  <2>1. \A u \in Thread : pc'[u] = IF u = t THEN "post" ELSE pc[u]
    BY <1>4 DEF Kinds
  <2>2. Kinds'
    BY <1>0, <1>1, <1>4 DEF Kinds, Place
  <2>3. mStatus = "RUNNING" /\ looper = "idle" /\ Working
    BY <1>4 DEF RightToEnd
  <2>4. \A u \in Thread : pc'[u] = "post" <=> u = t
    BY <2>1, <2>3 DEF Working, NobodyPosts
  <2>5. RightToEnd'
    BY <1>1, <1>2, <1>3, <1>4, <2>3, <2>4 DEF RightToEnd, Working
  <2>6. publishing = FALSE
    BY <1>4 DEF ProgressBound, Kinds
  <2>7. ProgressBound'
    BY <1>1, <1>2, <2>6 DEF ProgressBound
  <2> QED BY <1>9, <2>2, <2>5, <2>7
<1>5. CASE UNCHANGED runnable /\ pc' = [pc EXCEPT ![t] = "idle"]
  <2>1. \A u \in Thread : pc'[u] = "post" <=> pc[u] = "post"
    BY <1>1, <1>5 DEF Kinds
  <2>2. Kinds'
    BY <1>0, <1>1, <1>5 DEF Kinds, Place
  <2>3. (NobodyPosts' <=> NobodyPosts)
    BY <2>1 DEF NobodyPosts
  <2>4. (\E v \in Thread : \A u \in Thread : pc[u] = "post" <=> u = v)
          => \E v \in Thread : \A u \in Thread : pc'[u] = "post" <=> u = v
    BY <2>1
  <2>5. RightToEnd'
    BY <1>1, <1>2, <1>3, <1>5, <2>3, <2>4 DEF RightToEnd, Working
  <2>6. ProgressBound'
    BY <1>1, <1>2, <1>5 DEF ProgressBound
  <2> QED BY <1>9, <2>2, <2>5, <2>6
<1> QED BY <1>4, <1>5 DEF CancelRemove

\* It turns that right into the one "result" message.
LEMMA CancelPostInv ==
  ASSUME Inv, NEW t \in Thread, CancelPost(t)
  PROVE  Inv'
<1> USE DEF Inv
<1>1. /\ UNCHANGED <<mStatus, mExecutor, mSelf, mRunnable, mCancelled, runnable, looper, publishing,
                     progress, crashed, posted, cancelledCalls, updates>>
      /\ pc[t] = "post" /\ SendToTarget("result") /\ pc' = [pc EXCEPT ![t] = "idle"]
  BY DEF CancelPost, calls, pointers, ReturnTrue, GoTo
<1>0. granted' \in BOOLEAN
  BY DEF CancelPost, ReturnTrue
<1>2. messages' \in Seq(What) /\ \A x : Count(x)' = Count(x) + (IF x = "result" THEN 1 ELSE 0)
  BY <1>1, SendFacts DEF What
<1>3. Kinds'
  BY <1>0, <1>1, <1>2 DEF Kinds, Place
<1>4. \A u \in Thread : pc'[u] = IF u = t THEN "idle" ELSE pc[u]
  BY <1>1 DEF Kinds
<1>5. /\ mStatus = "RUNNING" /\ looper = "idle" /\ runnable = "removed"
      /\ \E v \in Thread : \A u \in Thread : pc[u] = "post" <=> u = v
      /\ Count("result") = 0 /\ Calls = 0
  BY <1>1 DEF RightToEnd, Working, NobodyPosts
<1>6. NobodyPosts'
  BY <1>1, <1>4, <1>5 DEF NobodyPosts
<1>7. Count("result")' = 1 /\ Calls' = 0
  BY <1>1, <1>2, <1>5 DEF Calls
<1>8. RightToEnd'
  BY <1>1, <1>5, <1>6, <1>7 DEF RightToEnd
<1>9. Count("progress")' = Count("progress")
  BY <1>2, CountType
<1>10. ProgressBound'
  BY <1>1, <1>9 DEF ProgressBound
<1>11. ResultLast' /\ Held'
  BY <1>1, <1>5, SendLast DEF What, Held
<1> QED BY <1>3, <1>8, <1>10, <1>11

\* publishProgress sends at most one progress message per call.
LEMMA PublishInv ==
  ASSUME Inv, PublishCheck \/ PublishProgress
  PROVE  Inv'
<1> USE DEF Inv
<1>1. UNCHANGED <<mStatus, mExecutor, mSelf, mRunnable, mCancelled, runnable, looper, pc, crashed,
                  posted, cancelledCalls, updates, granted>>
  BY DEF PublishCheck, PublishProgress, history, calls, pointers
<1>2. Calls' = Calls /\ (NobodyPosts' <=> NobodyPosts)
  BY <1>1 DEF Calls, NobodyPosts
<1>3. CASE PublishCheck
  <2>1. /\ UNCHANGED messages /\ runnable = "running" /\ publishing = FALSE
        /\ progress' = progress + 1 /\ progress < MaxProgress
    BY <1>3 DEF PublishCheck, Kinds
  <2>2. publishing' \in BOOLEAN
    BY <1>3 DEF PublishCheck
  <2>3. progress' \in 0 .. MaxProgress
    BY <2>1, AsyncTaskAssumption DEF Kinds
  <2>4. Kinds'
    BY <1>1, <2>1, <2>2, <2>3 DEF Kinds
  <2>5. Count("result")' = Count("result") /\ Count("progress")' = Count("progress")
    BY <2>1 DEF Count
  <2>6. RightToEnd'
    BY <1>1, <1>2, <2>1, <2>5 DEF RightToEnd, Working
  <2>7. updates + Count("progress") <= progress
    BY <2>1, CountType DEF ProgressBound, Kinds
  <2>8. updates' + Count("progress")' + (IF publishing' THEN 1 ELSE 0) <= progress'
    BY <1>1, <2>1, <2>5, <2>7, CountType DEF Kinds
  <2>9. ProgressBound'
    BY <1>1, <2>1, <2>8 DEF ProgressBound
  <2>10. ResultLast' /\ Held'
    BY <1>1, <2>1 DEF ResultLast, Held
  <2> QED BY <2>4, <2>6, <2>9, <2>10
<1>4. CASE PublishProgress
  <2>1. /\ SendToTarget("progress") /\ publishing = TRUE /\ publishing' = FALSE
        /\ UNCHANGED progress
    BY <1>4 DEF PublishProgress, Kinds
  <2>2. messages' \in Seq(What) /\ \A x : Count(x)' = Count(x) + (IF x = "progress" THEN 1 ELSE 0)
    BY <2>1, SendFacts DEF What
  <2>3. Kinds'
    <3>1. publishing' \in BOOLEAN /\ progress' \in 0 .. MaxProgress
      BY <2>1 DEF Kinds
    <3> QED BY <1>1, <2>2, <3>1 DEF Kinds
  <2>4. Count("result")' = Count("result") /\ Count("progress")' = Count("progress") + 1
    BY <2>2, CountType
  <2>5. runnable = "running"
    BY <2>1 DEF ProgressBound
  <2>6. RightToEnd'
    BY <1>1, <1>2, <2>4, <2>5 DEF RightToEnd, Working
  <2>7. ProgressBound'
    BY <1>1, <2>1, <2>4, CountType DEF ProgressBound, Kinds
  <2>8. mStatus = "RUNNING" /\ looper = "idle" /\ Count("result") = 0
    BY <2>5 DEF RightToEnd, Working
  <2>9. ResultLast' /\ Held'
    BY <1>1, <2>1, <2>8, SendLast DEF What, Held
  <2> QED BY <2>3, <2>6, <2>7, <2>9
<1> QED BY <1>3, <1>4

\* The worker posts the result once doInBackground has returned.
LEMMA PostResultInv ==
  ASSUME Inv, PostResult
  PROVE  Inv'
<1> USE DEF Inv
<1>1. /\ UNCHANGED <<mStatus, mExecutor, mSelf, mRunnable, mCancelled, looper, pc, publishing,
                     progress, crashed, posted, cancelledCalls, updates, granted>>
      /\ runnable = "running" /\ publishing = FALSE
      /\ SendToTarget("result") /\ runnable' = "done"
  BY DEF PostResult, history, calls, pointers, Kinds
<1>2. messages' \in Seq(What) /\ \A x : Count(x)' = Count(x) + (IF x = "result" THEN 1 ELSE 0)
  BY <1>1, SendFacts DEF What
<1>3. Kinds'
  BY <1>1, <1>2 DEF Kinds
<1>4. mStatus = "RUNNING" /\ looper = "idle" /\ Working
  BY <1>1 DEF RightToEnd
<1>5. Count("result")' = 1 /\ Calls' = 0 /\ NobodyPosts' /\ Count("progress")' = Count("progress")
  BY <1>1, <1>2, <1>4, CountType DEF Calls, Working, NobodyPosts
<1>6. RightToEnd'
  BY <1>1, <1>4, <1>5 DEF RightToEnd
<1>7. ProgressBound'
  BY <1>1, <1>5 DEF ProgressBound
<1>8. ResultLast' /\ Held'
  BY <1>1, <1>4, SendLast DEF What, Held, Working
<1> QED BY <1>3, <1>6, <1>7, <1>8

\* Handling a message updates the progress or begins to finish the task.
LEMMA HandleInv ==
  ASSUME Inv, HandleProgress \/ FinishCheck
  PROVE  Inv'
<1> USE DEF Inv
<1>1. /\ UNCHANGED <<mStatus, mExecutor, mSelf, mRunnable, mCancelled, runnable, pc, publishing,
                     progress, crashed, posted, cancelledCalls, granted>>
      /\ messages # <<>> /\ messages' = Tail(messages) /\ looper = "idle"
  BY DEF HandleProgress, FinishCheck, history, calls, pointers
<1>0. ResultLast' /\ Held'
  <2>1. \/ Head(messages) = "progress" /\ looper' = "idle"
        \/ Head(messages) = "result"
    BY DEF HandleProgress, FinishCheck
  <2> QED BY <1>1, <2>1, HandleLast DEF Held
<1>2. /\ messages' \in Seq(What)
      /\ \A x : Count(x)' = Count(x) - (IF x = Head(messages) THEN 1 ELSE 0)
  BY <1>1, HandleFacts
<1>3. Calls' = Calls /\ (NobodyPosts' <=> NobodyPosts)
  BY <1>1 DEF Calls, NobodyPosts
<1>4. CASE HandleProgress
  <2>1. Head(messages) = "progress" /\ updates' = updates + 1 /\ UNCHANGED looper
    BY <1>4 DEF HandleProgress
  <2>2. Kinds'
    BY <1>1, <1>2, <2>1 DEF Kinds
  <2>3. Count("result")' = Count("result") /\ Count("progress")' = Count("progress") - 1
    BY <1>2, <2>1, CountType
  <2>4. RightToEnd'
    BY <1>1, <1>3, <2>1, <2>3 DEF RightToEnd, Working
  <2>5. ProgressBound'
    BY <1>1, <2>1, <2>3, CountType DEF ProgressBound, Kinds
  <2> QED BY <1>0, <2>2, <2>4, <2>5
<1>5. CASE FinishCheck
  <2>1. /\ Head(messages) = "result" /\ looper' \in {"onPostExecute", "onCancelled"}
        /\ UNCHANGED updates
    BY <1>5 DEF FinishCheck, history, calls
  <2>2. Kinds'
    BY <1>1, <1>2, <2>1 DEF Kinds
  <2>3. Count("result")' = Count("result") - 1 /\ Count("progress")' = Count("progress")
    BY <1>2, <2>1, CountType
  <2>4. Count("result")' \in Nat
    BY <2>2, PlacesFinite DEF Count, Kinds
  <2>5. /\ mStatus = "RUNNING" /\ runnable \in {"removed", "done"}
        /\ NobodyPosts /\ Count("result") = 1 /\ Calls = 0
    BY <1>1, <2>3, <2>4 DEF RightToEnd, Working
  <2>6. RightToEnd'
    BY <1>1, <1>3, <2>1, <2>3, <2>5 DEF RightToEnd, Working
  <2>7. ProgressBound'
    BY <1>1, <2>1, <2>3 DEF ProgressBound
  <2> QED BY <1>0, <2>2, <2>6, <2>7
<1> QED BY <1>4, <1>5

\* finish() invokes one callback, marks the task as finished and lets go of it.
LEMMA FinishInv ==
  ASSUME Inv, FinishCallback \/ Finish \/ ClearRunnable \/ ClearSelf
  PROVE  Inv'
<1> USE DEF Inv
<1>1. UNCHANGED <<mExecutor, mCancelled, runnable, messages, pc, publishing, progress, crashed,
                  updates, granted>>
  BY DEF FinishCallback, Finish, ClearRunnable, ClearSelf, history, calls, pointers
<1>2. Count("result")' = Count("result") /\ Count("progress")' = Count("progress")
  BY <1>1 DEF Count
<1>3. NobodyPosts' <=> NobodyPosts
  BY <1>1 DEF NobodyPosts
<1>4. mSelf' \in BOOLEAN /\ mRunnable' \in BOOLEAN
  BY DEF FinishCallback, Finish, ClearRunnable, ClearSelf, pointers, Kinds
<1>5. ProgressBound'
  BY <1>1, <1>2 DEF ProgressBound
<1>6. CASE FinishCallback
  <2>1. /\ looper \in {"onPostExecute", "onCancelled"} /\ looper' = "finish"
        /\ UNCHANGED <<mStatus, mSelf, mRunnable>>
        /\ posted' \in Nat /\ cancelledCalls' \in Nat /\ Calls' = Calls + 1
    BY <1>6 DEF FinishCallback, Kinds, Calls, pointers
  <2>2. Kinds'
    BY <1>1, <1>4, <2>1 DEF Kinds
  <2>3. RightToEnd'
    BY <1>1, <1>2, <1>3, <2>1 DEF RightToEnd, Working
  <2>4. ResultLast' /\ Held'
    BY <1>1, <2>1 DEF ResultLast, Held
  <2> QED BY <1>5, <2>2, <2>3, <2>4
<1>7. CASE Finish \/ ClearRunnable \/ ClearSelf
  <2>1. /\ looper \in {"finish", "clearRunnable", "clearSelf"} /\ mStatus' = "FINISHED"
        /\ looper' \in {"clearRunnable", "clearSelf", "idle"}
        /\ UNCHANGED <<posted, cancelledCalls>>
    BY <1>7 DEF Finish, ClearRunnable, ClearSelf, history, calls, RightToEnd
  <2>2. Kinds' /\ Calls' = Calls
    BY <1>1, <1>4, <2>1 DEF Kinds, Calls
  <2>3. RightToEnd'
    BY <1>1, <1>2, <1>3, <2>1, <2>2 DEF RightToEnd, Working
  <2>4. mStatus = "FINISHED" \/ looper = "finish"
    BY <2>1 DEF RightToEnd
  <2>5. ResultLast' /\ Held'
    BY <1>1, <2>1, <2>4 DEF ResultLast, Held
  <2> QED BY <1>5, <2>2, <2>3, <2>5
<1> QED BY <1>6, <1>7

\* Every step preserves the invariant.
LEMMA NextInv == Inv /\ [Next]_vars => Inv'
<1> SUFFICES ASSUME Inv, [Next]_vars PROVE Inv'
  OBVIOUS
<1>1. CASE UNCHANGED vars
  BY <1>1 DEF vars, pointers, calls, history, Inv, Kinds, RightToEnd, Working, NobodyPosts,
              Count, Calls, ProgressBound, ResultLast, Held
<1> QED
  BY <1>1, StartInv, CancelBeginInv, CancelRemoveInv, CancelPostInv, PublishInv,
     PostResultInv, HandleInv, FinishInv
  DEF Next, Looper, Worker, Canceller

\* In every behaviour of the task the invariant holds.
THEOREM Invariance == Spec => []Inv
<1> QED BY InitInv, NextInv, PTL DEF Spec

\* Every variable holds a value of its kind; in particular no callback is invoked
\* twice and onProgressUpdate not more often than publishProgress was called.
THEOREM TypeCorrect == Spec => []TypeOK
<1>1. Inv => TypeOK
  <2> SUFFICES ASSUME Inv PROVE TypeOK
    OBVIOUS
  <2>1. posted \in 0 .. 1 /\ cancelledCalls \in 0 .. 1
    BY DEF Inv, Kinds, RightToEnd, Working, Calls
  <2>2. updates \in 0 .. MaxProgress
    BY CountType, AsyncTaskAssumption DEF Inv, Kinds, ProgressBound
  <2>3. /\ <<mExecutor, mSelf, mRunnable>> \in BOOLEAN \X BOOLEAN \X BOOLEAN
        /\ <<mCancelled, publishing, crashed, granted>> \in BOOLEAN \X BOOLEAN \X BOOLEAN \X BOOLEAN
    BY DEF Inv, Kinds
  <2> QED BY <2>1, <2>2, <2>3 DEF Inv, Kinds, TypeOK, What, Place
<1> QED BY <1>1, Invariance, PTL

\* However cancel() races with executeOnExecutor, the worker and finish(), exactly one
\* of onPostExecute and onCancelled ends the task, after the executor is done with it
\* and as the last of the callbacks, and the task keeps itself until then.
THEOREM EndsOnceHolds == Spec => []EndsOnce
<1>1. Inv => EndsOnce
  <2> SUFFICES ASSUME Inv PROVE EndsOnce
    OBVIOUS
  <2>1. /\ posted + cancelledCalls <= 1
        /\ looper \in {"onPostExecute", "onCancelled"} =>
             posted + cancelledCalls = 0 /\ runnable \in {"done", "removed"}
        /\ mStatus = "FINISHED" => posted + cancelledCalls = 1
    BY DEF Inv, Kinds, RightToEnd, Working, Calls
  <2>2. posted + cancelledCalls = 1 => /\ looper = "finish" \/ mStatus = "FINISHED"
                                       /\ runnable # "running"
    BY DEF Inv, Kinds, RightToEnd, Working, Calls
  <2>3. runnable # "running" => publishing = FALSE
    BY DEF Inv, Kinds, ProgressBound
  <2>4. posted + cancelledCalls = 1 => messages = <<>> /\ ~ publishing
    BY <2>2, <2>3 DEF Inv, ResultLast
  <2>5. mStatus = "RUNNING" => mSelf /\ mRunnable
    BY DEF Inv, Held
  <2> QED BY <2>1, <2>4, <2>5 DEF EndsOnce
<1> QED BY <1>1, Invariance, PTL
=============================================================================
