------------------------------ MODULE Promise ------------------------------
(***************************************************************************)
(* util/concurrent/Promise and Thenable.  Threads complete promises, chain *)
(* dependent ones, combine them with anyOf and allOf, arm timeouts and     *)
(* wait in get().  A promise runs its dependent actions on the thread that *)
(* completes it and with its lock held; an action either completes its     *)
(* consumer there and then (RelayAction and its kind) or is handed to an   *)
(* executor.  The lock is recursive.                                       *)
(*                                                                         *)
(* A thread is a stack of frames, the innermost call first.  One step of a *)
(* thread is a stretch of code under one lock.  Locks are not a variable:  *)
(* complete(), onComplete() and addAction() hold the lock of their promise *)
(* for as long as their frame is on the stack, every other function within *)
(* a step.  What the program does with promises is the client: a set of    *)
(* actions and, per thread, the calls that it will make, in any order.     *)
(***************************************************************************)
EXTENDS Integers, Sequences, SequencesExt

CONSTANTS
  Promises, Actions,
  Client,    \* the threads that make calls
  Looper,    \* the thread behind the executor of asynchronous actions
  Daemon,    \* the thread TimeoutExecutorDaemon
  None,      \* no action, no promise
  Programs   \* the clients: [act: actions and what they are, ops: calls per thread]

Thread == Client \cup {Looper, Daemon}

ASSUME PromiseAssumption ==
  /\ Looper # Daemon /\ {Looper, Daemon} \cap Client = {}
  /\ None \notin Promises \cup Actions /\ "timed" \notin Actions

VARIABLES
  program,   \* the client, chosen once
  outcome,   \* per promise: mIsDone, mResult and mException
  mActions,  \* per promise: the actions that wait for it
  claimed,   \* actions whose mClaim is set
  runs,      \* per action: how often run() was entered
  executing, \* actions in the looper's message queue
  timers,    \* timeout actions whose callback is in the daemon's queue
  stack,     \* per thread: the frames of its calls
  todo,      \* per client thread: calls still to be made
  known      \* promises that have been returned to the client

promiseVars == <<outcome, mActions>>
actionVars == <<claimed, runs, executing, timers>>
clientVars == <<program, todo, known>>
vars == <<promiseVars, actionVars, clientVars, stack>>

(***************************************************************************)
(* Outcomes.  A CompletionException carries the exception it was made for. *)
(***************************************************************************)
Pending == [tag |-> "pending", cause |-> None]
Value == [tag |-> "value", cause |-> None]
Raised(cause) == [tag |-> "exception", cause |-> cause]

Cause == {"error", "cancelled", "timeout"}
Outcome == {Pending, Value} \cup [tag: {"exception", "completion"}, cause: Cause]

isDone(p) == outcome[p] # Pending

toCompletionException(o) == [o EXCEPT !.tag = "completion"]

\* A function called by an action throws.
Thrown == toCompletionException(Raised("error"))

(***************************************************************************)
(* What the consumer of an action gets when the supplier's outcome is o,   *)
(* by class of the action.                                                 *)
(***************************************************************************)
RelayAction(o) == IF o = Value THEN {Value} ELSE {toCompletionException(o)}

BiRelayAction(o1, o2) == IF o1 # Value THEN RelayAction(o1) ELSE RelayAction(o2)

FunctionAction(o) == IF o = Value THEN {Value, Thrown} ELSE RelayAction(o)

BiFunctionAction(o) == {Value, Thrown}

ConsumerAction(o) == FunctionAction(o)

\* The supplier's exception is handed on as it is.
BiConsumerAction(o) == {o, Thrown}

RunAction(o) == FunctionAction(o)

AnyOfAction(o) == RelayAction(o)

ErrorFunctionAction(o) == IF o = Value THEN {Value} ELSE {Value, Thrown}

ErrorConsumerAction(o) == IF o = Value THEN {Value} ELSE {o, Thrown}

\* The actions whose tryRun() runs them on the completing thread.
Direct == {"relay", "biRelay", "anyOf", "errorRelay", "delay"}

act(a) == program.act[a]

(***************************************************************************)
(* Frames, and the calls of the client as the frames they start with.      *)
(***************************************************************************)
PC == {"complete", "iterate", "hold", "onComplete", "tryRun", "tryRun2", "run",
       "set", "then", "addAction", "removeAction", "andTree", "anyOf", "anyOfDone",
       "arm", "fire", "get", "await", "expired", "return"}

Frame == [pc: PC, p: Promises \cup {None}, a: Actions \cup {None, "timed"}, out: Outcome]

Of(pc, p, a) == [pc |-> pc, p |-> p, a |-> a, out |-> Pending]
With(pc, p, a, out) == [pc |-> pc, p |-> p, a |-> a, out |-> out]

\* A call that takes promises ps, and its frames.
Call(ps, frames) == [on |-> ps, frames |-> frames]

complete(p, out) == Call({p}, <<With("complete", p, None, out)>>)

cancel(p) == complete(p, Raised("cancelled"))

\* completeWith(supplier) of promise c.
completeWith(p, a, c) == Call({p, c}, <<Of("then", p, a)>>)

thenApply(p, a, c) == Call({p}, <<Of("then", p, a), Of("return", c, None)>>)

\* The function returns promise r.
thenCompose(p, a, r, c) == Call({p, r}, <<Of("then", p, a), Of("return", c, None)>>)

thenAccept(p, a, c) == thenApply(p, a, c)

thenRun(p, a, c) == thenApply(p, a, c)

catchException(p, a, c) == thenApply(p, a, c)

delay(p, a, c) == thenApply(p, a, c)

orTimeout(p, a) == Call({p}, <<Of("arm", p, a)>>)

get(p) == Call({p}, <<Of("get", p, None)>>)

getWithin(p) == Call({p}, <<Of("get", p, "timed")>>)

AnyOfFrames(p1, a1, p2, a2, c) ==
  <<Of("anyOf", p1, a1), Of("anyOf", p2, a2),
    Of("addAction", p1, a1), Of("addAction", p2, a2), Of("anyOfDone", c, None),
    Of("removeAction", p1, a1), Of("removeAction", p2, a2), Of("return", c, None)>>

anyOf(p1, a1, p2, a2, c) == Call({p1, p2}, AnyOfFrames(p1, a1, p2, a2, c))

allOf(p1, p2, b, v) == Call({p1, p2}, <<Of("andTree", None, b), Of("return", v, None)>>)

\* allOf with completeOnException: values v and exceptions e race in any-of
\* promise c, from which a synchronous action completes the result r.
allOfOrException(p1, p2, b, v, e1, e2, e, a1, a2, c, t, r) ==
  Call({p1, p2}, <<Of("andTree", None, b), Of("then", p1, e1), Of("then", p2, e2)>>
                   \o AnyOfFrames(v, a1, e, a2, c)
                   \o <<Of("then", c, t), Of("return", r, None)>>)

(***************************************************************************)
(* What Promise and Thenable let a client express.  An action has one      *)
(* supplier, that of allOf two; a composition and a delay have an action   *)
(* for their second half.  Calls are made of the frames above.             *)
(***************************************************************************)
WellFormedAction(pr, a) ==
  LET x == pr.act[a] IN
  /\ x.from \in Seq(Promises) /\ Len(x.from) = (IF x.kind = "biRelay" THEN 2 ELSE 1)
  /\ x.calls \in Promises \cup {None} /\ x.out \in Outcome \ {Pending}
  /\ x.kind # "timeout" => x.to \in Promises
  /\ x.kind \in {"compose", "biCompose", "delay"} =>
       /\ x.then \in DOMAIN pr.act
       /\ pr.act[x.then].kind = IF x.kind = "delay" THEN "timeout" ELSE "relay"
  /\ x.kind = "delay" =>
       /\ pr.act[x.then].from = <<x.to>>
       /\ \A b \in DOMAIN pr.act :
            pr.act[b].kind = "delay" /\ pr.act[b].then = x.then => a = b

WellFormedFrame(pr, f) ==
  /\ f \in Frame
  /\ f.pc \in {"complete", "then", "addAction", "removeAction", "andTree", "anyOf",
               "anyOfDone", "arm", "get", "return"}
  /\ IF f.pc = "andTree" THEN f.p = None ELSE f.p \in Promises
  /\ f.pc = "complete" => f.out # Pending
  /\ IF f.pc \in {"complete", "anyOfDone", "get", "return"} THEN f.a \in {None, "timed"}
     ELSE f.a \in DOMAIN pr.act
  /\ f.pc = "andTree" => pr.act[f.a].kind = "biRelay"
  /\ f.pc \in {"anyOf", "addAction", "removeAction"} => pr.act[f.a].kind = "anyOf"
  /\ f.pc = "then" => pr.act[f.a].kind # "timeout"
  /\ f.pc = "arm" => pr.act[f.a].kind = "timeout"
  /\ f.pc \in {"then", "addAction", "anyOf", "arm"} =>
       \E i \in DOMAIN pr.act[f.a].from : pr.act[f.a].from[i] = f.p

\* The promises that an action and its second half know.
Own(x) == {x.from[i] : i \in DOMAIN x.from} \cup {x.to, x.calls}
Knows(pr, a) == Own(pr.act[a]) \cup
  IF pr.act[a].kind \in {"compose", "biCompose", "delay"} THEN Own(pr.act[pr.act[a].then]) ELSE {}

\* Frame f knows promise q; with frame f, allOf() or anyOf() creates q.
Mentions(pr, f, q) == f.p = q \/ (f.a \in DOMAIN pr.act /\ q \in Knows(pr, f.a))
Creates(pr, f, q) == f.pc \in {"andTree", "anyOf"} /\ q = pr.act[f.a].to

\* A promise is not used in the frames s before they have created it.
Ordered(pr, s) ==
  \A k \in 1 .. Len(s) : \A i \in 1 .. k - 1 : \A h \in 1 .. i : \A q \in Promises :
    Mentions(pr, s[h], q) /\ Creates(pr, s[k], q) => s[i].pc = "anyOf" /\ Creates(pr, s[i], q)

\* Call c of thread t and call d of thread u: what the one creates the other
\* has to be given, and each timeout is a new one.
Separate(pr, t, c, u, d) ==
  \A i \in 1 .. Len(c.frames), j \in 1 .. Len(d.frames) :
    LET f == c.frames[i]  g == d.frames[j] IN
    /\ \A q \in Promises : Creates(pr, f, q) /\ Mentions(pr, g, q) =>
         (t = u /\ c = d) \/ (q \in d.on /\ ~Creates(pr, g, q))
    /\ f.pc = "arm" /\ g.pc = "arm" /\ f.a = g.a => t = u /\ c = d /\ i = j

WellFormed(pr) ==
  /\ pr.roots \subseteq Promises
  /\ DOMAIN pr.act \subseteq Actions /\ \A a \in DOMAIN pr.act : WellFormedAction(pr, a)
  /\ DOMAIN pr.ops = Client
  /\ \A t \in Client : \A c \in pr.ops[t] :
       /\ c.frames \in Seq(Frame) /\ Ordered(pr, c.frames)
       /\ \A i \in 1 .. Len(c.frames) :
            /\ WellFormedFrame(pr, c.frames[i])
            /\ \A q \in pr.roots : ~Creates(pr, c.frames[i], q)
            /\ c.frames[i].pc \in {"anyOf", "anyOfDone"} =>
                 \E j \in i + 1 .. Len(c.frames) : c.frames[j].pc = "return"
            /\ c.frames[i].pc = "arm" => \A a \in DOMAIN pr.act :
                 pr.act[a].kind = "delay" => pr.act[a].then # c.frames[i].a
       /\ \A u \in Client : \A d \in pr.ops[u] : Separate(pr, t, c, u, d)

ASSUME ProgramsAssumption == \A pr \in Programs : WellFormed(pr)

(***************************************************************************)
(* Locks and steps.                                                        *)
(***************************************************************************)
Idle(t) == stack[t] = <<>>
Top(t) == Head(stack[t])
At(t, pc) == ~Idle(t) /\ Top(t).pc = pc

\* Thread t holds the lock of p.
Holds(t, p) == \E i \in DOMAIN stack[t] : stack[t][i].pc \in {"iterate", "hold"}
                                          /\ stack[t][i].p = p

\* Thread t can take the recursive lock of p.
CanLock(t, p) == \A u \in Thread \ {t} : ~Holds(u, p)

\* The innermost frame of t is replaced by the given ones.
Becomes(t, frames) == [stack EXCEPT ![t] = frames \o Tail(@)]

\* Variant: nobody is signalled.
SignalledNobody(s, p) == s

\* mCondition->signalAll(): those who wait for p have to take its lock again.
Signalled(s, p) ==
  [u \in Thread |-> IF s[u] # <<>> /\ Head(s[u]).pc = "await" /\ Head(s[u]).p = p
                      THEN <<Of("get", p, Head(s[u]).a)>> \o Tail(s[u])
                      ELSE s[u]]

\* runActions() with an iterator at the first action, or at the end.
Iterate(p) == Of("iterate", p, IF mActions[p] = <<>> THEN None ELSE Head(mActions[p]))

\* The action after a, at which the iterator is once a is erased.
Following(s, a) == LET i == SelectInSeq(s, LAMBDA b : b = a)
                   IN  IF i = Len(s) THEN None ELSE s[i + 1]

Init ==
  /\ program \in Programs
  /\ outcome = [p \in Promises |-> Pending]
  /\ mActions = [p \in Promises |-> <<>>]
  /\ claimed = {} /\ executing = <<>> /\ timers = {}
  /\ runs = [a \in Actions |-> 0]
  /\ stack = [t \in Thread |-> <<>>]
  /\ todo = program.ops
  /\ known = program.roots

\* A client thread makes one of its calls, on promises that it has got.
Begin(t) ==
  /\ Idle(t)
  /\ \E c \in todo[t] :
       /\ c.on \subseteq known
       /\ stack' = [stack EXCEPT ![t] = c.frames]
       /\ todo' = [todo EXCEPT ![t] = @ \ {c}]
  /\ UNCHANGED <<promiseVars, actionVars, program, known>>

Return(t) ==
  /\ At(t, "return")
  /\ known' = known \cup {Top(t).p}
  /\ stack' = Becomes(t, <<>>)
  /\ UNCHANGED <<promiseVars, actionVars, program, todo>>

\* complete() and completeWith(exception): the lock stays taken until the
\* actions have run.
Complete(t) ==
  LET p == Top(t).p IN
  /\ At(t, "complete") /\ CanLock(t, p)
  /\ \/ /\ ~isDone(p)
        /\ outcome' = [outcome EXCEPT ![p] = Top(t).out]
        /\ stack' = Signalled(Becomes(t, <<Iterate(p)>>), p)
     \/ /\ isDone(p)
        /\ stack' = Becomes(t, <<>>) /\ UNCHANGED outcome
  /\ UNCHANGED <<mActions, actionVars, clientVars>>

\* onComplete(), for an action that has set the result of its consumer.
OnComplete(t) ==
  LET p == Top(t).p IN
  /\ At(t, "onComplete") /\ CanLock(t, p)
  /\ stack' = Signalled(Becomes(t, <<Iterate(p)>>), p)
  /\ UNCHANGED <<promiseVars, actionVars, clientVars>>

\* One turn of the loop in runActions(); at the end the lock is released.
RunActions(t) ==
  LET p == Top(t).p  a == Top(t).a IN
  /\ At(t, "iterate")
  /\ \/ /\ a = None
        /\ stack' = Becomes(t, <<>>) /\ UNCHANGED mActions
     \/ /\ a # None /\ Contains(mActions[p], a)
        /\ stack' = Becomes(t, <<Of("tryRun", None, a),
                                 Of("iterate", p, Following(mActions[p], a))>>)
        /\ mActions' = [mActions EXCEPT ![p] = RemoveFirst(@, a)]
  /\ UNCHANGED <<outcome, actionVars, clientVars>>

\* claim(), and then run() or Executor::execute().
Claim(t, a) ==
  /\ claimed' = claimed \cup {a}
  /\ IF a \notin claimed /\ act(a).kind \notin Direct /\ ~act(a).sync
       THEN executing' = Append(executing, a) /\ stack' = Becomes(t, <<>>)
       ELSE /\ stack' = Becomes(t, IF a \in claimed THEN <<>> ELSE <<Of("run", None, a)>>)
            /\ UNCHANGED executing
  /\ UNCHANGED <<runs, timers>>

\* tryRun().  A BiRelayAction asks both suppliers, the second one below.
TryRun(t) ==
  LET a == Top(t).a IN
  /\ At(t, "tryRun")
  /\ IF act(a).kind # "biRelay"
       THEN Claim(t, a)
       ELSE /\ CanLock(t, act(a).from[1])
            /\ stack' = Becomes(t, IF isDone(act(a).from[1])
                                     THEN <<Of("tryRun2", None, a)>> ELSE <<>>)
            /\ UNCHANGED actionVars
  /\ UNCHANGED <<promiseVars, clientVars>>

\* Variant: it is enough that one of the suppliers is done.
TryRunEither(t) ==
  LET a == Top(t).a  p == act(a).from[2] IN
  /\ At(t, "tryRun2") /\ CanLock(t, p)
  /\ Claim(t, a)
  /\ UNCHANGED <<promiseVars, clientVars>>

TryRun2(t) ==
  LET a == Top(t).a  p == act(a).from[2] IN
  /\ At(t, "tryRun2") /\ CanLock(t, p)
  /\ IF isDone(p) THEN Claim(t, a)
                  ELSE stack' = Becomes(t, <<>>) /\ UNCHANGED actionVars
  /\ UNCHANGED <<promiseVars, clientVars>>

\* The looper takes the next action from its queue.
Execute ==
  /\ Idle(Looper) /\ executing # <<>>
  /\ stack' = [stack EXCEPT ![Looper] = <<Of("run", None, Head(executing))>>]
  /\ executing' = Tail(executing)
  /\ UNCHANGED <<promiseVars, claimed, runs, timers, clientVars>>

(***************************************************************************)
(* run(): read the supplier's outcome, call the function, set the result   *)
(* of the consumer, and, with its lock released in between, onComplete().  *)
(***************************************************************************)
Outcomes(a) ==
  LET o == outcome[act(a).from[1]]  k == act(a).kind IN
  CASE k = "relay" -> RelayAction(o)
    [] k = "biRelay" -> BiRelayAction(o, outcome[act(a).from[2]])
    [] k = "anyOf" -> AnyOfAction(o)
    [] k = "errorRelay" -> {toCompletionException(o)}
    [] k = "function" -> FunctionAction(o)
    [] k = "biFunction" -> BiFunctionAction(o)
    [] k = "consumer" -> ConsumerAction(o)
    [] k = "biConsumer" -> BiConsumerAction(o)
    [] k = "run" -> RunAction(o)
    [] k = "errorFunction" -> ErrorFunctionAction(o)
    [] k = "errorConsumer" -> ErrorConsumerAction(o)
    [] OTHER -> {IF o = Value THEN Thrown ELSE toCompletionException(o)}

\* The frames that run() goes on with.
RunFrames(a) ==
  LET o == outcome[act(a).from[1]]  k == act(a).kind IN
  IF k = "errorRelay" /\ o = Value THEN {<<>>}
  ELSE IF act(a).calls # None
    THEN {<<With("complete", act(a).calls, None, o), With("set", act(a).to, None, o)>>}
  ELSE {<<With("set", act(a).to, None, out)>> : out \in Outcomes(a)}

\* thenCompose(): the promise that the function returns becomes the supplier
\* of the consumer, with the relay act(a).then; the Bi form composes failures too.
CompositionFrames(a) ==
  LET o == outcome[act(a).from[1]] IN
  {<<With("set", act(a).to, None, out)>> : out \in Outcomes(a)}
  \cup IF o = Value \/ act(a).kind = "biCompose"
         THEN {<<Of("then", act(act(a).then).from[1], act(a).then)>>} ELSE {}

\* A delay arms a timeout that completes the consumer with the value.
DelayAction(a) ==
  IF outcome[act(a).from[1]] = Value THEN {<<Of("arm", act(a).to, act(a).then)>>}
                                     ELSE RunFrames(a)

Run(t) ==
  LET a == Top(t).a IN
  /\ At(t, "run")
  /\ \A i \in DOMAIN act(a).from : CanLock(t, act(a).from[i])
  /\ runs' = [runs EXCEPT ![a] = @ + 1]
  /\ \/ /\ act(a).kind = "timeout"  \* the function removes the callback
        /\ timers' = timers \ {a}
        /\ stack' = Becomes(t, <<>>)
     \/ /\ act(a).kind # "timeout"
        /\ \E frames \in CASE act(a).kind \in {"compose", "biCompose"} -> CompositionFrames(a)
                           [] act(a).kind = "delay" -> DelayAction(a)
                           [] OTHER -> RunFrames(a) :
             stack' = Becomes(t, frames)
        /\ UNCHANGED timers
  /\ UNCHANGED <<promiseVars, claimed, executing, clientVars>>

\* Variant: an action overwrites the result of its consumer.
Overwrites(p, out) == out

\* The first result stays.
Settled(p, out) == IF isDone(p) THEN outcome[p] ELSE out

\* Variant: onComplete() is forgotten.
NoNotice(p) == <<>>

Notice(p) == <<Of("onComplete", p, None)>>

\* setResult() or setException(), for a promise that is not done.
SetResult(t) ==
  LET p == Top(t).p IN
  /\ At(t, "set") /\ CanLock(t, p)
  /\ outcome' = [outcome EXCEPT ![p] = Settled(p, Top(t).out)]
  /\ stack' = Becomes(t, Notice(p))
  /\ UNCHANGED <<mActions, actionVars, clientVars>>

(***************************************************************************)
(* Dependents are added: isDone() first, and addAction() under the lock,   *)
(* which asks again.                                                       *)
(***************************************************************************)
\* Variant: an action on a promise that is done already is not tried.
ThenUnlessDone(t) ==
  LET p == Top(t).p  a == Top(t).a IN
  /\ At(t, "then") /\ CanLock(t, p)
  /\ stack' = Becomes(t, IF isDone(p) THEN <<>> ELSE <<Of("addAction", p, a)>>)
  /\ UNCHANGED <<promiseVars, actionVars, clientVars>>

Then(t) ==
  LET p == Top(t).p  a == Top(t).a IN
  /\ At(t, "then") /\ CanLock(t, p)
  /\ stack' = Becomes(t, <<IF isDone(p) THEN Of("tryRun", None, a) ELSE Of("addAction", p, a)>>)
  /\ UNCHANGED <<promiseVars, actionVars, clientVars>>

\* Variant: addAction() trusts the isDone() of its caller.
AddActionUnasked(t) ==
  LET p == Top(t).p  a == Top(t).a IN
  /\ At(t, "addAction") /\ CanLock(t, p)
  /\ mActions' = [mActions EXCEPT ![p] = Append(@, a)]
  /\ stack' = Becomes(t, <<>>)
  /\ UNCHANGED <<outcome, actionVars, clientVars>>

AddAction(t) ==
  LET p == Top(t).p  a == Top(t).a IN
  /\ At(t, "addAction") /\ CanLock(t, p)
  /\ \/ /\ isDone(p)
        /\ stack' = Becomes(t, <<Of("tryRun", None, a), Of("hold", p, None)>>)
        /\ UNCHANGED mActions
     \/ /\ ~isDone(p)
        /\ mActions' = [mActions EXCEPT ![p] = Append(@, a)]
        /\ stack' = Becomes(t, <<>>)
  /\ UNCHANGED <<outcome, actionVars, clientVars>>

Unlock(t) ==
  /\ At(t, "hold")
  /\ stack' = Becomes(t, <<>>)
  /\ UNCHANGED <<promiseVars, actionVars, clientVars>>

RemoveAction(t) ==
  LET p == Top(t).p IN
  /\ At(t, "removeAction") /\ CanLock(t, p)
  /\ mActions' = [mActions EXCEPT ![p] = RemoveFirst(@, Top(t).a)]
  /\ stack' = Becomes(t, <<>>)
  /\ UNCHANGED <<outcome, actionVars, clientVars>>

\* andTree() for two suppliers (a single one is both): the consumer, which
\* nobody knows yet, gets its result at once if both are done.
AndTree(t) ==
  LET a == Top(t).a  p1 == act(a).from[1]  p2 == act(a).from[2] IN
  /\ At(t, "andTree") /\ CanLock(t, p1)
  /\ ~isDone(p1) \/ CanLock(t, p2)
  /\ \/ /\ isDone(p1) /\ isDone(p2)
        /\ \E out \in BiRelayAction(outcome[p1], outcome[p2]) :
             outcome' = [outcome EXCEPT ![act(a).to] = out]
        /\ stack' = Becomes(t, <<>>)
     \/ /\ ~isDone(p1) \/ ~isDone(p2)
        /\ stack' = Becomes(t, <<Of("then", p1, a), Of("then", p2, a)>>)
        /\ UNCHANGED outcome
  /\ UNCHANGED <<mActions, actionVars, clientVars>>

\* The rest of an anyOf() is skipped.
SkipAnyOf(t) ==
  [stack EXCEPT ![t] = SubSeq(@, SelectInSeq(@, LAMBDA f : f.pc = "return"), Len(@))]

\* anyOf(): a supplier that is done already decides.
AnyOf(t) ==
  LET p == Top(t).p IN
  /\ At(t, "anyOf") /\ CanLock(t, p)
  /\ \/ /\ isDone(p)
        /\ \E out \in AnyOfAction(outcome[p]) :
             outcome' = [outcome EXCEPT ![act(Top(t).a).to] = out]
        /\ stack' = SkipAnyOf(t)
     \/ /\ ~isDone(p)
        /\ stack' = Becomes(t, <<>>) /\ UNCHANGED outcome
  /\ UNCHANGED <<mActions, actionVars, clientVars>>

\* anyOf(), after its actions were added: clean up if the consumer is done.
AnyOfDone(t) ==
  LET p == Top(t).p IN
  /\ At(t, "anyOfDone") /\ CanLock(t, p)
  /\ stack' = IF isDone(p) THEN Becomes(t, <<>>) ELSE SkipAnyOf(t)
  /\ UNCHANGED <<promiseVars, actionVars, clientVars>>

(***************************************************************************)
(* Timeouts: orTimeout() and completeOnTimeout() post a callback to the    *)
(* daemon and add an action that removes it; the callback asks isDone()    *)
(* before it completes.  Any delay: a posted callback may be due now.      *)
(***************************************************************************)
\* Variant: the action that removes the callback is not added.
ArmOnly(t) ==
  LET p == Top(t).p  a == Top(t).a IN
  /\ At(t, "arm") /\ CanLock(t, p)
  /\ timers' = IF isDone(p) THEN timers ELSE timers \cup {a}
  /\ stack' = Becomes(t, <<>>)
  /\ UNCHANGED <<promiseVars, claimed, runs, executing, clientVars>>

Arm(t) ==
  LET p == Top(t).p  a == Top(t).a IN
  /\ At(t, "arm") /\ CanLock(t, p)
  /\ \/ /\ isDone(p)
        /\ stack' = Becomes(t, <<>>) /\ UNCHANGED timers
     \/ /\ ~isDone(p)
        /\ timers' = timers \cup {a}
        /\ stack' = Becomes(t, <<Of("then", p, a)>>)
  /\ UNCHANGED <<promiseVars, claimed, runs, executing, clientVars>>

Due(a) ==
  /\ Idle(Daemon) /\ a \in timers
  /\ timers' = timers \ {a}
  /\ stack' = [stack EXCEPT ![Daemon] = <<Of("fire", act(a).from[1], a)>>]
  /\ UNCHANGED <<promiseVars, claimed, runs, executing, clientVars>>

Fire(t) ==
  LET p == Top(t).p IN
  /\ At(t, "fire") /\ CanLock(t, p)
  /\ stack' = Becomes(t, IF isDone(p) THEN <<>>
                         ELSE <<With("complete", p, None, act(Top(t).a).out)>>)
  /\ UNCHANGED <<promiseVars, actionVars, clientVars>>

(***************************************************************************)
(* get(): the wait for the condition releases the lock.  get(timeout) may  *)
(* also wake up because its time is over, and then has to take the lock.   *)
(***************************************************************************)
Get(t) ==
  LET p == Top(t).p IN
  /\ At(t, "get") /\ CanLock(t, p)
  /\ stack' = Becomes(t, IF isDone(p) THEN <<>> ELSE <<Of("await", p, Top(t).a)>>)
  /\ UNCHANGED <<promiseVars, actionVars, clientVars>>

GetExpires(t) ==
  /\ At(t, "await") /\ Top(t).a = "timed"
  /\ stack' = Becomes(t, <<Of("expired", Top(t).p, None)>>)
  /\ UNCHANGED <<promiseVars, actionVars, clientVars>>

\* The result after all, or a TimeoutException.
GetExpired(t) ==
  /\ At(t, "expired") /\ CanLock(t, Top(t).p)
  /\ stack' = Becomes(t, <<>>)
  /\ UNCHANGED <<promiseVars, actionVars, clientVars>>

Step(t) ==
  \/ Return(t) \/ Complete(t) \/ OnComplete(t) \/ RunActions(t) \/ TryRun(t) \/ TryRun2(t)
  \/ Run(t) \/ SetResult(t) \/ Then(t) \/ AddAction(t) \/ Unlock(t) \/ RemoveAction(t)
  \/ AndTree(t) \/ AnyOf(t) \/ AnyOfDone(t) \/ Arm(t) \/ Fire(t) \/ Get(t)
  \/ GetExpires(t) \/ GetExpired(t)

Next ==
  \/ \E t \in Client : Begin(t)
  \/ \E t \in Thread : Step(t)
  \/ \E a \in Actions : Due(a)
  \/ Execute

\* Threads run, the looper and the daemon serve their queues, and the client
\* makes its calls.
Fairness ==
  /\ \A t \in Client : WF_vars(Begin(t))
  /\ \A t \in Thread : WF_vars(Step(t))
  /\ WF_vars(Execute) /\ WF_vars(\E a \in Actions : Due(a))

Spec == Init /\ [][Next]_vars /\ Fairness

(***************************************************************************)
(* Properties.                                                             *)
(***************************************************************************)
\* Every variable holds a value of its kind.
TypeOK ==
  /\ program \in Programs
  /\ outcome \in [Promises -> Outcome]
  /\ mActions \in [Promises -> Seq(Actions)]
  /\ claimed \subseteq Actions /\ timers \subseteq Actions
  /\ runs \in [Actions -> Nat] /\ executing \in Seq(Actions)
  /\ stack \in [Thread -> Seq(Frame)]
  /\ known \subseteq Promises

\* Some thread is on its way to run the actions of p.
Completing(p) ==
  \E t \in Thread, pc \in {"onComplete", "iterate"} :
    \E i \in DOMAIN stack[t] : stack[t][i].pc = pc /\ stack[t][i].p = p

\* addAction() against complete(): an action never stays behind in the list
\* of a promise that is done, whatever the order of the two.
NoActionStranded ==
  \A p \in Promises : isDone(p) /\ ~Completing(p) => mActions[p] = <<>>

\* get() against complete(): nobody waits for a promise that is done unless
\* a thread is still about to signal.
NoLostWakeup ==
  \A p \in Promises, t \in Thread :
    isDone(p) /\ At(t, "await") /\ Top(t).p = p
      => \E u \in Thread : \E i \in DOMAIN stack[u] :
           stack[u][i].pc = "onComplete" /\ stack[u][i].p = p

\* An action runs once although several threads try it, and not before what
\* it depends on is done.
RunsOnceWhenDue ==
  \A a \in Actions :
    /\ runs[a] <= 1
    /\ runs[a] = 1 => \A i \in DOMAIN act(a).from : isDone(act(a).from[i])

\* Late completions, timeouts and a second supplier of anyOf() never change
\* the result of a promise that is done.
ResultIsFinal ==
  [][\A p \in Promises : isDone(p) => outcome'[p] = outcome[p]]_vars

\* Action a is one of the client's and produces a promise whatever the outcome.
Produces(a) == a \in DOMAIN program.act /\ act(a).kind \notin {"timeout", "errorRelay"}

\* A promise that an action produces is done sooner or later once the
\* suppliers are (the composed promise, for thenCompose, is another supplier).
DependentsComplete ==
  <>[](\A a \in Actions :
         (/\ Produces(a) /\ act(a).to \in known
          /\ \A i \in DOMAIN act(a).from : isDone(act(a).from[i])
          /\ act(a).kind \in {"compose", "biCompose"} => isDone(act(act(a).then).from[1]))
         => isDone(act(a).to))

\* No call hangs, except a get() on a promise that nobody completes.
CallsReturn ==
  <>[](\A t \in Thread : Idle(t) \/ (At(t, "await") /\ ~isDone(Top(t).p)))

\* orTimeout() against complete(): as long as a callback is with the daemon,
\* the action that will remove it waits for the promise or is under way.
NoTimerLeak ==
  \A a \in timers :
    \/ Contains(mActions[act(a).from[1]], a) \/ Contains(executing, a)
    \/ \E t \in Thread : \E i \in DOMAIN stack[t] : stack[t][i].a = a

\* What allOf() says of its result: completed when all of the promises are.
AllOfCompletes ==
  \A a \in Actions :
    (Produces(a) /\ act(a).kind = "biRelay" /\ \A i \in {1, 2} : isDone(act(a).from[i]))
      ~> (Produces(a) /\ isDone(act(a).to))
=============================================================================
