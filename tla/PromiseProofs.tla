---------------------------- MODULE PromiseProofs ----------------------------
(***************************************************************************)
(* Promises for every client that the interface allows: any promises,      *)
(* actions, threads and calls.  What a frame of a call stack may rely on   *)
(* is said frame by frame, so that the depth of the stacks does not        *)
(* matter.                                                                 *)
(***************************************************************************)
EXTENDS Promise, ListLemmas

\* The client's actions, and the promises that are done.
Table == program.act
Finished == {p \in Promises : isDone(p)}

\* With actions A and done promises D: a depends on p; all that a depends on is done.
DependsOn(A, a, p) == a \in DOMAIN A /\ \E i \in DOMAIN A[a].from : A[a].from[i] = p
Ready(A, D, a) == a \in DOMAIN A /\ \A i \in DOMAIN A[a].from : A[a].from[i] \in D

\* What a frame may rely on.
Good(A, D, f) ==
  /\ f \in Frame
  /\ f.pc \in {"iterate", "hold", "onComplete"} => f.p \in D
  /\ f.pc \in {"complete", "set"} => f.p \in Promises /\ f.out # Pending
  /\ f.pc \in {"then", "addAction", "anyOf", "arm"} => f.p \in Promises /\ DependsOn(A, f.a, f.p)
  /\ f.pc \in {"return", "get", "await", "expired", "removeAction", "anyOfDone", "fire"}
       => f.p \in Promises
  /\ f.pc = "tryRun" => f.a \in DOMAIN A /\ (A[f.a].kind # "biRelay" => Ready(A, D, f.a))
  /\ f.pc = "tryRun2" => f.a \in DOMAIN A /\ A[f.a].kind = "biRelay" /\ A[f.a].from[1] \in D
  /\ f.pc = "run" => Ready(A, D, f.a)
  /\ f.pc = "andTree" => f.a \in DOMAIN A /\ A[f.a].kind = "biRelay"
  /\ f.pc = "anyOf" => A[f.a].kind = "anyOf"
  /\ f.pc = "fire" => f.a \in DOMAIN A
  /\ f.pc = "removeAction" => f.a \in DOMAIN A /\ A[f.a].kind = "anyOf"

\* A call stack of good frames, in which what anyOf() skips comes to an end.
GoodStack(A, D, s) ==
  /\ s \in Seq(Frame)
  /\ \A i \in 1 .. Len(s) :
       /\ Good(A, D, s[i])
       /\ s[i].pc \in {"anyOf", "anyOfDone"} => \E j \in i + 1 .. Len(s) : s[j].pc = "return"

\* Frame i of stack s is about to run action a; a waits in queue q.
RunsAt(s, i, a) == i \in 1 .. Len(s) /\ s[i].pc = "run" /\ s[i].a = a
Queued(q, a) == \E i \in 1 .. Len(q) : q[i] = a

Stacks == \A t \in Thread : GoodStack(Table, Finished, stack[t])

\* A claimed action is in one place: in the looper's queue, about to be run by
\* one thread, or done; an action that nobody has claimed is in none.
Once ==
  /\ \A a \in Actions : runs[a] \in {0, 1}
  /\ \A a \in Actions : runs[a] = 1 => a \in claimed /\ ~ Queued(executing, a) /\ Ready(Table, Finished, a)
  /\ \A a \in Actions : Queued(executing, a) => a \in claimed
  /\ \A a \in Actions : \A t \in Thread, i \in Nat : RunsAt(stack[t], i, a) =>
       a \in claimed /\ runs[a] = 0 /\ ~ Queued(executing, a)
  /\ \A i, j \in 1 .. Len(executing) : executing[i] = executing[j] => i = j
  /\ \A a \in Actions : \A t, u \in Thread : \A i, j \in Nat :
       RunsAt(stack[t], i, a) /\ RunsAt(stack[u], j, a) => t = u /\ i = j

\* What is stored for later is good, too.
Stored ==
  /\ \A p \in Promises : \A i \in 1 .. Len(mActions[p]) : DependsOn(Table, mActions[p][i], p)
  /\ \A i \in 1 .. Len(executing) : Ready(Table, Finished, executing[i])
  /\ timers \subseteq DOMAIN Table
  /\ DOMAIN todo = Client /\ \A t \in Client : todo[t] \subseteq program.ops[t]

\* The inductive invariant.
Inv == TypeOK /\ Stacks /\ Once /\ Stored

(***************************************************************************)
(* Actions and their outcomes.                                             *)
(***************************************************************************)
Done == Outcome \ {Pending}

\* What the client says of its actions.
LEMMA ActionFacts ==
  ASSUME program \in Programs, NEW a \in DOMAIN Table
  PROVE  /\ a \in Actions /\ act(a) = Table[a] /\ act(a).from \in Seq(Promises)
         /\ Len(act(a).from) = (IF act(a).kind = "biRelay" THEN 2 ELSE 1)
         /\ DOMAIN act(a).from = 1 .. Len(act(a).from)
         /\ act(a).from[1] \in Promises
         /\ act(a).kind = "biRelay" => act(a).from[2] \in Promises
         /\ \A i \in DOMAIN act(a).from : act(a).from[i] \in Promises
         /\ act(a).calls \in Promises \cup {None} /\ act(a).out \in Done
         /\ act(a).kind # "timeout" => act(a).to \in Promises
         /\ act(a).kind \in {"compose", "biCompose", "delay"} => act(a).then \in DOMAIN Table
         /\ act(a).kind = "delay" => DependsOn(Table, act(a).then, act(a).to)
<1>1. WellFormed(program)
  BY ProgramsAssumption
<1>2. a \in Actions /\ WellFormedAction(program, a)
  BY <1>1 DEF WellFormed, Table
<1>3. /\ act(a) = Table[a] /\ act(a).from \in Seq(Promises)
      /\ Len(act(a).from) = (IF act(a).kind = "biRelay" THEN 2 ELSE 1)
      /\ act(a).calls \in Promises \cup {None} /\ act(a).out \in Done
      /\ act(a).kind # "timeout" => act(a).to \in Promises
      /\ act(a).kind \in {"compose", "biCompose", "delay"} => act(a).then \in DOMAIN Table
      /\ act(a).kind = "delay" => Table[act(a).then].from = <<act(a).to>>
  BY <1>2 DEF WellFormedAction, act, Table, Done
<1>4. /\ DOMAIN act(a).from = 1 .. Len(act(a).from)
      /\ act(a).from[1] \in Promises
      /\ act(a).kind = "biRelay" => act(a).from[2] \in Promises
      /\ \A i \in DOMAIN act(a).from : act(a).from[i] \in Promises
  BY <1>3, LenProperties, ElementOfSeq
<1>5. ASSUME act(a).kind = "delay" PROVE DependsOn(Table, act(a).then, act(a).to)
  <2>1. 1 \in DOMAIN Table[act(a).then].from /\ Table[act(a).then].from[1] = act(a).to
    BY <1>3, <1>5
  <2> QED BY <1>3, <1>5, <2>1 DEF DependsOn
<1> QED BY <1>2, <1>3, <1>4, <1>5

\* Promises are never undone: what a frame or an action relies on stays true.
LEMMA GoodStays ==
  ASSUME NEW A, NEW D, NEW E, D \subseteq E
  PROVE  /\ \A f : Good(A, D, f) => Good(A, E, f)
         /\ \A a : Ready(A, D, a) => Ready(A, E, a)
<1>1. \A a : Ready(A, D, a) => Ready(A, E, a)
  BY DEF Ready
<1>2. \A f : Good(A, D, f) => Good(A, E, f)
  BY <1>1 DEF Good
<1> QED BY <1>1, <1>2

\* None of the functions on outcomes gives back a pending one.
LEMMA OutcomeFacts ==
  /\ Value \in Done /\ Thrown \in Done /\ Raised("cancelled") \in Done
  /\ \A o \in Done : /\ o # Value => toCompletionException(o) \in Done
                     /\ RelayAction(o) \subseteq Done /\ FunctionAction(o) \subseteq Done
                     /\ BiConsumerAction(o) \subseteq Done
                     /\ ErrorFunctionAction(o) \subseteq Done
                     /\ ErrorConsumerAction(o) \subseteq Done
  /\ \A o1, o2 \in Done : BiRelayAction(o1, o2) \subseteq Done
<1>1. Value \in Done /\ Thrown \in Done /\ Raised("cancelled") \in Done
  BY DEF Value, Done, Outcome, Pending, Thrown, Raised, toCompletionException, Cause
<1>2. \A o \in Done : o # Value => toCompletionException(o) \in Done
  BY DEF Value, Done, Outcome, Pending, toCompletionException
<1> HIDE DEF Done
<1>3. \A o \in Done : /\ RelayAction(o) \subseteq Done /\ FunctionAction(o) \subseteq Done
                      /\ BiConsumerAction(o) \subseteq Done
                      /\ ErrorFunctionAction(o) \subseteq Done
                      /\ ErrorConsumerAction(o) \subseteq Done
  BY <1>1, <1>2 DEF RelayAction, FunctionAction, BiConsumerAction, ErrorFunctionAction,
                    ErrorConsumerAction
<1>4. \A o1, o2 \in Done : BiRelayAction(o1, o2) \subseteq Done
  BY <1>3 DEF BiRelayAction
<1> QED BY <1>1, <1>2, <1>3, <1>4

\* run() finds outcomes for its consumer if what it depends on is done.
LEMMA RunOutcomes ==
  ASSUME TypeOK, NEW a, Ready(Table, Finished, a),
         act(a).kind = "errorRelay" => outcome[act(a).from[1]] # Value
  PROVE  outcome[act(a).from[1]] \in Done /\ Outcomes(a) \subseteq Done
<1> DEFINE o == outcome[act(a).from[1]]
           o2 == outcome[act(a).from[2]]
<1>1. /\ program \in Programs /\ a \in DOMAIN Table
  BY DEF TypeOK, Ready
<1>2. /\ act(a).from[1] \in Promises /\ 1 \in DOMAIN act(a).from
      /\ act(a).kind = "biRelay" => act(a).from[2] \in Promises /\ 2 \in DOMAIN act(a).from
  BY <1>1, ActionFacts
<1>3. o \in Done /\ (act(a).kind = "biRelay" => o2 \in Done)
  BY <1>1, <1>2, ActionFacts DEF Ready, Finished, isDone, TypeOK, Done
<1> DEFINE k == act(a).kind
<1>4. Outcomes(a) =
        CASE k = "relay" -> RelayAction(o)
          [] k = "biRelay" -> BiRelayAction(o, o2)
          [] k = "anyOf" -> AnyOfAction(o)
          [] k = "errorRelay" -> {toCompletionException(o)}
          [] k = "function" -> FunctionAction(o)
          [] k = "biFunction" -> BiFunctionAction(o)
          [] k = "consumer" -> ConsumerAction(o)
          [] k = "biConsumer" -> BiConsumerAction(o)
          [] k = "run" -> RunAction(o)
          [] k = "errorFunction" -> ErrorFunctionAction(o)
          [] k = "errorConsumer" -> ErrorConsumerAction(o)
          [] OTHER -> {IF o = Value THEN Thrown ELSE toCompletionException(o)}
  BY DEF Outcomes
<1>5. /\ AnyOfAction(o) \subseteq Done /\ BiFunctionAction(o) \subseteq Done
      /\ ConsumerAction(o) \subseteq Done /\ RunAction(o) \subseteq Done
      /\ (IF o = Value THEN Thrown ELSE toCompletionException(o)) \in Done
      /\ k = "errorRelay" => toCompletionException(o) \in Done
      /\ k = "biRelay" => BiRelayAction(o, o2) \subseteq Done
      /\ RelayAction(o) \subseteq Done /\ FunctionAction(o) \subseteq Done
      /\ BiConsumerAction(o) \subseteq Done /\ ErrorFunctionAction(o) \subseteq Done
      /\ ErrorConsumerAction(o) \subseteq Done
  BY <1>3, OutcomeFacts DEF AnyOfAction, BiFunctionAction, ConsumerAction, RunAction
<1> HIDE DEF o, o2, k
<1>6. Outcomes(a) \subseteq Done
  BY <1>4, <1>5
<1> QED BY <1>3, <1>6 DEF o

(***************************************************************************)
(* Stacks.                                                                 *)
(***************************************************************************)
\* r is s with d frames replaced by n others.
Rewrites(s, r, d, n) ==
  /\ d \in Nat /\ n \in Nat /\ d <= Len(s) /\ r \in Seq(Frame)
  /\ Len(r) = n + (Len(s) - d)
  /\ \A i \in 1 .. Len(s) - d : r[n + i] = s[d + i]

\* The frames that are kept are still good.
LEMMA RewriteGood ==
  ASSUME NEW A, NEW D, NEW E, D \subseteq E, NEW s, NEW r, NEW d, NEW n,
         GoodStack(A, D, s), Rewrites(s, r, d, n),
         \A i \in 1 .. n : Good(A, E, r[i]) /\ r[i].pc \notin {"anyOf", "anyOfDone"}
  PROVE  GoodStack(A, E, r)
<1>1. /\ s \in Seq(Frame) /\ Len(s) \in Nat /\ r \in Seq(Frame) /\ Len(r) \in Nat
      /\ d \in Nat /\ n \in Nat /\ d <= Len(s) /\ Len(r) = n + (Len(s) - d)
      /\ \A i \in 1 .. Len(s) - d : r[n + i] = s[d + i]
  BY LenProperties DEF GoodStack, Rewrites
<1>2. ASSUME NEW i \in 1 .. Len(r), ~ (i <= n)
      PROVE  i - n \in 1 .. Len(s) - d /\ d + (i - n) \in 1 .. Len(s) /\ r[i] = s[d + (i - n)]
  <2>1. i - n \in 1 .. Len(s) - d /\ n + (i - n) = i /\ d + (i - n) \in 1 .. Len(s)
    BY <1>1, <1>2
  <2> QED BY <1>1, <2>1
<1>3. ASSUME NEW i \in 1 .. Len(r)
      PROVE  /\ Good(A, E, r[i])
             /\ r[i].pc \in {"anyOf", "anyOfDone"} => \E j \in i + 1 .. Len(r) : r[j].pc = "return"
  <2>1. CASE i <= n
    BY <1>1, <2>1
  <2>2. CASE ~ (i <= n)
    <3> DEFINE k == d + (i - n)
    <3>1. k \in 1 .. Len(s) /\ r[i] = s[k] /\ i - n \in 1 .. Len(s) - d
      BY <1>2, <2>2
    <3>2. Good(A, E, s[k])
      BY <3>1, GoodStays DEF GoodStack
    <3>3. ASSUME s[k].pc \in {"anyOf", "anyOfDone"}
          PROVE  \E j \in i + 1 .. Len(r) : r[j].pc = "return"
      <4>1. PICK j \in k + 1 .. Len(s) : s[j].pc = "return"
        BY <3>1, <3>3 DEF GoodStack
      <4>2. j - d \in 1 .. Len(s) - d /\ d + (j - d) = j /\ n + (j - d) \in i + 1 .. Len(r)
        BY <1>1, <3>1, <4>1
      <4>3. r[n + (j - d)] = s[j]
        BY <1>1, <4>2
      <4> QED BY <4>1, <4>2, <4>3
    <3> QED BY <3>1, <3>2, <3>3
  <2> QED BY <2>1, <2>2
<1> QED BY <1>1, <1>3 DEF GoodStack

\* The frames that are kept are at another place of the stack.
LEMMA RewriteRuns ==
  ASSUME NEW s \in Seq(Frame), NEW r, NEW d, NEW n, Rewrites(s, r, d, n),
         NEW a, NEW i, RunsAt(r, i, a), ~ (i \in 1 .. n)
  PROVE  RunsAt(s, d + (i - n), a) /\ d + (i - n) \in Nat /\ i \in Nat /\ n \in Nat /\ d \in Nat
<1>1. /\ Len(s) \in Nat /\ r \in Seq(Frame) /\ Len(r) \in Nat
      /\ d \in Nat /\ n \in Nat /\ d <= Len(s) /\ Len(r) = n + (Len(s) - d)
      /\ \A j \in 1 .. Len(s) - d : r[n + j] = s[d + j]
  BY LenProperties DEF Rewrites
<1>2. i \in 1 .. Len(r) /\ r[i].pc = "run" /\ r[i].a = a
  BY DEF RunsAt
<1>3. i - n \in 1 .. Len(s) - d /\ n + (i - n) = i /\ d + (i - n) \in 1 .. Len(s)
  BY <1>1, <1>2
<1>4. r[i] = s[d + (i - n)]
  BY <1>1, <1>3
<1> QED BY <1>1, <1>2, <1>3, <1>4 DEF RunsAt

\* Frames in the place of the innermost one.
LEMMA BecomesFacts ==
  ASSUME stack \in [Thread -> Seq(Frame)], NEW t \in Thread, stack[t] # <<>>,
         NEW fs \in Seq(Frame)
  PROVE  /\ Becomes(t, fs) \in [Thread -> Seq(Frame)]
         /\ Rewrites(stack[t], Becomes(t, fs)[t], 1, Len(fs))
         /\ \A i \in 1 .. Len(fs) : Becomes(t, fs)[t][i] = fs[i]
         /\ \A u \in Thread : u # t => Becomes(t, fs)[u] = stack[u]
<1> DEFINE s == stack[t]
           r == fs \o Tail(s)
<1>1. s \in Seq(Frame) /\ Len(s) \in Nat /\ Len(s) >= 1 /\ Len(fs) \in Nat
  BY LenProperties, EmptySeq
<1>2. /\ Tail(s) \in Seq(Frame) /\ Len(Tail(s)) = Len(s) - 1
      /\ \A i \in 1 .. Len(Tail(s)) : Tail(s)[i] = s[i + 1]
  BY <1>1, HeadTailProperties
<1>3. /\ r \in Seq(Frame) /\ Len(r) = Len(fs) + (Len(s) - 1)
      /\ \A i \in 1 .. Len(fs) : r[i] = fs[i]
      /\ \A i \in 1 .. Len(s) - 1 : r[Len(fs) + i] = s[1 + i]
  <2>1. /\ r \in Seq(Frame) /\ Len(r) = Len(fs) + Len(Tail(s))
        /\ \A i \in 1 .. Len(fs) + Len(Tail(s)) : r[i] = IF i <= Len(fs) THEN fs[i] ELSE Tail(s)[i - Len(fs)]
    BY <1>2, ConcatProperties
  <2>2. ASSUME NEW i \in 1 .. Len(s) - 1 PROVE r[Len(fs) + i] = s[1 + i]
    <3>1. /\ Len(fs) + i \in 1 .. Len(fs) + Len(Tail(s)) /\ ~ (Len(fs) + i <= Len(fs))
          /\ (Len(fs) + i) - Len(fs) = i /\ i + 1 = 1 + i
      BY <1>1, <1>2
    <3> HIDE DEF r
    <3> QED BY <1>2, <2>1, <3>1
  <2>3. \A i \in 1 .. Len(fs) : i \in 1 .. Len(fs) + Len(Tail(s)) /\ i <= Len(fs)
    BY <1>1, <1>2
  <2> QED BY <1>2, <2>1, <2>2, <2>3
<1>4. Becomes(t, fs) = [stack EXCEPT ![t] = r]
  BY DEF Becomes
<1> HIDE DEF r, s
<1>5. Becomes(t, fs)[t] = r /\ \A u \in Thread : u # t => Becomes(t, fs)[u] = stack[u]
  BY <1>4
<1>6. Becomes(t, fs) \in [Thread -> Seq(Frame)]
  BY <1>3, <1>4
<1>7. Rewrites(s, r, 1, Len(fs))
  BY <1>1, <1>3 DEF Rewrites
<1> QED BY <1>3, <1>5, <1>6, <1>7 DEF s

(***************************************************************************)
(* First matches in a list.                                                *)
(***************************************************************************)
\* Min() of places is one of them.
LEMMA FirstPlace ==
  ASSUME NEW I, I \subseteq Nat, I # {}
  PROVE  Min(I) \in I /\ \A i \in I : Min(I) <= i
<1> DEFINE R == {w \in Nat \X Nat : w[1] < w[2]}
<1>1. IsWellFoundedOn(R, Nat)
  BY NatLessThanWellFounded, Zenon DEF OpToRel
<1>2. \A m, n \in Nat : m < n => <<m, n>> \in R
  OBVIOUS
<1> HIDE DEF R
<1>3. PICK k \in I : \A j \in I : ~ (<<j, k>> \in R)
  BY <1>1, WFMin
<1>4. ASSUME NEW j \in I PROVE k <= j
  <2>1. ~ (<<j, k>> \in R) /\ j \in Nat /\ k \in Nat
    BY <1>3
  <2>2. ~ (j < k)
    BY <1>2, <2>1
  <2> QED BY <2>1, <2>2
<1> QED BY <1>4 DEF Min

\* The iterator of runActions() comes to an action of the list or to the end.
LEMMA FollowingFacts ==
  ASSUME NEW S, NEW s \in Seq(S), NEW a, Contains(s, a)
  PROVE  Following(s, a) \in S \cup {None}
<1> DEFINE I == {i \in 1 .. Len(s) : s[i] = a}
<1>1. I \subseteq Nat /\ I # {} /\ Len(s) \in Nat
  BY LenProperties DEF Contains
<1>2. SelectInSeq(s, LAMBDA b : b = a) = Min(I)
  BY <1>1 DEF SelectInSeq
<1>3. Min(I) \in 1 .. Len(s)
  BY <1>1, FirstPlace
<1> HIDE DEF I
<1>4. Following(s, a) = IF Min(I) = Len(s) THEN None ELSE s[Min(I) + 1]
  BY <1>2 DEF Following
<1>5. Min(I) # Len(s) => Min(I) + 1 \in 1 .. Len(s)
  BY <1>1, <1>3
<1> QED BY <1>4, <1>5, ElementOfSeq

\* Removing an action leaves actions that were there.
LEMMA RemoveFirstFacts ==
  ASSUME NEW S, NEW s \in Seq(S), NEW a
  PROVE  /\ RemoveFirst(s, a) \in Seq(S)
         /\ \A i \in 1 .. Len(RemoveFirst(s, a)) : \E j \in 1 .. Len(s) : RemoveFirst(s, a)[i] = s[j]
<1> DEFINE I == {i \in 1 .. Len(s) : s[i] = a}
<1>1. CASE ~ (\E i \in 1 .. Len(s) : s[i] = a)
  <2>1. RemoveFirst(s, a) = s
    BY <1>1 DEF RemoveFirst
  <2> QED BY <2>1
<1>2. CASE \E i \in 1 .. Len(s) : s[i] = a
  <2>1. I \subseteq Nat /\ I # {} /\ Len(s) \in Nat
    BY <1>2, LenProperties
  <2>2. SelectInSeq(s, LAMBDA b : b = a) = Min(I)
    BY <2>1 DEF SelectInSeq
  <2>3. Min(I) \in 1 .. Len(s)
    BY <2>1, FirstPlace
  <2> HIDE DEF I
  <2>4. RemoveFirst(s, a) = RemoveAt(s, Min(I))
    BY <1>2, <2>2 DEF RemoveFirst
  <2> DEFINE k == Min(I)
  <2> HIDE DEF k
  <2>5. /\ RemoveAt(s, k) \in Seq(S) /\ Len(RemoveAt(s, k)) = Len(s) - 1
        /\ \A j \in 1 .. Len(s) - 1 : RemoveAt(s, k)[j] = IF j < k THEN s[j] ELSE s[j + 1]
    BY <2>3, RemoveAtProperties DEF k
  <2>6. ASSUME NEW i \in 1 .. Len(s) - 1
        PROVE  \E j \in 1 .. Len(s) : RemoveAt(s, k)[i] = s[j]
    <3>1. i \in 1 .. Len(s) /\ i + 1 \in 1 .. Len(s)
      BY <2>1
    <3> QED BY <2>5, <3>1
  <2> QED BY <2>4, <2>5, <2>6 DEF k
<1> QED BY <1>1, <1>2

(***************************************************************************)
(* Stacks from step to step.                                               *)
(***************************************************************************)
\* Frames that a step may push, and frames that run nothing.
Fits(A, D, fs) ==
  /\ fs \in Seq(Frame)
  /\ \A i \in 1 .. Len(fs) : Good(A, D, fs[i]) /\ fs[i].pc \notin {"anyOf", "anyOfDone"}
Plain(fs) == \A i \in 1 .. Len(fs) : fs[i].pc # "run"

\* What stack r is about to run, stack s was, as far from the bottom.
KeepsRuns(s, r) ==
  /\ s \in Seq(Frame) /\ r \in Seq(Frame)
  /\ \A i \in 1 .. Len(r) : r[i].pc = "run" => RunsAt(s, i + (Len(s) - Len(r)), r[i].a)

\* The frames that steps push: none, one or two.
LEMMA FitsFacts ==
  ASSUME NEW A, NEW D
  PROVE  /\ Fits(A, D, <<>>) /\ Plain(<<>>)
         /\ \A f : /\ Good(A, D, f) /\ f.pc \notin {"anyOf", "anyOfDone"} => Fits(A, D, <<f>>)
                   /\ f.pc # "run" => Plain(<<f>>)
         /\ \A f, g : /\ Fits(A, D, <<f>>) /\ Fits(A, D, <<g>>) => Fits(A, D, <<f, g>>)
                      /\ f.pc # "run" /\ g.pc # "run" => Plain(<<f, g>>)
<1>1. Fits(A, D, <<>>) /\ Plain(<<>>)
  BY DEF Fits, Plain
<1>2. ASSUME NEW f, Good(A, D, f), f.pc \notin {"anyOf", "anyOfDone"} PROVE Fits(A, D, <<f>>)
  <2>1. f \in Frame
    BY <1>2 DEF Good
  <2>2. <<f>> \in Seq(Frame) /\ Len(<<f>>) = 1 /\ <<f>>[1] = f
    BY <2>1
  <2>3. \A i \in 1 .. 1 : i = 1
    OBVIOUS
  <2> QED BY <1>2, <2>2, <2>3 DEF Fits
<1>3. ASSUME NEW f, f.pc # "run" PROVE Plain(<<f>>)
  <2>1. Len(<<f>>) = 1 /\ <<f>>[1] = f /\ \A i \in 1 .. 1 : i = 1
    OBVIOUS
  <2> QED BY <1>3, <2>1 DEF Plain
<1>4. ASSUME NEW f, NEW g, Fits(A, D, <<f>>), Fits(A, D, <<g>>) PROVE Fits(A, D, <<f, g>>)
  <2>0. ASSUME NEW h, Fits(A, D, <<h>>) PROVE Good(A, D, h) /\ h.pc \notin {"anyOf", "anyOfDone"}
    <3>1. 1 \in 1 .. Len(<<h>>) /\ <<h>>[1] = h
      OBVIOUS
    <3> QED BY <2>0, <3>1 DEF Fits
  <2>1. f \in Frame /\ g \in Frame
    BY <1>4, <2>0 DEF Good
  <2>2. <<f, g>> \in Seq(Frame) /\ Len(<<f, g>>) = 2 /\ <<f, g>>[1] = f /\ <<f, g>>[2] = g
    BY <2>1
  <2>3. \A i \in 1 .. 2 : i = 1 \/ i = 2
    OBVIOUS
  <2> QED BY <1>4, <2>0, <2>2, <2>3 DEF Fits
<1>5. ASSUME NEW f, NEW g, f.pc # "run", g.pc # "run" PROVE Plain(<<f, g>>)
  <2> DEFINE fs == <<f, g>>
  <2>1. Len(fs) = 2 /\ fs[1] = f /\ fs[2] = g
    OBVIOUS
  <2> HIDE DEF fs
  <2>2. \A i \in 1 .. 2 : i = 1 \/ i = 2
    OBVIOUS
  <2>3. Plain(fs)
    BY <1>5, <2>1, <2>2 DEF Plain
  <2> QED BY <2>3 DEF fs
<1> QED BY <1>1, <1>2, <1>3, <1>4, <1>5

\* A rewriting without new run frames keeps what runs.
LEMMA RewriteKeeps ==
  ASSUME NEW s \in Seq(Frame), NEW r, NEW d, NEW n, Rewrites(s, r, d, n),
         \A i \in 1 .. n : r[i].pc # "run"
  PROVE  KeepsRuns(s, r)
<1>1. Len(s) \in Nat /\ d \in Nat /\ n \in Nat /\ r \in Seq(Frame) /\ Len(r) = n + (Len(s) - d)
  BY LenProperties DEF Rewrites
<1>2. ASSUME NEW i \in 1 .. Len(r), r[i].pc = "run"
      PROVE  RunsAt(s, i + (Len(s) - Len(r)), r[i].a)
  <2>1. RunsAt(r, i, r[i].a) /\ ~ (i \in 1 .. n)
    BY <1>2 DEF RunsAt
  <2>2. RunsAt(s, d + (i - n), r[i].a)
    BY <2>1, RewriteRuns
  <2>3. i \in Int /\ d + (i - n) = i + (Len(s) - Len(r))
    BY <1>1
  <2> QED BY <2>2, <2>3
<1> QED BY <1>1, <1>2 DEF KeepsRuns

\* A stack that stays.
LEMMA SameStack ==
  ASSUME NEW A, NEW D, NEW E, D \subseteq E, NEW s
  PROVE  /\ GoodStack(A, D, s) => GoodStack(A, E, s)
         /\ s \in Seq(Frame) => KeepsRuns(s, s)
<1>1. ASSUME s \in Seq(Frame) PROVE Rewrites(s, s, 0, 0)
  <2>1. Len(s) \in Nat
    BY <1>1, LenProperties
  <2> QED BY <1>1, <2>1 DEF Rewrites
<1>2. \A i \in 1 .. 0 : FALSE
  OBVIOUS
<1>3. ASSUME GoodStack(A, D, s) PROVE GoodStack(A, E, s)
  <2>1. s \in Seq(Frame)
    BY <1>3 DEF GoodStack
  <2> QED BY <1>1, <1>2, <1>3, <2>1, RewriteGood
<1>4. ASSUME s \in Seq(Frame) PROVE KeepsRuns(s, s)
  BY <1>1, <1>2, <1>4, RewriteKeeps
<1> QED BY <1>3, <1>4

\* One step after the other.
LEMMA KeepsRunsTwice ==
  ASSUME NEW s, NEW r, NEW q, KeepsRuns(s, r), KeepsRuns(r, q)
  PROVE  KeepsRuns(s, q)
<1>1. /\ s \in Seq(Frame) /\ r \in Seq(Frame) /\ q \in Seq(Frame)
      /\ Len(s) \in Nat /\ Len(r) \in Nat /\ Len(q) \in Nat
  BY LenProperties DEF KeepsRuns
<1>2. ASSUME NEW i \in 1 .. Len(q), q[i].pc = "run"
      PROVE  RunsAt(s, i + (Len(s) - Len(q)), q[i].a)
  <2> DEFINE j == i + (Len(r) - Len(q))
  <2>1. RunsAt(r, j, q[i].a)
    BY <1>2 DEF KeepsRuns
  <2>2. j \in 1 .. Len(r) /\ r[j].pc = "run" /\ r[j].a = q[i].a
    BY <2>1 DEF RunsAt
  <2>3. j + (Len(s) - Len(r)) = i + (Len(s) - Len(q))
    BY <1>1
  <2> HIDE DEF j
  <2>4. RunsAt(s, j + (Len(s) - Len(r)), r[j].a)
    BY <2>2 DEF KeepsRuns
  <2> QED BY <2>2, <2>3, <2>4
<1> QED BY <1>1, <1>2 DEF KeepsRuns

\* All stacks are good with actions A and done promises D.
AllGood(A, D, S) == S \in [Thread -> Seq(Frame)] /\ \A u \in Thread : GoodStack(A, D, S[u])

\* No stack has anything new to run.
AllKeepRuns(S, R) == \A u \in Thread : KeepsRuns(S[u], R[u])

\* Frames in the place of the innermost one.
LEMMA BecomesGood ==
  ASSUME NEW A, NEW D, NEW E, D \subseteq E, AllGood(A, D, stack),
         NEW t \in Thread, stack[t] # <<>>, NEW fs, Fits(A, E, fs)
  PROVE  AllGood(A, E, Becomes(t, fs)) /\ (Plain(fs) => AllKeepRuns(stack, Becomes(t, fs)))
<1> DEFINE S == Becomes(t, fs)
<1>1. stack \in [Thread -> Seq(Frame)] /\ fs \in Seq(Frame) /\ \A u \in Thread : GoodStack(A, D, stack[u])
  BY DEF AllGood, Fits
<1>2. /\ S \in [Thread -> Seq(Frame)]
      /\ Rewrites(stack[t], S[t], 1, Len(fs))
      /\ \A i \in 1 .. Len(fs) : S[t][i] = fs[i]
      /\ \A u \in Thread : u # t => S[u] = stack[u]
  BY <1>1, BecomesFacts
<1> HIDE DEF S
<1>3. GoodStack(A, E, S[t])
  <2>1. \A i \in 1 .. Len(fs) : Good(A, E, S[t][i]) /\ S[t][i].pc \notin {"anyOf", "anyOfDone"}
    BY <1>2 DEF Fits
  <2> QED BY <1>1, <1>2, <2>1, RewriteGood
<1>4. ASSUME Plain(fs) PROVE KeepsRuns(stack[t], S[t])
  <2>1. \A i \in 1 .. Len(fs) : S[t][i].pc # "run"
    BY <1>2, <1>4 DEF Plain
  <2> QED BY <1>1, <1>2, <2>1, RewriteKeeps
<1>5. \A u \in Thread : u # t => GoodStack(A, E, S[u]) /\ KeepsRuns(stack[u], S[u])
  BY <1>1, <1>2, SameStack
<1>6. AllGood(A, E, S)
  BY <1>2, <1>3, <1>5 DEF AllGood
<1>7. Plain(fs) => AllKeepRuns(stack, S)
  BY <1>4, <1>5 DEF AllKeepRuns
<1> QED BY <1>6, <1>7 DEF S

\* signalAll() turns a wait into another get().
LEMMA SignalledGood ==
  ASSUME NEW A, NEW D, NEW S, AllGood(A, D, S), NEW p
  PROVE  AllGood(A, D, Signalled(S, p)) /\ AllKeepRuns(S, Signalled(S, p))
<1> DEFINE R == Signalled(S, p)
<1>1. S \in [Thread -> Seq(Frame)] /\ \A u \in Thread : GoodStack(A, D, S[u])
  BY DEF AllGood
<1>2. ASSUME NEW u \in Thread
      PROVE  R[u] \in Seq(Frame) /\ GoodStack(A, D, R[u]) /\ KeepsRuns(S[u], R[u])
  <2> DEFINE s == S[u]
             g == Of("get", p, Head(s).a)
  <2>1. R[u] = IF s # <<>> /\ Head(s).pc = "await" /\ Head(s).p = p THEN <<g>> \o Tail(s) ELSE s
    BY DEF Signalled
  <2>2. s \in Seq(Frame) /\ GoodStack(A, D, s)
    BY <1>1
  <2> HIDE DEF R, s
  <2>3. CASE ~ (s # <<>> /\ Head(s).pc = "await" /\ Head(s).p = p)
    <3>1. R[u] = s
      BY <2>1, <2>3
    <3> QED BY <2>2, <3>1, SameStack DEF s
  <2>4. CASE s # <<>> /\ Head(s).pc = "await" /\ Head(s).p = p
    <3>1. /\ R[u] = <<g>> \o Tail(s) /\ Len(s) \in Nat /\ Len(s) >= 1
          /\ Head(s) = s[1] /\ Tail(s) \in Seq(Frame) /\ Len(Tail(s)) = Len(s) - 1
          /\ \A i \in 1 .. Len(Tail(s)) : Tail(s)[i] = s[i + 1]
      BY <2>1, <2>2, <2>4, LenProperties, EmptySeq, HeadTailProperties
    <3>2. Good(A, D, s[1]) /\ s[1] \in Frame
      BY <2>2, <3>1 DEF GoodStack, Good
    <3>3. s[1].pc = "await" /\ s[1].p = p /\ p \in Promises
      BY <2>4, <3>1, <3>2 DEF Good
    <3>4. g = [pc |-> "get", p |-> p, a |-> s[1].a, out |-> Pending] /\ Pending \in Outcome
      BY <3>1 DEF Of, Outcome
    <3>5. g \in Frame /\ g.pc = "get" /\ g.p = p
      BY <3>2, <3>3, <3>4 DEF Frame, PC
    <3> HIDE DEF g
    <3>6. Good(A, D, g)
      BY <3>3, <3>5 DEF Good
    <3>7. /\ R[u] \in Seq(Frame) /\ Len(R[u]) = 1 + (Len(s) - 1)
          /\ R[u][1] = g /\ \A i \in 1 .. Len(s) - 1 : R[u][1 + i] = s[1 + i]
      <4>1. <<g>> \in Seq(Frame) /\ Len(<<g>>) = 1 /\ <<g>>[1] = g
        BY <3>5
      <4>2. /\ R[u] \in Seq(Frame) /\ Len(R[u]) = 1 + Len(Tail(s))
            /\ \A i \in 1 .. 1 + Len(Tail(s)) : R[u][i] = IF i <= 1 THEN <<g>>[i] ELSE Tail(s)[i - 1]
        BY <3>1, <4>1, ConcatProperties
      <4>3. ASSUME NEW i \in 1 .. Len(s) - 1 PROVE R[u][1 + i] = s[1 + i]
        <5>1. 1 + i \in 1 .. 1 + Len(Tail(s)) /\ ~ (1 + i <= 1) /\ (1 + i) - 1 = i /\ i + 1 = 1 + i
          BY <3>1
        <5> QED BY <3>1, <4>2, <5>1
      <4>4. 1 \in 1 .. 1 + Len(Tail(s)) /\ 1 <= 1
        BY <3>1
      <4> QED BY <3>1, <4>1, <4>2, <4>3, <4>4
    <3>8. Rewrites(s, R[u], 1, 1)
      BY <3>1, <3>7 DEF Rewrites
    <3>9. \A i \in 1 .. 1 : Good(A, D, R[u][i]) /\ R[u][i].pc = "get"
      <4>1. \A i \in 1 .. 1 : i = 1
        OBVIOUS
      <4> QED BY <3>5, <3>6, <3>7, <4>1
    <3>10. GoodStack(A, D, R[u])
      BY <2>2, <3>8, <3>9, RewriteGood
    <3>11. KeepsRuns(s, R[u])
      BY <2>2, <3>8, <3>9, RewriteKeeps
    <3> QED BY <3>7, <3>10, <3>11 DEF s
  <2> QED BY <2>3, <2>4
<1>3. R \in [Thread -> Seq(Frame)]
  <2>1. R = [u \in Thread |-> R[u]]
    BY DEF Signalled
  <2> HIDE DEF R
  <2> QED BY <1>2, <2>1
<1> QED BY <1>2, <1>3 DEF AllGood, AllKeepRuns

\* What anyOf() skips is on the stack up to a return.
LEMMA SkipGood ==
  ASSUME NEW A, NEW D, NEW E, D \subseteq E, AllGood(A, D, stack),
         NEW t \in Thread, stack[t] # <<>>, Top(t).pc \in {"anyOf", "anyOfDone"}
  PROVE  AllGood(A, E, SkipAnyOf(t)) /\ AllKeepRuns(stack, SkipAnyOf(t))
<1> DEFINE S == SkipAnyOf(t)
           s == stack[t]
           I == {i \in 1 .. Len(s) : s[i].pc = "return"}
           k == Min(I)
<1>1. stack \in [Thread -> Seq(Frame)] /\ \A u \in Thread : GoodStack(A, D, stack[u])
  BY DEF AllGood
<1>2. s \in Seq(Frame) /\ Len(s) \in Nat /\ Len(s) >= 1 /\ s[1].pc \in {"anyOf", "anyOfDone"}
  BY <1>1, LenProperties, EmptySeq, HeadTailProperties DEF Top
<1>3. PICK j \in 2 .. Len(s) : s[j].pc = "return"
  <2>1. 1 \in 1 .. Len(s)
    BY <1>2
  <2>2. PICK j \in 1 + 1 .. Len(s) : s[j].pc = "return"
    BY <1>1, <1>2, <2>1 DEF GoodStack
  <2> QED BY <2>2
<1>4. I \subseteq Nat /\ I # {}
  BY <1>2, <1>3
<1>5. k \in 1 .. Len(s)
  BY <1>4, FirstPlace
<1>6. SelectInSeq(s, LAMBDA f : f.pc = "return") = k
  BY <1>4 DEF SelectInSeq
<1> HIDE DEF k, I
<1>7. S = [stack EXCEPT ![t] = SubSeq(s, k, Len(s))]
  BY <1>6 DEF SkipAnyOf
<1>8. /\ SubSeq(s, k, Len(s)) \in Seq(Frame) /\ Len(SubSeq(s, k, Len(s))) = Len(s) - k + 1
      /\ \A i \in 1 .. Len(s) - k + 1 : SubSeq(s, k, Len(s))[i] = s[k + i - 1]
  BY <1>2, <1>5, SubSeqProperties
<1>9. S \in [Thread -> Seq(Frame)] /\ S[t] = SubSeq(s, k, Len(s)) /\ \A u \in Thread : u # t => S[u] = stack[u]
  BY <1>1, <1>7, <1>8
<1> HIDE DEF S
<1>10. Rewrites(s, S[t], k - 1, 0)
  <2>1. k - 1 \in Nat /\ k - 1 <= Len(s) /\ Len(S[t]) = 0 + (Len(s) - (k - 1))
    BY <1>2, <1>5, <1>8, <1>9
  <2>2. ASSUME NEW i \in 1 .. Len(s) - (k - 1) PROVE S[t][0 + i] = s[(k - 1) + i]
    <3>1. i \in 1 .. Len(s) - k + 1 /\ 0 + i = i /\ k + i - 1 = (k - 1) + i
      BY <1>2, <1>5
    <3> QED BY <1>8, <1>9, <3>1
  <2> QED BY <1>8, <1>9, <2>1, <2>2 DEF Rewrites
<1>11. \A i \in 1 .. 0 : FALSE
  OBVIOUS
<1>12. GoodStack(A, E, S[t])
  BY <1>1, <1>10, <1>11, RewriteGood DEF s
<1>13. KeepsRuns(s, S[t])
  BY <1>2, <1>10, <1>11, RewriteKeeps
<1>14. \A u \in Thread : u # t => GoodStack(A, E, S[u]) /\ KeepsRuns(stack[u], S[u])
  BY <1>1, <1>9, SameStack
<1> QED BY <1>9, <1>12, <1>13, <1>14 DEF AllGood, AllKeepRuns, s, S

(***************************************************************************)
(* Once from step to step.                                                 *)
(***************************************************************************)
\* Where a run frame comes from.
LEMMA RunsBack ==
  ASSUME NEW s, NEW r, KeepsRuns(s, r), NEW a, NEW i, RunsAt(r, i, a)
  PROVE  /\ RunsAt(s, i + (Len(s) - Len(r)), a) /\ i + (Len(s) - Len(r)) \in Nat
         /\ i \in Nat /\ Len(s) \in Nat /\ Len(r) \in Nat
<1>1. s \in Seq(Frame) /\ r \in Seq(Frame) /\ Len(s) \in Nat /\ Len(r) \in Nat
  BY LenProperties DEF KeepsRuns
<1>2. i \in 1 .. Len(r) /\ r[i].pc = "run" /\ r[i].a = a
  BY DEF RunsAt
<1>3. RunsAt(s, i + (Len(s) - Len(r)), a)
  BY <1>2 DEF KeepsRuns
<1>4. i + (Len(s) - Len(r)) \in 1 .. Len(s)
  BY <1>3 DEF RunsAt
<1> QED BY <1>1, <1>2, <1>3, <1>4

\* Run frames that come from different frames are different.
LEMMA RunsUnique ==
  ASSUME Once, AllKeepRuns(stack, stack')
  PROVE  \A a \in Actions : \A t, u \in Thread : \A i, j \in Nat :
           RunsAt(stack'[t], i, a) /\ RunsAt(stack'[u], j, a) => t = u /\ i = j
<1> SUFFICES ASSUME NEW a \in Actions, NEW t \in Thread, NEW u \in Thread,
                    NEW i \in Nat, NEW j \in Nat,
                    RunsAt(stack'[t], i, a), RunsAt(stack'[u], j, a)
             PROVE  t = u /\ i = j
  OBVIOUS
<1> DEFINE k == i + (Len(stack[t]) - Len(stack'[t]))
           l == j + (Len(stack[u]) - Len(stack'[u]))
<1>1. KeepsRuns(stack[t], stack'[t]) /\ KeepsRuns(stack[u], stack'[u])
  BY DEF AllKeepRuns
<1>2. /\ RunsAt(stack[t], k, a) /\ k \in Nat /\ Len(stack[t]) \in Nat /\ Len(stack'[t]) \in Nat
      /\ RunsAt(stack[u], l, a) /\ l \in Nat
  BY <1>1, RunsBack
<1>3. t = u /\ k = l
  <2> HIDE DEF k, l
  <2> QED BY <1>2 DEF Once
<1>4. i + (Len(stack[t]) - Len(stack'[t])) = j + (Len(stack[t]) - Len(stack'[t]))
  BY <1>3
<1> QED BY <1>2, <1>3, <1>4

\* Steps that claim, queue and run nothing.
LEMMA OnceQuiet ==
  ASSUME Once, AllKeepRuns(stack, stack'), runs' = runs, executing' = executing,
         claimed \subseteq claimed', Table' = Table, Finished \subseteq Finished'
  PROVE  Once'
<1>1. \A a : Ready(Table, Finished, a) => Ready(Table', Finished', a)
  BY GoodStays
<1>2. \A a \in Actions : \A t \in Thread, i \in Nat : RunsAt(stack'[t], i, a) =>
        a \in claimed' /\ runs[a] = 0 /\ ~ Queued(executing, a)
  <2> SUFFICES ASSUME NEW a \in Actions, NEW t \in Thread, NEW i \in Nat, RunsAt(stack'[t], i, a)
               PROVE  a \in claimed' /\ runs[a] = 0 /\ ~ Queued(executing, a)
    OBVIOUS
  <2>1. KeepsRuns(stack[t], stack'[t])
    BY DEF AllKeepRuns
  <2>2. PICK k \in Nat : RunsAt(stack[t], k, a)
    BY <2>1, RunsBack
  <2> QED BY <2>2 DEF Once
<1>3. /\ \A a \in Actions : runs[a] \in {0, 1}
      /\ \A a \in Actions : runs[a] = 1 =>
           a \in claimed' /\ ~ Queued(executing, a) /\ Ready(Table', Finished', a)
      /\ \A a \in Actions : Queued(executing, a) => a \in claimed'
      /\ \A i, j \in 1 .. Len(executing) : executing[i] = executing[j] => i = j
  BY <1>1 DEF Once
<1> QED BY <1>2, <1>3, RunsUnique DEF Once

\* A claimed action goes onto the stack of the thread that claimed it.
LEMMA OnceClaimRun ==
  ASSUME TypeOK, Once, NEW t \in Thread, stack[t] # <<>>, NEW b \in Actions, b \notin claimed,
         claimed' = claimed \cup {b}, runs' = runs, executing' = executing,
         stack' = Becomes(t, <<Of("run", None, b)>>), Table' = Table, Finished' = Finished
  PROVE  Once'
<1> DEFINE f == Of("run", None, b)
<1>1. f \in Frame /\ f.pc = "run" /\ f.a = b
  BY DEF Of, Frame, PC, Outcome
<1>2. <<f>> \in Seq(Frame) /\ Len(<<f>>) = 1 /\ <<f>>[1] = f
  BY <1>1
<1>3. stack \in [Thread -> Seq(Frame)]
  BY DEF TypeOK
<1> HIDE DEF f
<1>4. /\ Rewrites(stack[t], stack'[t], 1, 1)
      /\ \A u \in Thread : u # t => stack'[u] = stack[u]
  BY <1>2, <1>3, BecomesFacts DEF f
<1>5. ASSUME NEW a \in Actions, NEW u \in Thread, NEW i \in Nat, RunsAt(stack'[u], i, a)
      PROVE  (u = t /\ i = 1 /\ a = b) \/ RunsAt(stack[u], i, a)
  <2>1. CASE u # t
    BY <1>4, <1>5, <2>1
  <2>2. CASE u = t /\ i \in 1 .. 1
    <3>1. \A j \in 1 .. Len(<<f>>) : Becomes(t, <<f>>)[t][j] = <<f>>[j]
      BY <1>2, <1>3, BecomesFacts
    <3>2. i = 1 /\ stack'[t][1] = f
      BY <1>2, <2>2, <3>1 DEF f
    <3> QED BY <1>1, <1>5, <2>2, <3>2 DEF RunsAt
  <2>3. CASE u = t /\ ~ (i \in 1 .. 1)
    <3>1. stack[t] \in Seq(Frame)
      BY <1>3
    <3>2. RunsAt(stack[t], 1 + (i - 1), a)
      BY <1>4, <1>5, <2>3, <3>1, RewriteRuns
    <3>3. 1 + (i - 1) = i
      OBVIOUS
    <3> QED BY <2>3, <3>2, <3>3
  <2> QED BY <2>1, <2>2, <2>3
<1>6. runs[b] = 0 /\ ~ Queued(executing, b) /\ \A u \in Thread : \A i \in Nat : ~ RunsAt(stack[u], i, b)
  BY DEF Once
<1>7. /\ \A a \in Actions : runs[a] \in {0, 1}
      /\ \A a \in Actions : runs[a] = 1 =>
           a \in claimed' /\ ~ Queued(executing, a) /\ Ready(Table', Finished', a)
      /\ \A a \in Actions : Queued(executing, a) => a \in claimed'
      /\ \A i, j \in 1 .. Len(executing) : executing[i] = executing[j] => i = j
  BY DEF Once
<1>8. \A a \in Actions : \A u \in Thread, i \in Nat : RunsAt(stack'[u], i, a) =>
        a \in claimed' /\ runs[a] = 0 /\ ~ Queued(executing, a)
  BY <1>5, <1>6 DEF Once
<1>9. \A a \in Actions : \A u, v \in Thread : \A i, j \in Nat :
        RunsAt(stack'[u], i, a) /\ RunsAt(stack'[v], j, a) => u = v /\ i = j
  <2> SUFFICES ASSUME NEW a \in Actions, NEW u \in Thread, NEW v \in Thread,
                      NEW i \in Nat, NEW j \in Nat, RunsAt(stack'[u], i, a), RunsAt(stack'[v], j, a)
               PROVE  u = v /\ i = j
    OBVIOUS
  <2>1. CASE a = b
    BY <1>5, <1>6, <2>1
  <2>2. CASE a # b
    <3>1. RunsAt(stack[u], i, a) /\ RunsAt(stack[v], j, a)
      BY <1>5, <2>2
    <3> QED BY <3>1 DEF Once
  <2> QED BY <2>1, <2>2
<1> QED BY <1>7, <1>8, <1>9 DEF Once

\* A claimed action goes to the looper.
LEMMA OnceClaimQueue ==
  ASSUME TypeOK, Once, NEW b \in Actions, b \notin claimed, claimed' = claimed \cup {b},
         AllKeepRuns(stack, stack'), runs' = runs, executing' = Append(executing, b),
         Table' = Table, Finished' = Finished
  PROVE  Once'
<1>1. executing \in Seq(Actions) /\ Len(executing) \in Nat
  BY LenProperties DEF TypeOK
<1>2. /\ Len(executing') = Len(executing) + 1
      /\ \A i \in 1 .. Len(executing) : executing'[i] = executing[i]
      /\ executing'[Len(executing) + 1] = b
  BY <1>1, AppendProperties
<1>3. ASSUME NEW i \in 1 .. Len(executing')
      PROVE  (i \in 1 .. Len(executing) /\ executing'[i] = executing[i])
             \/ (i = Len(executing) + 1 /\ executing'[i] = b)
  BY <1>1, <1>2
<1>4. \A a : Queued(executing', a) => Queued(executing, a) \/ a = b
  BY <1>3 DEF Queued
<1>5. runs[b] = 0 /\ ~ Queued(executing, b) /\ \A u \in Thread : \A i \in Nat : ~ RunsAt(stack[u], i, b)
  BY DEF Once
<1>6. /\ \A a \in Actions : runs[a] \in {0, 1}
      /\ \A a \in Actions : runs[a] = 1 =>
           a \in claimed' /\ ~ Queued(executing', a) /\ Ready(Table', Finished', a)
      /\ \A a \in Actions : Queued(executing', a) => a \in claimed'
  BY <1>4, <1>5 DEF Once
<1>7. \A i, j \in 1 .. Len(executing') : executing'[i] = executing'[j] => i = j
  <2> SUFFICES ASSUME NEW i \in 1 .. Len(executing'), NEW j \in 1 .. Len(executing'),
                      executing'[i] = executing'[j]
               PROVE  i = j
    OBVIOUS
  <2>1. \A k \in 1 .. Len(executing) : executing[k] # b
    BY <1>5 DEF Queued
  <2> QED BY <1>3, <2>1 DEF Once
<1>8. \A a \in Actions : \A t \in Thread, i \in Nat : RunsAt(stack'[t], i, a) =>
        a \in claimed' /\ runs[a] = 0 /\ ~ Queued(executing', a)
  <2> SUFFICES ASSUME NEW a \in Actions, NEW t \in Thread, NEW i \in Nat, RunsAt(stack'[t], i, a)
               PROVE  a \in claimed' /\ runs[a] = 0 /\ ~ Queued(executing', a)
    OBVIOUS
  <2>1. KeepsRuns(stack[t], stack'[t])
    BY DEF AllKeepRuns
  <2>2. PICK k \in Nat : RunsAt(stack[t], k, a)
    BY <2>1, RunsBack
  <2>3. a # b /\ a \in claimed /\ runs[a] = 0 /\ ~ Queued(executing, a)
    BY <1>5, <2>2 DEF Once
  <2> QED BY <1>4, <2>3
<1> QED BY <1>6, <1>7, <1>8, RunsUnique DEF Once

\* The looper takes an action.
LEMMA OnceExecute ==
  ASSUME TypeOK, Once, Execute, Table' = Table, Finished' = Finished
  PROVE  Once'
<1> DEFINE b == Head(executing)
           f == Of("run", None, b)
<1>1. /\ executing \in Seq(Actions) /\ Len(executing) \in Nat /\ Len(executing) >= 1
      /\ b = executing[1] /\ b \in Actions /\ executing' = Tail(executing)
      /\ Len(executing') = Len(executing) - 1
      /\ \A i \in 1 .. Len(executing) - 1 : executing'[i] = executing[i + 1]
  BY LenProperties, EmptySeq, HeadTailProperties DEF TypeOK, Execute
<1>2. /\ stack \in [Thread -> Seq(Frame)] /\ Looper \in Thread
      /\ stack' = [stack EXCEPT ![Looper] = <<f>>] /\ claimed' = claimed /\ runs' = runs
  BY DEF TypeOK, Execute, Thread
<1>3. f.pc = "run" /\ f.a = b
  BY DEF Of
<1> HIDE DEF b, f
<1>4. stack'[Looper] = <<f>> /\ \A u \in Thread : u # Looper => stack'[u] = stack[u]
  BY <1>2
<1>5. Queued(executing, b)
  <2>1. 1 \in 1 .. Len(executing)
    BY <1>1
  <2> QED BY <1>1, <2>1 DEF Queued
<1>6. b \in claimed /\ runs[b] = 0 /\ \A u \in Thread : \A i \in Nat : ~ RunsAt(stack[u], i, b)
  BY <1>1, <1>5 DEF Once
<1>7. ASSUME NEW i \in 1 .. Len(executing')
      PROVE  i + 1 \in 1 .. Len(executing) /\ executing'[i] = executing[i + 1] /\ i + 1 # 1
  BY <1>1
<1>8. ~ Queued(executing', b) /\ \A a : Queued(executing', a) => Queued(executing, a)
  <2>1. \A a : Queued(executing', a) => Queued(executing, a)
    BY <1>7 DEF Queued
  <2>2. ASSUME NEW i \in 1 .. Len(executing'), executing'[i] = b PROVE FALSE
    <3>1. executing[i + 1] = executing[1] /\ i + 1 \in 1 .. Len(executing) /\ 1 \in 1 .. Len(executing)
      BY <1>1, <1>7, <2>2
    <3>2. i + 1 = 1
      BY <3>1 DEF Once
    <3> QED BY <1>7, <3>2
  <2> QED BY <2>1, <2>2 DEF Queued
<1>9. /\ \A a \in Actions : runs[a] \in {0, 1}
      /\ \A a \in Actions : runs[a] = 1 =>
           a \in claimed /\ ~ Queued(executing', a) /\ Ready(Table', Finished', a)
      /\ \A a \in Actions : Queued(executing', a) => a \in claimed
  BY <1>8 DEF Once
<1>10. \A i, j \in 1 .. Len(executing') : executing'[i] = executing'[j] => i = j
  <2> SUFFICES ASSUME NEW i \in 1 .. Len(executing'), NEW j \in 1 .. Len(executing'),
                      executing'[i] = executing'[j]
               PROVE  i = j
    OBVIOUS
  <2>1. i + 1 = j + 1
    BY <1>7 DEF Once
  <2> QED BY <1>1, <2>1
<1>11. ASSUME NEW a \in Actions, NEW u \in Thread, NEW i \in Nat, RunsAt(stack'[u], i, a)
       PROVE  (u = Looper /\ i = 1 /\ a = b) \/ (a # b /\ RunsAt(stack[u], i, a))
  <2>1. CASE u # Looper
    BY <1>4, <1>6, <1>11, <2>1
  <2>2. CASE u = Looper
    <3>1. i \in 1 .. Len(<<f>>) /\ <<f>>[i].a = a
      BY <1>4, <1>11, <2>2 DEF RunsAt
    <3>2. i = 1 /\ a = f.a
      BY <3>1
    <3> QED BY <1>3, <2>2, <3>2
  <2> QED BY <2>1, <2>2
<1>12. \A a \in Actions : \A u \in Thread, i \in Nat : RunsAt(stack'[u], i, a) =>
         a \in claimed /\ runs[a] = 0 /\ ~ Queued(executing', a)
  BY <1>6, <1>8, <1>11 DEF Once
<1>13. \A a \in Actions : \A u, v \in Thread : \A i, j \in Nat :
         RunsAt(stack'[u], i, a) /\ RunsAt(stack'[v], j, a) => u = v /\ i = j
  BY <1>11 DEF Once
<1> QED BY <1>2, <1>9, <1>10, <1>12, <1>13 DEF Once

\* The innermost frame runs an action.
LEMMA OnceRun ==
  ASSUME TypeOK, Once, NEW t \in Thread, stack[t] # <<>>, NEW b \in Actions,
         RunsAt(stack[t], 1, b), NEW fs \in Seq(Frame), Plain(fs), stack' = Becomes(t, fs),
         runs' = [runs EXCEPT ![b] = @ + 1], claimed' = claimed, executing' = executing,
         Table' = Table, Finished' = Finished, Ready(Table, Finished, b)
  PROVE  Once'
<1>1. stack \in [Thread -> Seq(Frame)] /\ runs \in [Actions -> Nat]
  BY DEF TypeOK
<1>2. /\ Rewrites(stack[t], stack'[t], 1, Len(fs)) /\ \A i \in 1 .. Len(fs) : stack'[t][i] = fs[i]
      /\ \A u \in Thread : u # t => stack'[u] = stack[u]
  BY <1>1, BecomesFacts
<1>3. \A i \in 1 .. Len(fs) : stack'[t][i].pc # "run"
  BY <1>2 DEF Plain
<1>4. AllKeepRuns(stack, stack')
  <2>1. KeepsRuns(stack[t], stack'[t])
    BY <1>1, <1>2, <1>3, RewriteKeeps
  <2>2. \A u \in Thread : u # t => KeepsRuns(stack[u], stack'[u])
    BY <1>1, <1>2, SameStack
  <2> QED BY <2>1, <2>2 DEF AllKeepRuns
<1>5. runs[b] = 0 /\ b \in claimed /\ ~ Queued(executing, b)
  BY DEF Once
<1>6. runs'[b] = 1 /\ \A a \in Actions : a # b => runs'[a] = runs[a]
  BY <1>1, <1>5
<1>7. ASSUME NEW u \in Thread, NEW i \in Nat, RunsAt(stack'[u], i, b) PROVE FALSE
  <2>1. CASE u # t
    <3>1. RunsAt(stack[u], i, b)
      BY <1>2, <1>7, <2>1
    <3> QED BY <2>1, <3>1 DEF Once
  <2>2. CASE u = t
    <3>1. ~ (i \in 1 .. Len(fs)) /\ i \in Nat /\ i >= 1
      BY <1>3, <1>7, <2>2 DEF RunsAt
    <3>2. Len(fs) \in Nat /\ stack[t] \in Seq(Frame)
      BY <1>1, LenProperties
    <3>3. RunsAt(stack[t], 1 + (i - Len(fs)), b) /\ 1 + (i - Len(fs)) \in Nat
      BY <1>2, <1>7, <2>2, <3>1, <3>2, RewriteRuns
    <3>4. 1 + (i - Len(fs)) # 1
      BY <3>1, <3>2
    <3> QED BY <3>3, <3>4 DEF Once
  <2> QED BY <2>1, <2>2
<1>8. /\ \A a \in Actions : runs'[a] \in {0, 1}
      /\ \A a \in Actions : runs'[a] = 1 =>
           a \in claimed /\ ~ Queued(executing, a) /\ Ready(Table, Finished, a)
      /\ \A a \in Actions : Queued(executing, a) => a \in claimed
      /\ \A i, j \in 1 .. Len(executing) : executing[i] = executing[j] => i = j
  BY <1>5, <1>6 DEF Once
<1>9. \A a \in Actions : \A u \in Thread, i \in Nat : RunsAt(stack'[u], i, a) =>
        a \in claimed /\ runs'[a] = 0 /\ ~ Queued(executing, a)
  <2> SUFFICES ASSUME NEW a \in Actions, NEW u \in Thread, NEW i \in Nat, RunsAt(stack'[u], i, a)
               PROVE  a \in claimed /\ runs'[a] = 0 /\ ~ Queued(executing, a)
    OBVIOUS
  <2>1. KeepsRuns(stack[u], stack'[u])
    BY <1>4 DEF AllKeepRuns
  <2>2. PICK k \in Nat : RunsAt(stack[u], k, a)
    BY <2>1, RunsBack
  <2>3. a # b
    BY <1>7
  <2> QED BY <1>6, <2>2, <2>3 DEF Once
<1> QED BY <1>4, <1>8, <1>9, RunsUnique DEF Once

(***************************************************************************)
(* The invariant from step to step.                                        *)
(***************************************************************************)
\* What a thread finds when it is at a place.
LEMMA AtFacts ==
  ASSUME Inv, NEW t \in Thread, NEW pc, At(t, pc)
  PROVE  /\ stack[t] # <<>> /\ Top(t) = stack[t][1] /\ Top(t).pc = pc /\ Top(t) \in Frame
         /\ Good(Table, Finished, Top(t)) /\ 1 \in 1 .. Len(stack[t])
         /\ AllGood(Table, Finished, stack)
         /\ \A p \in Promises : isDone(p) <=> p \in Finished
<1>1. stack \in [Thread -> Seq(Frame)] /\ \A u \in Thread : GoodStack(Table, Finished, stack[u])
  BY DEF Inv, TypeOK, Stacks
<1>2. stack[t] # <<>> /\ Top(t).pc = pc
  BY DEF At, Idle
<1>3. stack[t] \in Seq(Frame) /\ Len(stack[t]) \in Nat /\ Len(stack[t]) >= 1 /\ Top(t) = stack[t][1]
  BY <1>1, <1>2, LenProperties, EmptySeq, HeadTailProperties DEF Top
<1>4. 1 \in 1 .. Len(stack[t])
  BY <1>3
<1>5. Good(Table, Finished, Top(t)) /\ Top(t) \in Frame
  BY <1>1, <1>3, <1>4 DEF GoodStack, Good
<1> QED BY <1>1, <1>2, <1>3, <1>4, <1>5 DEF AllGood, Finished

\* Steps that claim, queue and run nothing.
LEMMA QuietStep ==
  ASSUME Inv, program' = program, outcome' \in [Promises -> Outcome], Finished \subseteq Finished',
         mActions' \in [Promises -> Seq(Actions)],
         \A p \in Promises : \A i \in 1 .. Len(mActions'[p]) : DependsOn(Table, mActions'[p][i], p),
         claimed' = claimed, runs' = runs, executing' = executing,
         timers' \subseteq DOMAIN Table, known' \subseteq Promises, DOMAIN todo' = Client,
         \A u \in Client : todo'[u] \subseteq program.ops[u],
         AllGood(Table, Finished', stack'), AllKeepRuns(stack, stack')
  PROVE  Inv'
<1>1. Table' = Table
  BY DEF Table
<1>2. WellFormed(program) /\ DOMAIN Table \subseteq Actions
  BY ProgramsAssumption DEF Inv, TypeOK, WellFormed, Table
<1>3. TypeOK'
  BY <1>2 DEF Inv, TypeOK, AllGood
<1>4. Stacks'
  BY <1>1 DEF AllGood, Stacks
<1>5. Once'
  BY <1>1, OnceQuiet DEF Inv
<1>6. \A i \in 1 .. Len(executing) : Ready(Table, Finished', executing[i])
  BY GoodStays DEF Inv, Stored
<1>7. Stored'
  BY <1>1, <1>6 DEF Stored
<1> QED BY <1>3, <1>4, <1>5, <1>7 DEF Inv

\* Steps that only move frames.
LEMMA MoveStep ==
  ASSUME Inv, UNCHANGED <<promiseVars, actionVars, clientVars>>,
         AllGood(Table, Finished, stack'), AllKeepRuns(stack, stack')
  PROVE  Inv'
<1>1. Finished' = Finished
  BY DEF Finished, isDone, promiseVars
<1> QED BY <1>1, QuietStep DEF Inv, TypeOK, Stored, promiseVars, actionVars, clientVars

\* Frames in the place of the innermost one, and nothing else.
LEMMA PushStep ==
  ASSUME Inv, UNCHANGED <<promiseVars, actionVars, clientVars>>, NEW t \in Thread,
         NEW pc, At(t, pc), NEW fs, stack' = Becomes(t, fs), Fits(Table, Finished, fs), Plain(fs)
  PROVE  Inv'
BY AtFacts, BecomesGood, MoveStep

\* A promise gets an outcome.
LEMMA SettleFacts ==
  ASSUME TypeOK, NEW p \in Promises, NEW o, o \in Done \/ (isDone(p) /\ o = outcome[p]),
         outcome' = [outcome EXCEPT ![p] = o]
  PROVE  outcome' \in [Promises -> Outcome] /\ Finished \subseteq Finished' /\ p \in Finished'
<1>1. outcome \in [Promises -> Outcome]
  BY DEF TypeOK
<1>2. o \in Outcome /\ o # Pending
  BY <1>1 DEF Done, isDone
<1>3. /\ outcome' \in [Promises -> Outcome] /\ outcome'[p] = o
      /\ \A q \in Promises : q # p => outcome'[q] = outcome[q]
  BY <1>1, <1>2
<1> QED BY <1>2, <1>3 DEF Finished, isDone

\* A single supplier that is done is all that an action waits for.
LEMMA SupplierDone ==
  ASSUME program \in Programs, NEW a, NEW p \in Finished, DependsOn(Table, a, p),
         act(a).kind # "biRelay"
  PROVE  Ready(Table, Finished, a)
<1>1. a \in DOMAIN Table
  BY DEF DependsOn
<1>2. Len(act(a).from) = 1 /\ DOMAIN act(a).from = 1 .. Len(act(a).from) /\ act(a) = Table[a]
  BY <1>1, ActionFacts
<1>3. DOMAIN act(a).from = {1}
  BY <1>2
<1> QED BY <1>1, <1>2, <1>3 DEF DependsOn, Ready

\* complete()
LEMMA CompleteStep ==
  ASSUME Inv, NEW t \in Thread, Complete(t)
  PROVE  Inv'
<1> DEFINE p == Top(t).p
           f == Iterate(p)
<1>1. At(t, "complete") /\ UNCHANGED <<mActions, actionVars, clientVars>>
  BY DEF Complete
<1>2. p \in Promises /\ Top(t).out \in Done
  BY <1>1, AtFacts DEF Good, Frame, Done
<1>3. CASE outcome' = [outcome EXCEPT ![p] = Top(t).out] /\ stack' = Signalled(Becomes(t, <<f>>), p)
  <2>1. outcome' \in [Promises -> Outcome] /\ Finished \subseteq Finished' /\ p \in Finished'
    BY <1>2, <1>3, SettleFacts DEF Inv
  <2>2. (IF mActions[p] = <<>> THEN None ELSE Head(mActions[p])) \in Actions \cup {None, "timed"}
    <3>1. mActions[p] \in Seq(Actions)
      BY <1>2 DEF Inv, TypeOK
    <3> QED BY <3>1, HeadTailProperties
  <2>3. f \in Frame /\ f.pc = "iterate" /\ f.p = p
    BY <1>2, <2>2 DEF Iterate, Of, Frame, PC, Outcome
  <2> HIDE DEF f
  <2>4. Good(Table, Finished', f)
    BY <2>1, <2>3 DEF Good
  <2>5. Fits(Table, Finished', <<f>>) /\ Plain(<<f>>)
    BY <2>3, <2>4, FitsFacts
  <2> DEFINE S == Becomes(t, <<f>>)
  <2>6. AllGood(Table, Finished', S) /\ AllKeepRuns(stack, S)
    BY <1>1, <2>1, <2>5, AtFacts, BecomesGood
  <2> HIDE DEF S
  <2>7. AllGood(Table, Finished', stack') /\ AllKeepRuns(S, stack')
    BY <1>3, <2>6, SignalledGood DEF S
  <2>8. AllKeepRuns(stack, stack')
    BY <2>6, <2>7, KeepsRunsTwice DEF AllKeepRuns
  <2> QED BY <1>1, <2>1, <2>7, <2>8, QuietStep DEF Inv, TypeOK, Stored, actionVars, clientVars
<1>4. CASE stack' = Becomes(t, <<>>) /\ UNCHANGED outcome
  <2>1. UNCHANGED <<promiseVars, actionVars, clientVars>>
    BY <1>1, <1>4 DEF promiseVars
  <2> QED BY <1>1, <1>4, <2>1, FitsFacts, PushStep
<1> QED BY <1>3, <1>4 DEF Complete

\* onComplete()
LEMMA OnCompleteStep ==
  ASSUME Inv, NEW t \in Thread, OnComplete(t)
  PROVE  Inv'
<1> DEFINE p == Top(t).p
           f == Iterate(p)
           S == Becomes(t, <<f>>)
<1>1. /\ At(t, "onComplete") /\ stack' = Signalled(S, p)
      /\ UNCHANGED <<promiseVars, actionVars, clientVars>>
  BY DEF OnComplete
<1>2. p \in Finished /\ p \in Promises
  BY <1>1, AtFacts DEF Good, Finished
<1>3. (IF mActions[p] = <<>> THEN None ELSE Head(mActions[p])) \in Actions \cup {None, "timed"}
  <2>1. mActions[p] \in Seq(Actions)
    BY <1>2 DEF Inv, TypeOK
  <2> QED BY <2>1, HeadTailProperties
<1>4. f \in Frame /\ f.pc = "iterate" /\ f.p = p
  BY <1>2, <1>3 DEF Iterate, Of, Frame, PC, Outcome
<1> HIDE DEF f
<1>5. Fits(Table, Finished, <<f>>) /\ Plain(<<f>>)
  <2>1. Good(Table, Finished, f)
    BY <1>2, <1>4 DEF Good
  <2> QED BY <1>4, <2>1, FitsFacts
<1>6. AllGood(Table, Finished, S) /\ AllKeepRuns(stack, S)
  BY <1>1, <1>5, AtFacts, BecomesGood
<1> HIDE DEF S
<1>7. AllGood(Table, Finished, stack') /\ AllKeepRuns(S, stack')
  BY <1>1, <1>6, SignalledGood
<1>8. AllKeepRuns(stack, stack')
  BY <1>6, <1>7, KeepsRunsTwice DEF AllKeepRuns
<1> QED BY <1>1, <1>7, <1>8, MoveStep

\* The loop of runActions().
LEMMA RunActionsStep ==
  ASSUME Inv, NEW t \in Thread, RunActions(t)
  PROVE  Inv'
<1> DEFINE p == Top(t).p
           a == Top(t).a
<1>1. At(t, "iterate") /\ UNCHANGED <<outcome, actionVars, clientVars>>
  BY DEF RunActions
<1>2. p \in Finished /\ p \in Promises
  BY <1>1, AtFacts DEF Good, Finished
<1>3. CASE stack' = Becomes(t, <<>>) /\ UNCHANGED mActions
  <2>1. UNCHANGED <<promiseVars, actionVars, clientVars>>
    BY <1>1, <1>3 DEF promiseVars
  <2> QED BY <1>1, <1>3, <2>1, FitsFacts, PushStep
<1>4. CASE /\ Contains(mActions[p], a)
           /\ stack' = Becomes(t, <<Of("tryRun", None, a), Of("iterate", p, Following(mActions[p], a))>>)
           /\ mActions' = [mActions EXCEPT ![p] = RemoveFirst(@, a)]
  <2> DEFINE f == Of("tryRun", None, a)
             g == Of("iterate", p, Following(mActions[p], a))
             rest == RemoveFirst(mActions[p], a)
  <2>1. mActions \in [Promises -> Seq(Actions)] /\ mActions[p] \in Seq(Actions) /\ program \in Programs
    BY <1>2 DEF Inv, TypeOK
  <2>2. \A q \in Promises : \A i \in 1 .. Len(mActions[q]) : DependsOn(Table, mActions[q][i], q)
    BY DEF Inv, Stored
  <2>3. DependsOn(Table, a, p)
    BY <1>2, <1>4, <2>2 DEF Contains
  <2>4. a \in DOMAIN Table /\ a \in Actions /\ act(a) = Table[a]
    BY <2>1, <2>3, ActionFacts DEF DependsOn
  <2>5. f \in Frame /\ f.pc = "tryRun" /\ f.a = a
    BY <2>4 DEF Of, Frame, PC, Outcome
  <2>6. Good(Table, Finished, f)
    <3>1. Table[a].kind # "biRelay" => Ready(Table, Finished, a)
      BY <1>2, <2>1, <2>3, <2>4, SupplierDone
    <3> HIDE DEF f
    <3> QED BY <2>4, <2>5, <3>1 DEF Good
  <2>7. Following(mActions[p], a) \in Actions \cup {None}
    BY <1>4, <2>1, FollowingFacts
  <2>8. g \in Frame /\ g.pc = "iterate" /\ g.p = p
    BY <1>2, <2>7 DEF Of, Frame, PC, Outcome
  <2> HIDE DEF f, g
  <2>9. Good(Table, Finished, g)
    BY <1>2, <2>8 DEF Good
  <2>10. Fits(Table, Finished, <<f, g>>) /\ Plain(<<f, g>>)
    BY <2>5, <2>6, <2>8, <2>9, FitsFacts
  <2>11. AllGood(Table, Finished, stack') /\ AllKeepRuns(stack, stack')
    BY <1>1, <1>4, <2>10, AtFacts, BecomesGood DEF f, g
  <2>12. /\ rest \in Seq(Actions)
         /\ \A i \in 1 .. Len(rest) : \E j \in 1 .. Len(mActions[p]) : rest[i] = mActions[p][j]
    <3> HIDE DEF p, a
    <3> QED BY <2>1, RemoveFirstFacts
  <2>13. mActions' = [mActions EXCEPT ![p] = rest]
    BY <1>4
  <2> HIDE DEF rest
  <2>14. /\ mActions' \in [Promises -> Seq(Actions)]
         /\ \A q \in Promises : \A i \in 1 .. Len(mActions'[q]) : DependsOn(Table, mActions'[q][i], q)
    <3>1. mActions'[p] = rest /\ \A q \in Promises : q # p => mActions'[q] = mActions[q]
      BY <1>2, <2>1, <2>13
    <3>2. \A i \in 1 .. Len(rest) : DependsOn(Table, rest[i], p)
      BY <1>2, <2>2, <2>12
    <3>3. mActions' \in [Promises -> Seq(Actions)]
      BY <2>1, <2>12, <2>13
    <3> QED BY <2>2, <3>1, <3>2, <3>3
  <2>15. Finished' = Finished
    BY <1>1 DEF Finished, isDone
  <2> QED BY <1>1, <2>11, <2>14, <2>15, QuietStep DEF Inv, TypeOK, Stored, actionVars, clientVars
<1> QED BY <1>3, <1>4 DEF RunActions

\* claim() by a thread that knows the action to be due.
LEMMA ClaimStep ==
  ASSUME Inv, NEW t \in Thread, NEW pc, At(t, pc), NEW a, Ready(Table, Finished, a), Claim(t, a),
         UNCHANGED <<promiseVars, clientVars>>
  PROVE  Inv'
<1>1. program \in Programs /\ a \in DOMAIN Table /\ a \in Actions
  BY ActionFacts DEF Inv, TypeOK, Ready
<1>2. /\ Finished' = Finished /\ Table' = Table /\ claimed' = claimed \cup {a}
      /\ runs' = runs /\ timers' = timers
  BY DEF Finished, isDone, Table, promiseVars, clientVars, Claim
<1>3. CASE a \in claimed
  <2>1. stack' = Becomes(t, <<>>) /\ UNCHANGED <<promiseVars, actionVars, clientVars>>
    BY <1>2, <1>3 DEF Claim, actionVars
  <2> QED BY <2>1, FitsFacts, PushStep
<1>4. CASE a \notin claimed /\ executing' = executing /\ stack' = Becomes(t, <<Of("run", None, a)>>)
  <2> DEFINE f == Of("run", None, a)
  <2>1. f \in Frame /\ f.pc = "run" /\ f.a = a
    BY <1>1 DEF Of, Frame, PC, Outcome
  <2>2. Once'
    BY <1>1, <1>2, <1>4, AtFacts, OnceClaimRun DEF Inv
  <2> HIDE DEF f
  <2>3. Good(Table, Finished, f)
    BY <2>1 DEF Good
  <2>4. Fits(Table, Finished, <<f>>)
    BY <2>1, <2>3, FitsFacts
  <2>5. AllGood(Table, Finished, stack')
    BY <1>4, <2>4, AtFacts, BecomesGood DEF f
  <2>6. TypeOK' /\ Stacks' /\ Stored'
    BY <1>1, <1>2, <1>4, <2>5
       DEF Inv, TypeOK, Stacks, Stored, AllGood, promiseVars, clientVars
  <2> QED BY <2>2, <2>6 DEF Inv
<1>5. CASE a \notin claimed /\ executing' = Append(executing, a) /\ stack' = Becomes(t, <<>>)
  <2>1. AllGood(Table, Finished, stack') /\ AllKeepRuns(stack, stack')
    BY <1>5, AtFacts, BecomesGood, FitsFacts
  <2>2. Once'
    BY <1>1, <1>2, <1>5, <2>1, OnceClaimQueue DEF Inv
  <2>3. executing \in Seq(Actions) /\ Len(executing) \in Nat
    BY LenProperties DEF Inv, TypeOK
  <2>4. /\ executing' \in Seq(Actions) /\ Len(executing') = Len(executing) + 1
        /\ \A i \in 1 .. Len(executing) : executing'[i] = executing[i]
        /\ executing'[Len(executing) + 1] = a
    BY <1>1, <1>5, <2>3, AppendProperties
  <2>5. ASSUME NEW i \in 1 .. Len(executing') PROVE Ready(Table, Finished, executing'[i])
    <3>1. i \in 1 .. Len(executing) \/ i = Len(executing) + 1
      BY <2>3, <2>4
    <3> QED BY <2>4, <3>1 DEF Inv, Stored
  <2>6. TypeOK' /\ Stacks'
    BY <1>1, <1>2, <2>1, <2>4 DEF Inv, TypeOK, Stacks, AllGood, promiseVars, clientVars
  <2>7. Stored'
    BY <1>2, <2>5 DEF Inv, Stored, promiseVars, clientVars
  <2> QED BY <2>2, <2>6, <2>7 DEF Inv
<1> QED BY <1>3, <1>4, <1>5 DEF Claim

\* tryRun()
LEMMA TryRunStep ==
  ASSUME Inv, NEW t \in Thread, TryRun(t)
  PROVE  Inv'
<1> DEFINE a == Top(t).a
<1>1. At(t, "tryRun") /\ UNCHANGED <<promiseVars, clientVars>>
  BY DEF TryRun
<1>2. program \in Programs /\ a \in DOMAIN Table /\ (Table[a].kind # "biRelay" => Ready(Table, Finished, a))
  BY <1>1, AtFacts DEF Good, Inv, TypeOK
<1>3. act(a) = Table[a] /\ a \in Actions /\ (act(a).kind = "biRelay" => act(a).from[1] \in Promises)
  BY <1>2, ActionFacts
<1>4. CASE act(a).kind # "biRelay"
  <2>1. Claim(t, a)
    BY <1>4 DEF TryRun
  <2> HIDE DEF a
  <2> QED BY <1>1, <1>2, <1>3, <1>4, <2>1, ClaimStep
<1>5. CASE act(a).kind = "biRelay"
  <2>1. /\ UNCHANGED <<promiseVars, actionVars, clientVars>>
        /\ stack' = Becomes(t, IF isDone(act(a).from[1]) THEN <<Of("tryRun2", None, a)>> ELSE <<>>)
    BY <1>1, <1>5 DEF TryRun
  <2>2. CASE ~ isDone(act(a).from[1])
    BY <1>1, <2>1, <2>2, FitsFacts, PushStep
  <2>3. CASE isDone(act(a).from[1])
    <3> DEFINE f == Of("tryRun2", None, a)
    <3>1. f \in Frame /\ f.pc = "tryRun2" /\ f.a = a
      BY <1>3 DEF Of, Frame, PC, Outcome
    <3>2. stack' = Becomes(t, <<f>>) /\ act(a).from[1] \in Finished
      BY <1>3, <1>5, <2>1, <2>3 DEF Finished
    <3> HIDE DEF f
    <3>3. Good(Table, Finished, f)
      BY <1>2, <1>3, <1>5, <3>1, <3>2 DEF Good
    <3> QED BY <1>1, <2>1, <3>1, <3>2, <3>3, FitsFacts, PushStep
  <2> QED BY <2>2, <2>3
<1> QED BY <1>4, <1>5

\* tryRun() of a BiRelayAction, its second supplier.
LEMMA TryRun2Step ==
  ASSUME Inv, NEW t \in Thread, TryRun2(t)
  PROVE  Inv'
<1> DEFINE a == Top(t).a
           p == act(a).from[2]
<1>1. At(t, "tryRun2") /\ UNCHANGED <<promiseVars, clientVars>>
  BY DEF TryRun2
<1>2. program \in Programs /\ a \in DOMAIN Table /\ Table[a].kind = "biRelay" /\ Table[a].from[1] \in Finished
  BY <1>1, AtFacts DEF Good, Inv, TypeOK
<1>3. /\ act(a) = Table[a] /\ p \in Promises /\ Len(act(a).from) = 2
      /\ DOMAIN act(a).from = 1 .. Len(act(a).from)
  BY <1>2, ActionFacts
<1>4. CASE isDone(p)
  <2>1. DOMAIN act(a).from = {1, 2} /\ p \in Finished
    BY <1>3, <1>4 DEF Finished
  <2>2. Ready(Table, Finished, a)
    BY <1>2, <1>3, <2>1 DEF Ready
  <2>3. Claim(t, a)
    BY <1>4 DEF TryRun2
  <2> HIDE DEF a
  <2> QED BY <1>1, <2>2, <2>3, ClaimStep
<1>5. CASE ~ isDone(p)
  <2>1. stack' = Becomes(t, <<>>) /\ UNCHANGED <<promiseVars, actionVars, clientVars>>
    BY <1>1, <1>5 DEF TryRun2
  <2> QED BY <1>1, <2>1, FitsFacts, PushStep
<1> QED BY <1>4, <1>5

\* The looper takes an action.
LEMMA ExecuteStep ==
  ASSUME Inv, Execute
  PROVE  Inv'
<1> DEFINE b == Head(executing)
           f == Of("run", None, b)
<1>1. /\ executing \in Seq(Actions) /\ executing # <<>> /\ Len(executing) \in Nat /\ Len(executing) >= 1
      /\ b = executing[1] /\ b \in Actions /\ executing' = Tail(executing)
      /\ executing' \in Seq(Actions) /\ Len(executing') = Len(executing) - 1
      /\ \A i \in 1 .. Len(executing) - 1 : executing'[i] = executing[i + 1]
  BY LenProperties, EmptySeq, HeadTailProperties DEF Inv, TypeOK, Execute
<1>2. /\ stack \in [Thread -> Seq(Frame)] /\ Looper \in Thread
      /\ stack' = [stack EXCEPT ![Looper] = <<f>>]
      /\ UNCHANGED <<promiseVars, claimed, runs, timers, clientVars>>
  BY DEF Inv, TypeOK, Execute, Thread
<1>3. Finished' = Finished /\ Table' = Table
  BY <1>2 DEF Finished, isDone, Table, promiseVars, clientVars
<1>4. Once'
  BY <1>3, OnceExecute DEF Inv
<1>5. \A i \in 1 .. Len(executing) : Ready(Table, Finished, executing[i])
  BY DEF Inv, Stored
<1>6. Ready(Table, Finished, b)
  <2>1. 1 \in 1 .. Len(executing)
    BY <1>1
  <2> QED BY <1>1, <1>5, <2>1
<1>7. f \in Frame /\ f.pc = "run" /\ f.a = b
  BY <1>1 DEF Of, Frame, PC, Outcome
<1> HIDE DEF f, b
<1>8. GoodStack(Table, Finished, <<f>>) /\ <<f>> \in Seq(Frame)
  <2>1. Good(Table, Finished, f)
    BY <1>6, <1>7 DEF Good
  <2>2. <<f>> \in Seq(Frame) /\ Len(<<f>>) = 1 /\ <<f>>[1] = f /\ \A i \in 1 .. 1 : i = 1
    BY <1>7
  <2> QED BY <1>7, <2>1, <2>2 DEF GoodStack
<1>9. stack' \in [Thread -> Seq(Frame)] /\ \A u \in Thread : GoodStack(Table, Finished, stack'[u])
  BY <1>2, <1>8 DEF Inv, Stacks
<1>10. \A i \in 1 .. Len(executing') : Ready(Table, Finished, executing'[i])
  <2> SUFFICES ASSUME NEW i \in 1 .. Len(executing') PROVE Ready(Table, Finished, executing'[i])
    OBVIOUS
  <2>1. i \in 1 .. Len(executing) - 1 /\ i + 1 \in 1 .. Len(executing)
    BY <1>1
  <2> QED BY <1>1, <1>5, <2>1
<1>11. TypeOK' /\ Stacks' /\ Stored'
  BY <1>1, <1>2, <1>3, <1>9, <1>10 DEF Inv, TypeOK, Stacks, Stored, promiseVars, clientVars
<1> QED BY <1>4, <1>11 DEF Inv

\* setResult() and setException()
LEMMA SetResultStep ==
  ASSUME Inv, NEW t \in Thread, SetResult(t)
  PROVE  Inv'
<1> DEFINE p == Top(t).p
           f == Of("onComplete", p, None)
<1>1. /\ At(t, "set") /\ UNCHANGED <<mActions, actionVars, clientVars>>
      /\ outcome' = [outcome EXCEPT ![p] = Settled(p, Top(t).out)] /\ stack' = Becomes(t, <<f>>)
  BY DEF SetResult, Notice
<1>2. p \in Promises /\ Top(t).out \in Done
  BY <1>1, AtFacts DEF Good, Frame, Done
<1>3. outcome' \in [Promises -> Outcome] /\ Finished \subseteq Finished' /\ p \in Finished'
  BY <1>1, <1>2, SettleFacts DEF Inv, Settled
<1>4. f \in Frame /\ f.pc = "onComplete" /\ f.p = p
  BY <1>2 DEF Of, Frame, PC, Outcome
<1> HIDE DEF f
<1>5. Good(Table, Finished', f)
  BY <1>3, <1>4 DEF Good
<1>6. AllGood(Table, Finished', stack') /\ AllKeepRuns(stack, stack')
  BY <1>1, <1>3, <1>4, <1>5, FitsFacts, AtFacts, BecomesGood
<1> QED BY <1>1, <1>3, <1>6, QuietStep DEF Inv, TypeOK, Stored, actionVars, clientVars

\* Adding a dependent: the first isDone().
LEMMA ThenStep ==
  ASSUME Inv, NEW t \in Thread, Then(t)
  PROVE  Inv'
<1> DEFINE p == Top(t).p
           a == Top(t).a
<1>1. At(t, "then") /\ UNCHANGED <<promiseVars, actionVars, clientVars>>
  BY DEF Then
<1>2. p \in Promises /\ DependsOn(Table, a, p) /\ program \in Programs
  BY <1>1, AtFacts DEF Good, Inv, TypeOK
<1>3. a \in DOMAIN Table /\ a \in Actions /\ act(a) = Table[a]
  BY <1>2, ActionFacts DEF DependsOn
<1>4. CASE isDone(p)
  <2> DEFINE f == Of("tryRun", None, a)
  <2>1. f \in Frame /\ f.pc = "tryRun" /\ f.a = a
    BY <1>3 DEF Of, Frame, PC, Outcome
  <2>2. stack' = Becomes(t, <<f>>)
    BY <1>4 DEF Then
  <2>3. Table[a].kind # "biRelay" => Ready(Table, Finished, a)
    <3>1. p \in Finished
      BY <1>2, <1>4 DEF Finished
    <3> QED BY <1>2, <1>3, <3>1, SupplierDone
  <2> HIDE DEF f
  <2>4. Good(Table, Finished, f)
    BY <1>3, <2>1, <2>3 DEF Good
  <2> QED BY <1>1, <2>1, <2>2, <2>4, FitsFacts, PushStep
<1>5. CASE ~ isDone(p)
  <2> DEFINE f == Of("addAction", p, a)
  <2>1. f \in Frame /\ f.pc = "addAction" /\ f.a = a /\ f.p = p
    BY <1>2, <1>3 DEF Of, Frame, PC, Outcome
  <2>2. stack' = Becomes(t, <<f>>)
    BY <1>5 DEF Then
  <2> HIDE DEF f
  <2>3. Good(Table, Finished, f)
    BY <1>2, <2>1 DEF Good
  <2> QED BY <1>1, <2>1, <2>2, <2>3, FitsFacts, PushStep
<1> QED BY <1>4, <1>5

\* addAction()
LEMMA AddActionStep ==
  ASSUME Inv, NEW t \in Thread, AddAction(t)
  PROVE  Inv'
<1> DEFINE p == Top(t).p
           a == Top(t).a
<1>1. At(t, "addAction") /\ UNCHANGED <<outcome, actionVars, clientVars>>
  BY DEF AddAction
<1>2. p \in Promises /\ DependsOn(Table, a, p) /\ program \in Programs
  BY <1>1, AtFacts DEF Good, Inv, TypeOK
<1>3. a \in DOMAIN Table /\ a \in Actions /\ act(a) = Table[a]
  BY <1>2, ActionFacts DEF DependsOn
<1>4. CASE isDone(p) /\ stack' = Becomes(t, <<Of("tryRun", None, a), Of("hold", p, None)>>) /\ UNCHANGED mActions
  <2> DEFINE f == Of("tryRun", None, a)
             g == Of("hold", p, None)
  <2>1. f \in Frame /\ f.pc = "tryRun" /\ f.a = a /\ g \in Frame /\ g.pc = "hold" /\ g.p = p
    BY <1>2, <1>3 DEF Of, Frame, PC, Outcome
  <2>2. p \in Finished
    BY <1>2, <1>4 DEF Finished
  <2>3. Table[a].kind # "biRelay" => Ready(Table, Finished, a)
    BY <1>2, <1>3, <2>2, SupplierDone
  <2>4. UNCHANGED <<promiseVars, actionVars, clientVars>>
    BY <1>1, <1>4 DEF promiseVars
  <2> HIDE DEF f, g
  <2>5. Good(Table, Finished, f) /\ Good(Table, Finished, g)
    BY <1>3, <2>1, <2>2, <2>3 DEF Good
  <2>6. stack' = Becomes(t, <<f, g>>)
    BY <1>4 DEF f, g
  <2>7. Fits(Table, Finished, <<f, g>>) /\ Plain(<<f, g>>)
    BY <2>1, <2>5, FitsFacts
  <2> QED BY <1>1, <2>4, <2>6, <2>7, PushStep
<1>5. CASE mActions' = [mActions EXCEPT ![p] = Append(@, a)] /\ stack' = Becomes(t, <<>>)
  <2> DEFINE l == Append(mActions[p], a)
  <2>1. mActions \in [Promises -> Seq(Actions)] /\ mActions[p] \in Seq(Actions) /\ Len(mActions[p]) \in Nat
    BY <1>2, LenProperties DEF Inv, TypeOK
  <2>2. \A q \in Promises : \A i \in 1 .. Len(mActions[q]) : DependsOn(Table, mActions[q][i], q)
    BY DEF Inv, Stored
  <2>3. /\ l \in Seq(Actions) /\ Len(l) = Len(mActions[p]) + 1
        /\ \A i \in 1 .. Len(mActions[p]) : l[i] = mActions[p][i]
        /\ l[Len(mActions[p]) + 1] = a
    BY <1>3, <2>1, AppendProperties
  <2>4. mActions' = [mActions EXCEPT ![p] = l]
    BY <1>5
  <2> HIDE DEF l
  <2>5. ASSUME NEW i \in 1 .. Len(l) PROVE DependsOn(Table, l[i], p)
    <3>1. i \in 1 .. Len(mActions[p]) \/ i = Len(mActions[p]) + 1
      BY <2>1, <2>3
    <3> QED BY <1>2, <2>2, <2>3, <3>1
  <2>6. /\ mActions' \in [Promises -> Seq(Actions)]
        /\ \A q \in Promises : \A i \in 1 .. Len(mActions'[q]) : DependsOn(Table, mActions'[q][i], q)
    <3>1. mActions'[p] = l /\ \A q \in Promises : q # p => mActions'[q] = mActions[q]
      BY <1>2, <2>1, <2>4
    <3>2. mActions' \in [Promises -> Seq(Actions)]
      BY <2>1, <2>3, <2>4
    <3> QED BY <2>2, <2>5, <3>1, <3>2
  <2>7. AllGood(Table, Finished, stack') /\ AllKeepRuns(stack, stack')
    BY <1>1, <1>5, AtFacts, BecomesGood, FitsFacts
  <2>8. Finished' = Finished
    BY <1>1 DEF Finished, isDone
  <2> QED BY <1>1, <2>6, <2>7, <2>8, QuietStep DEF Inv, TypeOK, Stored, actionVars, clientVars
<1> QED BY <1>4, <1>5 DEF AddAction

\* removeAction()
LEMMA RemoveActionStep ==
  ASSUME Inv, NEW t \in Thread, RemoveAction(t)
  PROVE  Inv'
<1> DEFINE p == Top(t).p
           a == Top(t).a
           rest == RemoveFirst(mActions[p], a)
<1>1. /\ At(t, "removeAction") /\ UNCHANGED <<outcome, actionVars, clientVars>>
      /\ mActions' = [mActions EXCEPT ![p] = rest] /\ stack' = Becomes(t, <<>>)
  BY DEF RemoveAction
<1>2. p \in Promises
  BY <1>1, AtFacts DEF Good
<1>3. mActions \in [Promises -> Seq(Actions)] /\ mActions[p] \in Seq(Actions)
  BY <1>2 DEF Inv, TypeOK
<1>4. \A q \in Promises : \A i \in 1 .. Len(mActions[q]) : DependsOn(Table, mActions[q][i], q)
  BY DEF Inv, Stored
<1> HIDE DEF p, a
<1>5. /\ rest \in Seq(Actions)
      /\ \A i \in 1 .. Len(rest) : \E j \in 1 .. Len(mActions[p]) : rest[i] = mActions[p][j]
  BY <1>3, RemoveFirstFacts
<1> HIDE DEF rest
<1>6. /\ mActions' \in [Promises -> Seq(Actions)]
      /\ \A q \in Promises : \A i \in 1 .. Len(mActions'[q]) : DependsOn(Table, mActions'[q][i], q)
  <2>1. mActions'[p] = rest /\ \A q \in Promises : q # p => mActions'[q] = mActions[q]
    BY <1>1, <1>2, <1>3
  <2>2. \A i \in 1 .. Len(rest) : DependsOn(Table, rest[i], p)
    BY <1>2, <1>4, <1>5
  <2>3. mActions' \in [Promises -> Seq(Actions)]
    BY <1>1, <1>3, <1>5
  <2> QED BY <1>4, <2>1, <2>2, <2>3
<1>7. AllGood(Table, Finished, stack') /\ AllKeepRuns(stack, stack')
  BY <1>1, AtFacts, BecomesGood, FitsFacts
<1>8. Finished' = Finished
  BY <1>1 DEF Finished, isDone
<1> QED BY <1>1, <1>6, <1>7, <1>8, QuietStep DEF Inv, TypeOK, Stored, actionVars, clientVars

\* andTree()
LEMMA AndTreeStep ==
  ASSUME Inv, NEW t \in Thread, AndTree(t)
  PROVE  Inv'
<1> DEFINE a == Top(t).a
           p1 == act(a).from[1]
           p2 == act(a).from[2]
<1>1. At(t, "andTree") /\ UNCHANGED <<mActions, actionVars, clientVars>>
  BY DEF AndTree
<1>2. a \in DOMAIN Table /\ Table[a].kind = "biRelay" /\ program \in Programs
  BY <1>1, AtFacts DEF Good, Inv, TypeOK
<1>3. /\ act(a) = Table[a] /\ a \in Actions /\ p1 \in Promises /\ p2 \in Promises /\ act(a).to \in Promises
      /\ Len(act(a).from) = 2 /\ DOMAIN act(a).from = 1 .. Len(act(a).from)
  BY <1>2, ActionFacts
<1>4. DependsOn(Table, a, p1) /\ DependsOn(Table, a, p2)
  <2>1. 1 \in DOMAIN act(a).from /\ 2 \in DOMAIN act(a).from
    BY <1>3
  <2> QED BY <1>2, <1>3, <2>1 DEF DependsOn
<1>5. CASE /\ isDone(p1) /\ isDone(p2)
           /\ \E out \in BiRelayAction(outcome[p1], outcome[p2]) :
                outcome' = [outcome EXCEPT ![act(a).to] = out]
           /\ stack' = Becomes(t, <<>>)
  <2>1. outcome[p1] \in Done /\ outcome[p2] \in Done
    BY <1>3, <1>5 DEF Inv, TypeOK, Done, isDone
  <2>2. PICK out \in Done : outcome' = [outcome EXCEPT ![act(a).to] = out]
    BY <1>5, <2>1, OutcomeFacts
  <2>3. outcome' \in [Promises -> Outcome] /\ Finished \subseteq Finished'
    BY <1>3, <2>2, SettleFacts DEF Inv
  <2>4. AllGood(Table, Finished', stack') /\ AllKeepRuns(stack, stack')
    BY <1>1, <1>5, <2>3, AtFacts, BecomesGood, FitsFacts
  <2> QED BY <1>1, <2>3, <2>4, QuietStep DEF Inv, TypeOK, Stored, actionVars, clientVars
<1>6. CASE stack' = Becomes(t, <<Of("then", p1, a), Of("then", p2, a)>>) /\ UNCHANGED outcome
  <2> DEFINE f == Of("then", p1, a)
             g == Of("then", p2, a)
  <2>1. /\ f \in Frame /\ f.pc = "then" /\ f.p = p1 /\ f.a = a
        /\ g \in Frame /\ g.pc = "then" /\ g.p = p2 /\ g.a = a
    BY <1>3 DEF Of, Frame, PC, Outcome
  <2>2. UNCHANGED <<promiseVars, actionVars, clientVars>>
    BY <1>1, <1>6 DEF promiseVars
  <2> HIDE DEF f, g
  <2>3. Good(Table, Finished, f) /\ Good(Table, Finished, g)
    BY <1>3, <1>4, <2>1 DEF Good
  <2>4. stack' = Becomes(t, <<f, g>>)
    BY <1>6 DEF f, g
  <2>5. Fits(Table, Finished, <<f, g>>) /\ Plain(<<f, g>>)
    BY <2>1, <2>3, FitsFacts
  <2> QED BY <1>1, <2>2, <2>4, <2>5, PushStep
<1> QED BY <1>5, <1>6 DEF AndTree

\* anyOf(), a supplier that is done already.
LEMMA AnyOfStep ==
  ASSUME Inv, NEW t \in Thread, AnyOf(t)
  PROVE  Inv'
<1> DEFINE p == Top(t).p
           a == Top(t).a
<1>1. At(t, "anyOf") /\ UNCHANGED <<mActions, actionVars, clientVars>>
  BY DEF AnyOf
<1>2. a \in DOMAIN Table /\ Table[a].kind = "anyOf" /\ p \in Promises /\ program \in Programs
  BY <1>1, AtFacts DEF Good, DependsOn, Inv, TypeOK
<1>3. act(a) = Table[a] /\ act(a).to \in Promises
  BY <1>2, ActionFacts
<1>4. CASE /\ isDone(p) /\ stack' = SkipAnyOf(t)
           /\ \E out \in AnyOfAction(outcome[p]) : outcome' = [outcome EXCEPT ![act(a).to] = out]
  <2>1. outcome[p] \in Done
    BY <1>2, <1>4 DEF Inv, TypeOK, Done, isDone
  <2>2. PICK out \in Done : outcome' = [outcome EXCEPT ![act(a).to] = out]
    BY <1>4, <2>1, OutcomeFacts DEF AnyOfAction
  <2>3. outcome' \in [Promises -> Outcome] /\ Finished \subseteq Finished'
    BY <1>3, <2>2, SettleFacts DEF Inv
  <2>4. AllGood(Table, Finished', stack') /\ AllKeepRuns(stack, stack')
    BY <1>1, <1>4, <2>3, AtFacts, SkipGood
  <2> QED BY <1>1, <2>3, <2>4, QuietStep DEF Inv, TypeOK, Stored, actionVars, clientVars
<1>5. CASE stack' = Becomes(t, <<>>) /\ UNCHANGED outcome
  <2>1. UNCHANGED <<promiseVars, actionVars, clientVars>>
    BY <1>1, <1>5 DEF promiseVars
  <2> QED BY <1>1, <1>5, <2>1, FitsFacts, PushStep
<1> QED BY <1>4, <1>5 DEF AnyOf

\* anyOf(), its clean-up.
LEMMA AnyOfDoneStep ==
  ASSUME Inv, NEW t \in Thread, AnyOfDone(t)
  PROVE  Inv'
<1>1. At(t, "anyOfDone") /\ UNCHANGED <<promiseVars, actionVars, clientVars>>
  BY DEF AnyOfDone
<1>2. CASE stack' = Becomes(t, <<>>)
  BY <1>1, <1>2, FitsFacts, PushStep
<1>3. CASE stack' = SkipAnyOf(t)
  <2>1. AllGood(Table, Finished, stack') /\ AllKeepRuns(stack, stack')
    BY <1>1, <1>3, AtFacts, SkipGood
  <2> QED BY <1>1, <2>1, MoveStep
<1> QED BY <1>2, <1>3 DEF AnyOfDone

\* orTimeout() and completeOnTimeout()
LEMMA ArmStep ==
  ASSUME Inv, NEW t \in Thread, Arm(t)
  PROVE  Inv'
<1> DEFINE p == Top(t).p
           a == Top(t).a
<1>1. At(t, "arm") /\ UNCHANGED <<promiseVars, claimed, runs, executing, clientVars>>
  BY DEF Arm
<1>2. p \in Promises /\ DependsOn(Table, a, p) /\ program \in Programs
  BY <1>1, AtFacts DEF Good, Inv, TypeOK
<1>3. a \in DOMAIN Table /\ a \in Actions
  BY <1>2, ActionFacts DEF DependsOn
<1>4. CASE stack' = Becomes(t, <<>>) /\ UNCHANGED timers
  <2>1. UNCHANGED <<promiseVars, actionVars, clientVars>>
    BY <1>1, <1>4 DEF actionVars
  <2> QED BY <1>1, <1>4, <2>1, FitsFacts, PushStep
<1>5. CASE timers' = timers \cup {a} /\ stack' = Becomes(t, <<Of("then", p, a)>>)
  <2> DEFINE f == Of("then", p, a)
  <2>1. f \in Frame /\ f.pc = "then" /\ f.p = p /\ f.a = a
    BY <1>2, <1>3 DEF Of, Frame, PC, Outcome
  <2> HIDE DEF f
  <2>2. Good(Table, Finished, f)
    BY <1>2, <2>1 DEF Good
  <2>3. AllGood(Table, Finished, stack') /\ AllKeepRuns(stack, stack')
    BY <1>1, <1>5, <2>1, <2>2, FitsFacts, AtFacts, BecomesGood DEF f
  <2>4. timers' \subseteq DOMAIN Table
    BY <1>3, <1>5 DEF Inv, Stored
  <2>5. Finished' = Finished
    BY <1>1 DEF Finished, isDone, promiseVars
  <2> QED BY <1>1, <2>3, <2>4, <2>5, QuietStep DEF Inv, TypeOK, Stored, promiseVars, clientVars
<1> QED BY <1>4, <1>5 DEF Arm

\* A stack of one frame.
LEMMA OneFrame ==
  ASSUME Inv, NEW t \in Thread, stack[t] = <<>>, NEW f, Good(Table, Finished, f),
         f.pc \notin {"anyOf", "anyOfDone", "run"}, stack' = [stack EXCEPT ![t] = <<f>>]
  PROVE  AllGood(Table, Finished, stack') /\ AllKeepRuns(stack, stack')
<1>1. stack \in [Thread -> Seq(Frame)] /\ f \in Frame
  BY DEF Inv, TypeOK, Good
<1>2. <<f>> \in Seq(Frame) /\ Len(<<f>>) = 1 /\ <<f>>[1] = f /\ \A i \in 1 .. 1 : i = 1
  BY <1>1
<1>3. GoodStack(Table, Finished, <<f>>)
  BY <1>2 DEF GoodStack
<1>4. stack'[t] = <<f>> /\ \A u \in Thread : u # t => stack'[u] = stack[u]
  BY <1>1
<1>5. stack' \in [Thread -> Seq(Frame)]
  BY <1>1, <1>2
<1>6. KeepsRuns(stack[t], stack'[t])
  <2>1. stack[t] \in Seq(Frame)
    BY <1>1
  <2> QED BY <1>2, <1>4, <2>1 DEF KeepsRuns
<1>7. \A u \in Thread : u # t => KeepsRuns(stack[u], stack'[u])
  BY <1>1, <1>4, SameStack
<1> QED BY <1>3, <1>4, <1>5, <1>6, <1>7 DEF AllGood, AllKeepRuns, Inv, Stacks

\* The daemon's callback.
LEMMA DueStep ==
  ASSUME Inv, NEW a \in Actions, Due(a)
  PROVE  Inv'
<1> DEFINE f == Of("fire", act(a).from[1], a)
<1>1. /\ Daemon \in Thread /\ stack[Daemon] = <<>> /\ a \in timers /\ timers' = timers \ {a}
      /\ stack' = [stack EXCEPT ![Daemon] = <<f>>]
      /\ UNCHANGED <<promiseVars, claimed, runs, executing, clientVars>>
  BY DEF Due, Idle, Thread
<1>2. a \in DOMAIN Table /\ program \in Programs
  BY <1>1 DEF Inv, Stored, TypeOK
<1>3. act(a).from[1] \in Promises
  BY <1>2, ActionFacts
<1>4. f \in Frame /\ f.pc = "fire" /\ f.p \in Promises /\ f.a = a
  BY <1>3 DEF Of, Frame, PC, Outcome
<1> HIDE DEF f
<1>5. Good(Table, Finished, f)
  BY <1>2, <1>4 DEF Good
<1>6. AllGood(Table, Finished, stack') /\ AllKeepRuns(stack, stack')
  BY <1>1, <1>4, <1>5, OneFrame
<1>7. timers' \subseteq DOMAIN Table /\ Finished' = Finished
  BY <1>1 DEF Inv, Stored, Finished, isDone, promiseVars
<1> QED BY <1>1, <1>6, <1>7, QuietStep DEF Inv, TypeOK, Stored, promiseVars, clientVars

\* The callback asks isDone() and completes.
LEMMA FireStep ==
  ASSUME Inv, NEW t \in Thread, Fire(t)
  PROVE  Inv'
<1> DEFINE p == Top(t).p
           a == Top(t).a
           f == With("complete", p, None, act(a).out)
<1>1. /\ At(t, "fire") /\ UNCHANGED <<promiseVars, actionVars, clientVars>>
      /\ stack' = Becomes(t, IF isDone(p) THEN <<>> ELSE <<f>>)
  BY DEF Fire
<1>2. p \in Promises /\ a \in DOMAIN Table /\ program \in Programs
  BY <1>1, AtFacts DEF Good, Inv, TypeOK
<1>3. act(a).out \in Outcome /\ act(a).out # Pending
  BY <1>2, ActionFacts DEF Done
<1>4. f \in Frame /\ f.pc = "complete" /\ f.p = p /\ f.out # Pending
  BY <1>2, <1>3 DEF With, Frame, PC
<1> HIDE DEF f
<1>5. Good(Table, Finished, f)
  BY <1>2, <1>4 DEF Good
<1>6. Fits(Table, Finished, <<f>>) /\ Plain(<<f>>)
  BY <1>4, <1>5, FitsFacts
<1>7. CASE isDone(p)
  BY <1>1, <1>7, FitsFacts, PushStep
<1>8. CASE ~ isDone(p)
  BY <1>1, <1>6, <1>8, PushStep
<1> QED BY <1>7, <1>8

\* get(), its wait and its timeout.
LEMMA GetStep ==
  ASSUME Inv, NEW t \in Thread, Get(t) \/ GetExpires(t) \/ GetExpired(t)
  PROVE  Inv'
<1> DEFINE p == Top(t).p
           a == Top(t).a
<1>1. UNCHANGED <<promiseVars, actionVars, clientVars>>
  BY DEF Get, GetExpires, GetExpired
<1>2. CASE Get(t)
  <2> DEFINE f == Of("await", p, a)
  <2>1. At(t, "get") /\ stack' = Becomes(t, IF isDone(p) THEN <<>> ELSE <<f>>)
    BY <1>2 DEF Get
  <2>2. p \in Promises /\ a \in Actions \cup {None, "timed"}
    BY <2>1, AtFacts DEF Good, Frame
  <2>3. f \in Frame /\ f.pc = "await" /\ f.p = p
    BY <2>2 DEF Of, Frame, PC, Outcome
  <2> HIDE DEF f
  <2>4. Good(Table, Finished, f)
    BY <2>2, <2>3 DEF Good
  <2>5. Fits(Table, Finished, <<f>>) /\ Plain(<<f>>)
    BY <2>3, <2>4, FitsFacts
  <2>6. CASE isDone(p)
    BY <1>1, <2>1, <2>6, FitsFacts, PushStep
  <2>7. CASE ~ isDone(p)
    BY <1>1, <2>1, <2>5, <2>7, PushStep
  <2> QED BY <2>6, <2>7
<1>3. CASE GetExpires(t)
  <2> DEFINE f == Of("expired", p, None)
  <2>1. At(t, "await") /\ stack' = Becomes(t, <<f>>)
    BY <1>3 DEF GetExpires
  <2>2. p \in Promises
    BY <2>1, AtFacts DEF Good
  <2>3. f \in Frame /\ f.pc = "expired" /\ f.p = p
    BY <2>2 DEF Of, Frame, PC, Outcome
  <2> HIDE DEF f
  <2>4. Good(Table, Finished, f)
    BY <2>2, <2>3 DEF Good
  <2>5. Fits(Table, Finished, <<f>>) /\ Plain(<<f>>)
    BY <2>3, <2>4, FitsFacts
  <2> QED BY <1>1, <2>1, <2>5, PushStep
<1>4. CASE GetExpired(t)
  <2>1. At(t, "expired") /\ stack' = Becomes(t, <<>>)
    BY <1>4 DEF GetExpired
  <2> QED BY <1>1, <2>1, FitsFacts, PushStep
<1> QED BY <1>2, <1>3, <1>4

\* A call returns its promise; addAction() releases its lock.
LEMMA ReturnStep ==
  ASSUME Inv, NEW t \in Thread, Return(t) \/ Unlock(t)
  PROVE  Inv'
<1>1. CASE Unlock(t)
  <2>1. /\ At(t, "hold") /\ stack' = Becomes(t, <<>>)
        /\ UNCHANGED <<promiseVars, actionVars, clientVars>>
    BY <1>1 DEF Unlock
  <2> QED BY <2>1, FitsFacts, PushStep
<1>2. CASE Return(t)
  <2>1. /\ At(t, "return") /\ stack' = Becomes(t, <<>>) /\ known' = known \cup {Top(t).p}
        /\ UNCHANGED <<promiseVars, actionVars, program, todo>>
    BY <1>2 DEF Return
  <2>2. Top(t).p \in Promises
    BY <2>1, AtFacts DEF Good
  <2>3. known' \subseteq Promises
    BY <2>1, <2>2 DEF Inv, TypeOK
  <2>4. AllGood(Table, Finished, stack') /\ AllKeepRuns(stack, stack')
    BY <2>1, AtFacts, BecomesGood, FitsFacts
  <2>5. Finished' = Finished
    BY <2>1 DEF Finished, isDone, promiseVars
  <2> QED BY <2>1, <2>3, <2>4, <2>5, QuietStep DEF Inv, TypeOK, Stored, promiseVars, actionVars
<1> QED BY <1>1, <1>2

\* The client calls.
LEMMA BeginStep ==
  ASSUME Inv, NEW t \in Client, Begin(t)
  PROVE  Inv'
<1>1. PICK c \in todo[t] : stack' = [stack EXCEPT ![t] = c.frames] /\ todo' = [todo EXCEPT ![t] = @ \ {c}]
  BY DEF Begin
<1>2. t \in Thread /\ stack[t] = <<>> /\ UNCHANGED <<promiseVars, actionVars, program, known>>
  BY DEF Begin, Idle, Thread
<1>3. /\ program \in Programs /\ WellFormed(program) /\ DOMAIN todo = Client
      /\ \A u \in Client : todo[u] \subseteq program.ops[u]
  BY ProgramsAssumption DEF Inv, TypeOK, Stored
<1>4. /\ c.frames \in Seq(Frame)
      /\ \A i \in 1 .. Len(c.frames) :
            /\ WellFormedFrame(program, c.frames[i])
            /\ c.frames[i].pc \in {"anyOf", "anyOfDone"} =>
                 \E j \in i + 1 .. Len(c.frames) : c.frames[j].pc = "return"
  BY <1>1, <1>3 DEF WellFormed
<1>5. ASSUME NEW f, WellFormedFrame(program, f)
      PROVE  Good(Table, Finished, f) /\ f.pc # "run"
  BY <1>5 DEF WellFormedFrame, Good, DependsOn, Table
<1>6. GoodStack(Table, Finished, c.frames)
  BY <1>4, <1>5 DEF GoodStack
<1>7. stack \in [Thread -> Seq(Frame)]
  BY DEF Inv, TypeOK
<1>8. /\ stack'[t] = c.frames /\ stack' \in [Thread -> Seq(Frame)]
      /\ \A u \in Thread : u # t => stack'[u] = stack[u]
  BY <1>1, <1>2, <1>4, <1>7
<1>9. KeepsRuns(stack[t], stack'[t])
  <2>1. stack[t] \in Seq(Frame) /\ \A i \in 1 .. Len(c.frames) : c.frames[i].pc # "run"
    BY <1>2, <1>4, <1>5, <1>7
  <2> QED BY <1>4, <1>8, <2>1 DEF KeepsRuns
<1>10. \A u \in Thread : u # t => KeepsRuns(stack[u], stack'[u])
  BY <1>7, <1>8, SameStack
<1>11. AllGood(Table, Finished, stack') /\ AllKeepRuns(stack, stack')
  BY <1>6, <1>8, <1>9, <1>10 DEF AllGood, AllKeepRuns, Inv, Stacks
<1>12. DOMAIN todo' = Client /\ \A u \in Client : todo'[u] \subseteq program.ops[u]
  BY <1>1, <1>3
<1>13. Finished' = Finished
  BY <1>2 DEF Finished, isDone, promiseVars
<1> QED BY <1>2, <1>11, <1>12, <1>13, QuietStep DEF Inv, TypeOK, Stored, promiseVars, actionVars

\* The frames that run() goes on with are good and run nothing themselves.
LEMMA SetFits ==
  ASSUME NEW p \in Promises, NEW o \in Done
  PROVE  LET f == With("set", p, None, o) IN
         f.pc = "set" /\ Good(Table, Finished, f) /\ Fits(Table, Finished, <<f>>) /\ Plain(<<f>>)
<1> DEFINE f == With("set", p, None, o)
<1>1. f \in Frame /\ f.pc = "set" /\ f.p = p /\ f.out # Pending
  BY DEF With, Frame, PC, Done
<1> HIDE DEF f
<1>2. Good(Table, Finished, f)
  BY <1>1 DEF Good
<1>3. Fits(Table, Finished, <<f>>) /\ Plain(<<f>>)
  BY <1>1, <1>2, FitsFacts
<1> QED BY <1>1, <1>2, <1>3 DEF f

\* What an action that runs pushes suits its promises.
LEMMA RunFramesFit ==
  ASSUME Inv, NEW a, Ready(Table, Finished, a), act(a).kind # "timeout",
         NEW fs \in RunFrames(a)
  PROVE  Fits(Table, Finished, fs) /\ Plain(fs)
<1> DEFINE o == outcome[act(a).from[1]]
<1>1. TypeOK /\ program \in Programs /\ a \in DOMAIN Table
  BY DEF Inv, TypeOK, Ready
<1>2. act(a).to \in Promises /\ act(a).calls \in Promises \cup {None}
  BY <1>1, ActionFacts
<1>3. CASE act(a).kind = "errorRelay" /\ o = Value
  <2>1. fs = <<>>
    BY <1>3 DEF RunFrames
  <2> QED BY <2>1, FitsFacts
<1>4. CASE ~ (act(a).kind = "errorRelay" /\ o = Value)
  <2>1. o \in Done /\ Outcomes(a) \subseteq Done
    BY <1>1, <1>4, RunOutcomes
  <2>2. CASE act(a).calls # None
    <3> DEFINE f == With("complete", act(a).calls, None, o)
               g == With("set", act(a).to, None, o)
    <3>1. fs = <<f, g>>
      BY <1>4, <2>2 DEF RunFrames
    <3>2. f \in Frame /\ f.pc = "complete" /\ f.p \in Promises /\ f.out # Pending
      <4> HIDE DEF o
      <4> QED BY <1>2, <2>1, <2>2 DEF With, Frame, PC, Done
    <3>3. g.pc = "set" /\ Fits(Table, Finished, <<g>>)
      <4> HIDE DEF o
      <4> QED BY <1>2, <2>1, SetFits
    <3> HIDE DEF f, g
    <3>4. Good(Table, Finished, f)
      BY <3>2 DEF Good
    <3>5. Fits(Table, Finished, <<f>>)
      BY <3>2, <3>4, FitsFacts
    <3> QED BY <3>1, <3>2, <3>3, <3>5, FitsFacts
  <2>3. CASE act(a).calls = None
    <3>1. PICK out \in Outcomes(a) : fs = <<With("set", act(a).to, None, out)>>
      BY <1>4, <2>3 DEF RunFrames
    <3>2. out \in Done
      BY <2>1
    <3> QED BY <1>2, <3>1, <3>2, SetFits
  <2> QED BY <2>2, <2>3
<1> QED BY <1>3, <1>4

\* So does what a composition pushes.
LEMMA CompositionFramesFit ==
  ASSUME Inv, NEW a, Ready(Table, Finished, a), act(a).kind \in {"compose", "biCompose"},
         NEW fs \in CompositionFrames(a)
  PROVE  Fits(Table, Finished, fs) /\ Plain(fs)
<1>1. TypeOK /\ program \in Programs /\ a \in DOMAIN Table
  BY DEF Inv, TypeOK, Ready
<1>2. act(a).to \in Promises /\ act(a).then \in DOMAIN Table
  BY <1>1, ActionFacts
<1>3. CASE \E out \in Outcomes(a) : fs = <<With("set", act(a).to, None, out)>>
  <2>1. Outcomes(a) \subseteq Done
    BY <1>1, RunOutcomes
  <2>2. PICK out \in Done : fs = <<With("set", act(a).to, None, out)>>
    BY <1>3, <2>1
  <2> QED BY <1>2, <2>2, SetFits
<1>4. CASE fs = <<Of("then", act(act(a).then).from[1], act(a).then)>>
  <2> DEFINE b == act(a).then
             f == Of("then", act(b).from[1], b)
  <2>1. /\ act(b) = Table[b] /\ b \in Actions /\ act(b).from[1] \in Promises
        /\ DOMAIN act(b).from = 1 .. Len(act(b).from)
        /\ Len(act(b).from) = (IF act(b).kind = "biRelay" THEN 2 ELSE 1)
    BY <1>1, <1>2, ActionFacts
  <2>2. DependsOn(Table, b, act(b).from[1])
    <3>1. 1 \in DOMAIN act(b).from
      BY <2>1
    <3> QED BY <1>2, <2>1, <3>1 DEF DependsOn
  <2>3. f \in Frame /\ f.pc = "then" /\ f.p = act(b).from[1] /\ f.a = b
    BY <2>1 DEF Of, Frame, PC, Outcome
  <2>4. fs = <<f>>
    BY <1>4
  <2> HIDE DEF f, b
  <2>5. Good(Table, Finished, f)
    BY <2>1, <2>2, <2>3 DEF Good
  <2> QED BY <2>3, <2>4, <2>5, FitsFacts
<1> QED BY <1>3, <1>4 DEF CompositionFrames

\* So does what a delay pushes.
LEMMA DelayFramesFit ==
  ASSUME Inv, NEW a, Ready(Table, Finished, a), act(a).kind = "delay",
         NEW fs \in DelayAction(a)
  PROVE  Fits(Table, Finished, fs) /\ Plain(fs)
<1>1. program \in Programs /\ a \in DOMAIN Table
  BY DEF Inv, TypeOK, Ready
<1>2. act(a).to \in Promises /\ act(a).then \in DOMAIN Table /\ DependsOn(Table, act(a).then, act(a).to)
  BY <1>1, ActionFacts
<1>3. CASE fs \in RunFrames(a)
  BY <1>3, RunFramesFit
<1>4. CASE fs = <<Of("arm", act(a).to, act(a).then)>>
  <2> DEFINE f == Of("arm", act(a).to, act(a).then)
  <2>1. act(a).then \in Actions
    BY <1>1, <1>2, ActionFacts
  <2>2. f \in Frame /\ f.pc = "arm" /\ f.p = act(a).to /\ f.a = act(a).then
    BY <1>2, <2>1 DEF Of, Frame, PC, Outcome
  <2> HIDE DEF f
  <2>3. Good(Table, Finished, f)
    BY <1>2, <2>2 DEF Good
  <2> QED BY <1>4, <2>2, <2>3, FitsFacts DEF f
<1> QED BY <1>3, <1>4 DEF DelayAction

\* run()
LEMMA RunStep ==
  ASSUME Inv, NEW t \in Thread, Run(t)
  PROVE  Inv'
<1>1. PICK a : a = Top(t).a
  OBVIOUS
<1>2. /\ At(t, "run") /\ runs' = [runs EXCEPT ![a] = @ + 1]
      /\ UNCHANGED <<promiseVars, claimed, executing, clientVars>>
  BY <1>1 DEF Run
<1>3. Ready(Table, Finished, a) /\ program \in Programs
  BY <1>1, <1>2, AtFacts DEF Good, Inv, TypeOK
<1>4. a \in DOMAIN Table /\ a \in Actions
  BY <1>3, ActionFacts DEF Ready
<1>5. RunsAt(stack[t], 1, a) /\ stack[t] # <<>>
  BY <1>1, <1>2, AtFacts DEF RunsAt
<1>6. PICK fs : /\ stack' = Becomes(t, fs) /\ Fits(Table, Finished, fs) /\ Plain(fs)
                /\ timers' = timers \/ timers' = timers \ {a}
  <2>1. CASE act(a).kind = "timeout"
    <3>1. stack' = Becomes(t, <<>>) /\ timers' = timers \ {a}
      BY <1>1, <2>1 DEF Run
    <3> QED BY <3>1, FitsFacts
  <2>2. CASE act(a).kind \in {"compose", "biCompose"}
    <3>1. PICK fs \in CompositionFrames(a) : stack' = Becomes(t, fs) /\ timers' = timers
      BY <1>1, <2>2 DEF Run
    <3>2. Fits(Table, Finished, fs) /\ Plain(fs)
      BY <1>3, <2>2, CompositionFramesFit
    <3> QED BY <3>1, <3>2
  <2>3. CASE act(a).kind = "delay"
    <3>1. PICK fs \in DelayAction(a) : stack' = Becomes(t, fs) /\ timers' = timers
      BY <1>1, <2>3 DEF Run
    <3>2. Fits(Table, Finished, fs) /\ Plain(fs)
      BY <1>3, <2>3, DelayFramesFit
    <3> QED BY <3>1, <3>2
  <2>4. CASE act(a).kind \notin {"timeout", "compose", "biCompose", "delay"}
    <3>1. PICK fs \in RunFrames(a) : stack' = Becomes(t, fs) /\ timers' = timers
      BY <1>1, <2>4 DEF Run
    <3>2. Fits(Table, Finished, fs) /\ Plain(fs)
      BY <1>3, <2>4, RunFramesFit
    <3> QED BY <3>1, <3>2
  <2> QED BY <2>1, <2>2, <2>3, <2>4
<1>7. Finished' = Finished /\ Table' = Table
  BY <1>2 DEF Finished, isDone, Table, promiseVars, clientVars
<1>8. Once'
  <2>1. fs \in Seq(Frame)
    BY <1>6 DEF Fits
  <2> QED BY <1>2, <1>3, <1>4, <1>5, <1>6, <1>7, <2>1, OnceRun DEF Inv
<1>9. AllGood(Table, Finished, stack')
  BY <1>2, <1>5, <1>6, AtFacts, BecomesGood
<1>10. runs' \in [Actions -> Nat]
  BY <1>2, <1>4 DEF Inv, TypeOK
<1>11. TypeOK'
  BY <1>2, <1>6, <1>9, <1>10 DEF Inv, TypeOK, AllGood, promiseVars, clientVars
<1>12. Stacks'
  BY <1>7, <1>9 DEF Stacks, AllGood
<1>13. Stored'
  BY <1>2, <1>6, <1>7 DEF Inv, Stored, promiseVars, clientVars
<1> QED BY <1>8, <1>11, <1>12, <1>13 DEF Inv

(***************************************************************************)
(* Theorems.                                                               *)
(***************************************************************************)
LEMMA InitInv == Init => Inv
<1> SUFFICES ASSUME Init PROVE Inv
  OBVIOUS
<1>1. program \in Programs /\ WellFormed(program)
  BY ProgramsAssumption DEF Init
<1>2. TypeOK
  BY <1>1 DEF Init, TypeOK, WellFormed, Outcome
<1>3. \A s : s = <<>> => GoodStack(Table, Finished, s) /\ \A i, a : ~ RunsAt(s, i, a)
  BY DEF GoodStack, RunsAt
<1>4. \A t \in Thread : stack[t] = <<>>
  BY DEF Init
<1>5. Stacks
  BY <1>3, <1>4 DEF Stacks
<1>6. \A a : ~ Queued(executing, a)
  BY DEF Init, Queued
<1>7. Once
  <2>1. \A a \in Actions : runs[a] = 0
    BY DEF Init
  <2>2. \A t \in Thread : \A i, a : ~ RunsAt(stack[t], i, a)
    BY <1>3, <1>4
  <2>3. \A i \in 1 .. Len(executing) : FALSE
    BY DEF Init
  <2>4. /\ \A a \in Actions : runs[a] \in {0, 1}
        /\ \A a \in Actions : runs[a] # 1
    BY <2>1
  <2>5. \A i, j \in 1 .. Len(executing) : executing[i] = executing[j] => i = j
    BY <2>3
  <2>6. \A a \in Actions : \A t \in Thread, i \in Nat : ~ RunsAt(stack[t], i, a)
    BY <2>2
  <2> QED BY <1>6, <2>4, <2>5, <2>6, Zenon DEF Once
<1>8. Stored
  BY <1>1 DEF Init, Stored, WellFormed
<1> QED BY <1>2, <1>5, <1>7, <1>8 DEF Inv

\* Every step keeps the invariant.
LEMMA NextInv == Inv /\ [Next]_vars => Inv'
<1> SUFFICES ASSUME Inv, [Next]_vars PROVE Inv'
  OBVIOUS
<1>1. CASE UNCHANGED vars
  BY <1>1 DEF vars, promiseVars, actionVars, clientVars, Inv, TypeOK, Stacks, Once, Stored,
              Table, Finished, isDone
<1>2. CASE \E t \in Client : Begin(t)
  BY <1>2, BeginStep
<1>3. ASSUME NEW t \in Thread, Step(t) PROVE Inv'
  <2>1. CASE Return(t) \/ Unlock(t)
    BY <2>1, ReturnStep
  <2>2. CASE Complete(t)
    BY <2>2, CompleteStep
  <2>3. CASE OnComplete(t)
    BY <2>3, OnCompleteStep
  <2>4. CASE RunActions(t)
    BY <2>4, RunActionsStep
  <2>5. CASE TryRun(t)
    BY <2>5, TryRunStep
  <2>6. CASE TryRun2(t)
    BY <2>6, TryRun2Step
  <2>7. CASE Run(t)
    BY <2>7, RunStep
  <2>8. CASE SetResult(t)
    BY <2>8, SetResultStep
  <2>9. CASE Then(t)
    BY <2>9, ThenStep
  <2>10. CASE AddAction(t)
    BY <2>10, AddActionStep
  <2>11. CASE RemoveAction(t)
    BY <2>11, RemoveActionStep
  <2>12. CASE AndTree(t)
    BY <2>12, AndTreeStep
  <2>13. CASE AnyOf(t)
    BY <2>13, AnyOfStep
  <2>14. CASE AnyOfDone(t)
    BY <2>14, AnyOfDoneStep
  <2>15. CASE Arm(t)
    BY <2>15, ArmStep
  <2>16. CASE Fire(t)
    BY <2>16, FireStep
  <2>17. CASE Get(t) \/ GetExpires(t) \/ GetExpired(t)
    BY <2>17, GetStep
  <2> QED BY <1>3, <2>1, <2>2, <2>3, <2>4, <2>5, <2>6, <2>7, <2>8, <2>9, <2>10, <2>11,
             <2>12, <2>13, <2>14, <2>15, <2>16, <2>17 DEF Step
<1>4. CASE \E a \in Actions : Due(a)
  BY <1>4, DueStep
<1>5. CASE Execute
  BY <1>5, ExecuteStep
<1> QED BY <1>1, <1>2, <1>3, <1>4, <1>5 DEF Next

\* Frames, claims and queues of promises stay consistent in every client.
THEOREM Invariance == Spec => []Inv
BY InitInv, NextInv, PTL DEF Spec

\* Every variable of Promise holds a value of its kind.
THEOREM TypeCorrect == Spec => []TypeOK
<1>1. Inv => TypeOK
  BY DEF Inv
<1> QED BY <1>1, Invariance, PTL

\* claim() lets an action run once however many threads try it, and tryRun()
\* and addAction() let it run only when all of its suppliers are done.
THEOREM RunsOnceWhenDueHolds == Spec => []RunsOnceWhenDue
<1>1. Inv => RunsOnceWhenDue
  <2> SUFFICES ASSUME Inv, NEW a \in Actions
               PROVE  /\ runs[a] <= 1
                      /\ runs[a] = 1 => \A i \in DOMAIN act(a).from : isDone(act(a).from[i])
    BY DEF RunsOnceWhenDue
  <2>1. runs[a] \in {0, 1} /\ (runs[a] = 1 => Ready(Table, Finished, a))
    BY DEF Inv, Once
  <2>2. runs[a] <= 1
    BY <2>1
  <2>3. Ready(Table, Finished, a) => \A i \in DOMAIN act(a).from : isDone(act(a).from[i])
    BY DEF Ready, Finished, act, Table
  <2> QED BY <2>1, <2>2, <2>3
<1> QED BY <1>1, Invariance, PTL

(***************************************************************************)
(* What the other properties need.  First, promises that allOf() and       *)
(* anyOf() have yet to create.                                             *)
(***************************************************************************)
\* Stacks S create promise q; calls T yet to be made create it.
Creating(pr, S, q) == \E u \in Thread : \E k \in 1 .. Len(S[u]) : Creates(pr, S[u][k], q)
Planned(pr, T, q) ==
  \E w \in Client : \E c \in T[w] : \E k \in 1 .. Len(c.frames) : Creates(pr, c.frames[k], q)

\* Only the stack that creates a promise knows it; a later call has to be given it.
Apart(pr, S, T) ==
  /\ \A u \in Thread : Ordered(pr, S[u])
  /\ \A t, u \in Thread : \A i \in 1 .. Len(S[t]), k \in 1 .. Len(S[u]), q \in Promises :
       Mentions(pr, S[t][i], q) /\ Creates(pr, S[u][k], q) => t = u
  /\ \A t \in Thread : \A i \in 1 .. Len(S[t]), q \in Promises :
       Mentions(pr, S[t][i], q) => ~Planned(pr, T, q)
  /\ \A w \in Client : \A c \in T[w] : \A i \in 1 .. Len(c.frames), q \in Promises :
       Mentions(pr, c.frames[i], q) /\ Creating(pr, S, q) => q \in c.on

\* An action that is stored somewhere.
StoredAction(a) ==
  \/ \E p \in Promises : \E i \in 1 .. Len(mActions[p]) : mActions[p][i] = a
  \/ Queued(executing, a)
  \/ a \in timers

\* A promise that is yet to be created is not done and nobody knows it.
Unborn(q) == Creating(program, stack, q) \/ Planned(program, todo, q)
Fresh ==
  \A q \in Promises : Unborn(q) =>
    /\ ~isDone(q) /\ mActions[q] = <<>> /\ q \notin known
    /\ \A a \in Actions : StoredAction(a) => q \notin Knows(program, a)

\* The frames that only calls of the client have: what is below is also theirs.
CallOnly == {"removeAction", "andTree", "anyOf", "anyOfDone", "return"}
Layered(pr, s) ==
  /\ \A j \in 1 .. Len(s) : \A i \in 1 .. j - 1 : s[i].pc \in CallOnly => WellFormedFrame(pr, s[j])
  /\ \A i \in 1 .. Len(s) : s[i].pc = "await" => i = 1

\* A frame of stacks S at place pc for promise p.
FrameFor(S, pc, p) == \E u \in Thread : \E i \in 1 .. Len(S[u]) : S[u][i].pc = pc /\ S[u][i].p = p

Waits ==
  \A t \in Thread : \A i \in 1 .. Len(stack[t]) :
    stack[t][i].pc = "await" /\ stack[t][i].p \in Finished => FrameFor(stack, "onComplete", stack[t][i].p)

\* The iterators of runActions().
HoldsIn(s, p) == \E i \in 1 .. Len(s) : s[i].pc \in {"iterate", "hold"} /\ s[i].p = p
Exclusive(S) == \A t, u \in Thread : \A p \in Promises : HoldsIn(S[t], p) /\ HoldsIn(S[u], p) => t = u
Innermost(s, i) == \A j \in 1 .. i - 1 : ~ (s[j].pc = "iterate" /\ s[j].p = s[i].p)
Iterators(M, S) ==
  \A t \in Thread : \A i \in 1 .. Len(S[t]) : S[t][i].pc = "iterate" =>
    /\ S[t][i].a = None => M[S[t][i].p] = <<>>
    /\ Innermost(S[t], i) /\ M[S[t][i].p] # <<>> => S[t][i].a = Head(M[S[t][i].p])
Stranded ==
  \A p \in Finished : mActions[p] # <<>> =>
    FrameFor(stack, "onComplete", p) \/ FrameFor(stack, "iterate", p)

(***************************************************************************)
(* How the stacks move in one step.                                        *)
(***************************************************************************)
\* Frame f is g, or what signalAll() makes of it.
Alike(f, g) == f.p = g.p /\ f.a = g.a /\ (f.pc = g.pc \/ (f.pc = "get" /\ g.pc = "await"))

\* Stack r is s with a wait that was signalled.
Awoken(s, r) ==
  /\ s # <<>> /\ r \in Seq(Frame) /\ Len(r) = Len(s) /\ s[1].pc = "await"
  /\ r[1].pc = "get" /\ r[1].p = s[1].p /\ r[1].a = s[1].a
  /\ \A i \in 2 .. Len(s) : r[i] = s[i]

\* Thread t replaces d frames by n others and may signal the other threads.
Moves(S, R, t, d, n) ==
  /\ S \in [Thread -> Seq(Frame)] /\ R \in [Thread -> Seq(Frame)] /\ t \in Thread
  /\ Rewrites(S[t], R[t], d, n)
  /\ \A u \in Thread : u # t => R[u] = S[u] \/ Awoken(S[u], R[u])

\* Where frame i of thread u was before.
Back(t, d, n, u, i) == IF u = t THEN d + (i - n) ELSE i

\* A frame that was not pushed was there before, and at most a wait has ended.
LEMMA MovesBack ==
  ASSUME NEW S, NEW R, NEW t, NEW d, NEW n, Moves(S, R, t, d, n),
         NEW u \in Thread, NEW i \in 1 .. Len(R[u]), ~ (u = t /\ i <= n)
  PROVE  LET j == Back(t, d, n, u, i) IN
         /\ j \in 1 .. Len(S[u]) /\ Alike(R[u][i], S[u][j])
         /\ R[u][i] = S[u][j] \/ (u # t /\ j = 1 /\ S[u][1].pc = "await" /\ R[u][1].pc = "get")
         /\ u = t => j > d /\ d \in Nat /\ n \in Nat
<1>1. S[u] \in Seq(Frame) /\ Len(S[u]) \in Nat /\ R[u] \in Seq(Frame) /\ Len(R[u]) \in Nat
  BY LenProperties DEF Moves
<1>2. CASE u = t
  <2>1. /\ d \in Nat /\ n \in Nat /\ d <= Len(S[t]) /\ Len(R[t]) = n + (Len(S[t]) - d)
        /\ \A k \in 1 .. Len(S[t]) - d : R[t][n + k] = S[t][d + k]
    BY DEF Moves, Rewrites
  <2> DEFINE l == Len(S[t])
             m == Len(R[t])
  <2>0. l \in Nat /\ m \in Nat /\ i \in 1 .. m /\ ~ (i <= n) /\ d \in Nat /\ n \in Nat /\ d <= l /\ m = n + (l - d)
    BY <1>1, <1>2, <2>1
  <2> HIDE DEF l, m
  <2>4. i - n \in 1 .. l - d /\ n + (i - n) = i /\ d + (i - n) \in 1 .. l /\ d + (i - n) > d
    BY <2>0
  <2>2. i - n \in 1 .. Len(S[t]) - d /\ n + (i - n) = i /\ d + (i - n) \in 1 .. Len(S[t]) /\ d + (i - n) > d
    BY <2>4 DEF l
  <2>3. R[t][i] = S[t][d + (i - n)]
    BY <2>1, <2>2
  <2> QED BY <1>2, <2>1, <2>2, <2>3 DEF Back, Alike
<1>3. CASE u # t /\ R[u] = S[u]
  BY <1>3 DEF Back, Alike
<1>4. CASE u # t /\ Awoken(S[u], R[u])
  <2>1. Len(R[u]) = Len(S[u]) /\ i \in 1 .. Len(S[u])
    BY <1>4 DEF Awoken
  <2>2. CASE i = 1
    BY <1>4, <2>1, <2>2 DEF Back, Alike, Awoken
  <2>3. CASE i # 1
    <3>1. i \in 2 .. Len(S[u])
      BY <1>1, <2>1, <2>3
    <3>2. R[u][i] = S[u][i]
      BY <1>4, <3>1 DEF Awoken
    <3> QED BY <1>4, <2>1, <3>2 DEF Back, Alike
  <2> QED BY <2>2, <2>3
<1> QED BY <1>2, <1>3, <1>4 DEF Moves

\* Where frame j of thread u is afterwards.
LEMMA MovesOn ==
  ASSUME NEW S, NEW R, NEW t, NEW d, NEW n, Moves(S, R, t, d, n),
         NEW u \in Thread, NEW j \in 1 .. Len(S[u]), ~ (u = t /\ j <= d)
  PROVE  \E i \in 1 .. Len(R[u]) : /\ ~ (u = t /\ i <= n) /\ Alike(R[u][i], S[u][j])
                                   /\ S[u][j].pc # "await" => R[u][i] = S[u][j]
<1>1. S[u] \in Seq(Frame) /\ Len(S[u]) \in Nat /\ R[u] \in Seq(Frame) /\ Len(R[u]) \in Nat
  BY LenProperties DEF Moves
<1>2. CASE u = t
  <2>1. /\ d \in Nat /\ n \in Nat /\ d <= Len(S[t]) /\ Len(R[t]) = n + (Len(S[t]) - d)
        /\ \A k \in 1 .. Len(S[t]) - d : R[t][n + k] = S[t][d + k]
    BY DEF Moves, Rewrites
  <2>2. j - d \in 1 .. Len(S[t]) - d /\ d + (j - d) = j /\ n + (j - d) \in 1 .. Len(R[t]) /\ ~ (n + (j - d) <= n)
    BY <1>1, <1>2, <2>1
  <2>3. R[t][n + (j - d)] = S[t][j]
    BY <2>1, <2>2
  <2> QED BY <1>2, <2>2, <2>3 DEF Alike
<1>3. CASE u # t /\ R[u] = S[u]
  BY <1>3 DEF Alike
<1>4. CASE u # t /\ Awoken(S[u], R[u])
  <2>1. Len(R[u]) = Len(S[u]) /\ j \in 1 .. Len(R[u])
    BY <1>4 DEF Awoken
  <2>2. CASE j = 1
    BY <1>4, <2>1, <2>2 DEF Alike, Awoken
  <2>3. CASE j # 1
    <3>1. j \in 2 .. Len(S[u])
      BY <1>1, <2>3
    <3>2. R[u][j] = S[u][j]
      BY <1>4, <3>1 DEF Awoken
    <3> QED BY <1>4, <2>1, <3>2 DEF Alike
  <2> QED BY <2>2, <2>3
<1> QED BY <1>2, <1>3, <1>4 DEF Moves

\* Frames in the place of the innermost one.
LEMMA BecomesMoves ==
  ASSUME stack \in [Thread -> Seq(Frame)], NEW t \in Thread, stack[t] # <<>>, NEW fs \in Seq(Frame)
  PROVE  /\ Moves(stack, Becomes(t, fs), t, 1, Len(fs)) /\ Len(fs) \in Nat
         /\ \A i \in 1 .. Len(fs) : Becomes(t, fs)[t][i] = fs[i]
BY BecomesFacts, LenProperties DEF Moves

\* The same with a signal, for a frame that does not wait.
LEMMA SignalledMoves ==
  ASSUME stack \in [Thread -> Seq(Frame)], NEW t \in Thread, stack[t] # <<>>, NEW f \in Frame,
         f.pc # "await", NEW p
  PROVE  /\ Moves(stack, Signalled(Becomes(t, <<f>>), p), t, 1, 1)
         /\ Signalled(Becomes(t, <<f>>), p)[t][1] = f
         /\ \A u \in Thread : \A i \in 1 .. Len(Signalled(Becomes(t, <<f>>), p)[u]) :
              LET g == Signalled(Becomes(t, <<f>>), p)[u][i] IN i = 1 /\ g.pc = "await" => g.p # p
<1> DEFINE S == Becomes(t, <<f>>)
           R == Signalled(S, p)
<1>1. <<f>> \in Seq(Frame) /\ Len(<<f>>) = 1 /\ <<f>>[1] = f /\ 1 \in 1 .. 1
  OBVIOUS
<1>2. Moves(stack, S, t, 1, 1) /\ S[t][1] = f /\ S \in [Thread -> Seq(Frame)]
  BY <1>1, BecomesMoves, BecomesFacts
<1> HIDE DEF S
<1>3. ASSUME NEW u \in Thread
      PROVE  /\ R[u] \in Seq(Frame)
             /\ \/ R[u] = S[u] /\ ~ (S[u] # <<>> /\ S[u][1].pc = "await" /\ S[u][1].p = p)
                \/ Awoken(S[u], R[u])
  <2> DEFINE s == S[u]
             g == Of("get", p, Head(s).a)
  <2>1. R[u] = IF s # <<>> /\ Head(s).pc = "await" /\ Head(s).p = p THEN <<g>> \o Tail(s) ELSE s
    BY DEF Signalled
  <2>2. s \in Seq(Frame)
    BY <1>2
  <2> HIDE DEF R, s
  <2>3. CASE s = <<>>
    BY <2>1, <2>2, <2>3 DEF s
  <2>4. CASE s # <<>>
    <3>1. /\ Len(s) \in Nat /\ Len(s) >= 1
          /\ Head(s) = s[1] /\ s[1] \in Frame /\ Tail(s) \in Seq(Frame) /\ Len(Tail(s)) = Len(s) - 1
          /\ \A i \in 1 .. Len(Tail(s)) : Tail(s)[i] = s[i + 1]
      BY <2>2, <2>4, LenProperties, EmptySeq, HeadTailProperties
    <3>2. CASE ~ (s[1].pc = "await" /\ s[1].p = p)
      BY <2>1, <2>2, <2>4, <3>1, <3>2 DEF s
    <3>3. CASE s[1].pc = "await" /\ s[1].p = p
      <4>1. R[u] = <<g>> \o Tail(s)
        BY <2>1, <2>4, <3>1, <3>3
      <4>2. g = [pc |-> "get", p |-> p, a |-> s[1].a, out |-> Pending] /\ Pending \in Outcome
        BY <3>1 DEF Of, Outcome
      <4>3. g \in Frame /\ g.pc = "get" /\ g.p = p /\ g.a = s[1].a
        BY <3>1, <3>3, <4>2 DEF Frame, PC
      <4> HIDE DEF g
      <4>4. <<g>> \in Seq(Frame) /\ Len(<<g>>) = 1 /\ <<g>>[1] = g
        BY <4>3
      <4>5. /\ R[u] \in Seq(Frame) /\ Len(R[u]) = 1 + Len(Tail(s))
            /\ \A i \in 1 .. 1 + Len(Tail(s)) : R[u][i] = IF i <= 1 THEN <<g>>[i] ELSE Tail(s)[i - 1]
        BY <3>1, <4>1, <4>4, ConcatProperties
      <4>6. Len(R[u]) = Len(s) /\ R[u][1] = g
        BY <3>1, <4>4, <4>5
      <4>7. ASSUME NEW i \in 2 .. Len(s) PROVE R[u][i] = s[i]
        <5>1. i \in 1 .. 1 + Len(Tail(s)) /\ ~ (i <= 1) /\ i - 1 \in 1 .. Len(Tail(s)) /\ (i - 1) + 1 = i
          BY <3>1
        <5> QED BY <3>1, <4>5, <5>1
      <4>8. Awoken(s, R[u])
        BY <2>4, <3>3, <4>3, <4>5, <4>6, <4>7 DEF Awoken
      <4> QED BY <4>5, <4>8 DEF s
    <3> QED BY <3>2, <3>3
  <2> QED BY <2>3, <2>4
<1>4. R \in [Thread -> Seq(Frame)]
  <2>1. R = [u \in Thread |-> R[u]]
    BY DEF Signalled
  <2> HIDE DEF R
  <2> QED BY <1>3, <2>1
<1> HIDE DEF R
<1>5. R[t] = S[t]
  BY <1>2, <1>3 DEF Awoken
<1>6. \A u \in Thread : u # t => R[u] = stack[u] \/ Awoken(stack[u], R[u])
  <2>1. \A u \in Thread : u # t => S[u] = stack[u]
    BY <1>1, BecomesFacts DEF S
  <2> QED BY <1>3, <2>1
<1>7. Moves(stack, R, t, 1, 1)
  BY <1>2, <1>4, <1>5, <1>6 DEF Moves
<1>8. ASSUME NEW u \in Thread, NEW i \in 1 .. Len(R[u]), i = 1, R[u][i].pc = "await"
      PROVE  R[u][i].p # p
  <2>1. CASE Awoken(S[u], R[u])
    BY <1>8, <2>1 DEF Awoken
  <2>2. CASE R[u] = S[u] /\ ~ (S[u] # <<>> /\ S[u][1].pc = "await" /\ S[u][1].p = p)
    <3>1. S[u] # <<>>
      BY <1>8, <2>2
    <3> QED BY <1>8, <2>2, <3>1
  <2> QED BY <1>3, <2>1, <2>2
<1> QED BY <1>2, <1>5, <1>7, <1>8 DEF R, S

\* anyOf() skips d frames up to a return.
LEMMA SkipMoves ==
  ASSUME Inv, NEW t \in Thread, stack[t] # <<>>, Top(t).pc \in {"anyOf", "anyOfDone"}
  PROVE  \E d \in 1 .. Len(stack[t]) :
           /\ Moves(stack, SkipAnyOf(t), t, d, 0)
           /\ d + 1 \in 1 .. Len(stack[t]) /\ stack[t][d + 1].pc = "return"
<1> DEFINE s == stack[t]
           I == {i \in 1 .. Len(s) : s[i].pc = "return"}
           k == Min(I)
           S == SkipAnyOf(t)
<1>1. stack \in [Thread -> Seq(Frame)] /\ \A u \in Thread : GoodStack(Table, Finished, stack[u])
  BY DEF Inv, TypeOK, Stacks
<1>2. s \in Seq(Frame) /\ Len(s) \in Nat /\ Len(s) >= 1 /\ s[1].pc \in {"anyOf", "anyOfDone"}
  BY <1>1, LenProperties, EmptySeq, HeadTailProperties DEF Top
<1>3. PICK j \in 2 .. Len(s) : s[j].pc = "return"
  <2>1. 1 \in 1 .. Len(s)
    BY <1>2
  <2>2. PICK j \in 1 + 1 .. Len(s) : s[j].pc = "return"
    BY <1>1, <1>2, <2>1 DEF GoodStack
  <2> QED BY <2>2
<1>4. I \subseteq Nat /\ I # {}
  BY <1>2, <1>3
<1>5. k \in 1 .. Len(s) /\ s[k].pc = "return"
  BY <1>4, FirstPlace
<1>6. SelectInSeq(s, LAMBDA f : f.pc = "return") = k
  BY <1>4 DEF SelectInSeq
<1> HIDE DEF k, I
<1>7. S = [stack EXCEPT ![t] = SubSeq(s, k, Len(s))]
  BY <1>6 DEF SkipAnyOf
<1>8. /\ SubSeq(s, k, Len(s)) \in Seq(Frame) /\ Len(SubSeq(s, k, Len(s))) = Len(s) - k + 1
      /\ \A i \in 1 .. Len(s) - k + 1 : SubSeq(s, k, Len(s))[i] = s[k + i - 1]
  BY <1>2, <1>5, SubSeqProperties
<1>9. S \in [Thread -> Seq(Frame)] /\ S[t] = SubSeq(s, k, Len(s)) /\ \A u \in Thread : u # t => S[u] = stack[u]
  BY <1>1, <1>7, <1>8
<1> HIDE DEF S
<1>10. k # 1
  BY <1>2, <1>5
<1>11. k - 1 \in 1 .. Len(s) /\ (k - 1) + 1 = k
  BY <1>2, <1>5, <1>10
<1>12. Rewrites(s, S[t], k - 1, 0)
  <2>1. k - 1 \in Nat /\ k - 1 <= Len(s) /\ Len(S[t]) = 0 + (Len(s) - (k - 1))
    BY <1>2, <1>5, <1>8, <1>9
  <2>2. ASSUME NEW i \in 1 .. Len(s) - (k - 1) PROVE S[t][0 + i] = s[(k - 1) + i]
    <3>1. i \in 1 .. Len(s) - k + 1 /\ 0 + i = i /\ k + i - 1 = (k - 1) + i
      BY <1>2, <1>5
    <3> QED BY <1>8, <1>9, <3>1
  <2> QED BY <1>8, <1>9, <2>1, <2>2 DEF Rewrites
<1>13. Moves(stack, S, t, k - 1, 0)
  BY <1>1, <1>9, <1>12 DEF Moves
<1> QED BY <1>5, <1>11, <1>13 DEF S

(***************************************************************************)
(* Promises that are yet to be created.                                    *)
(***************************************************************************)
\* Nobody uses a promise before it is created.
Young == Apart(program, stack, todo) /\ (\A u \in Thread : Layered(program, stack[u])) /\ Fresh

\* A step of thread t that replaces d frames leaves none that creates what
\* the innermost one mentions.
Clears(S, t, d) ==
  /\ d >= 1 /\ S[t] # <<>>
  /\ S[t][1].pc # "anyOf" \/ (d + 1 \in 1 .. Len(S[t]) /\ S[t][d + 1].pc = "return")

\* Promise q is known to thread t, or to an action that is stored.
Reached(t, d, q) ==
  \/ Clears(stack, t, d) /\ Mentions(program, stack[t][1], q)
  \/ \E a \in Actions : StoredAction(a) /\ q \in Knows(program, a)

\* A frame that was there before.
LEMMA MovesFrom ==
  ASSUME NEW S, NEW R, NEW t, NEW d, NEW n, Moves(S, R, t, d, n),
         NEW u \in Thread, NEW i \in 1 .. Len(R[u]), ~ (u = t /\ i <= n)
  PROVE  \E j \in 1 .. Len(S[u]) : Alike(R[u][i], S[u][j]) /\ (u = t => j > d)
BY MovesBack

\* Frames with the same promise and action mention and create the same.
LEMMA AlikeFrames ==
  ASSUME NEW pr, NEW f, NEW g, Alike(f, g), NEW q
  PROVE  /\ Mentions(pr, f, q) <=> Mentions(pr, g, q)
         /\ Creates(pr, f, q) <=> Creates(pr, g, q)
BY DEF Alike, Mentions, Creates

\* What is created afterwards was to be created before.
LEMMA CreatingBack ==
  ASSUME NEW pr, NEW S, NEW R, NEW t, NEW d, NEW n, Moves(S, R, t, d, n), NEW q,
         \A i \in 1 .. n : ~Creates(pr, R[t][i], q),
         NEW u \in Thread, NEW k \in 1 .. Len(R[u]), Creates(pr, R[u][k], q)
  PROVE  ~ (u = t /\ k <= n)
<1>1. n \in Nat /\ Len(R[u]) \in Nat
  BY LenProperties DEF Moves, Rewrites
<1> QED BY <1>1

\* A promise that the thread knows has been created afterwards.
LEMMA ReachedBorn ==
  ASSUME Inv, Young, program' = program, todo' = todo, NEW t, NEW d, NEW n,
         Moves(stack, stack', t, d, n), NEW q \in Promises, Reached(t, d, q),
         \A i \in 1 .. n : ~Creates(program, stack'[t][i], q)
  PROVE  ~Unborn(q)'
<1> DEFINE S == stack
           R == stack'
<1>1. t \in Thread /\ d \in Nat /\ n \in Nat /\ \A u \in Thread : Len(S[u]) \in Nat
  BY LenProperties DEF Moves, Rewrites
<1>2. Creating(program', stack', q) => Creating(program, stack, q)
  <2>1. SUFFICES ASSUME NEW u \in Thread, NEW k \in 1 .. Len(R[u]), Creates(program, R[u][k], q)
                 PROVE  Creating(program, stack, q)
    BY DEF Creating
  <2>2. ~ (u = t /\ k <= n)
    BY <2>1, CreatingBack
  <2>3. PICK j \in 1 .. Len(S[u]) : Alike(R[u][k], S[u][j])
    BY <2>1, <2>2, MovesBack
  <2> QED BY <2>1, <2>3, AlikeFrames DEF Creating
<1>3. CASE \E a \in Actions : StoredAction(a) /\ q \in Knows(program, a)
  <2>1. ~Unborn(q)
    BY <1>3 DEF Young, Fresh
  <2> QED BY <1>2, <2>1 DEF Unborn
<1>4. CASE Clears(stack, t, d) /\ Mentions(program, stack[t][1], q)
  <2>1. 1 \in 1 .. Len(S[t])
    BY <1>1, <1>4, EmptySeq DEF Clears, Moves
  <2>2. ~Planned(program, todo, q)
    BY <1>1, <1>4, <2>1 DEF Young, Apart
  <2>3. ASSUME NEW u \in Thread, NEW k \in 1 .. Len(R[u]), Creates(program, R[u][k], q)
        PROVE  FALSE
    <3>1. ~ (u = t /\ k <= n)
      BY <2>3, CreatingBack
    <3>2. PICK j \in 1 .. Len(S[u]) : Alike(R[u][k], S[u][j]) /\ (u = t => j > d)
      BY <2>3, <3>1, MovesBack
    <3>3. Creates(program, S[u][j], q)
      BY <2>3, <3>2, AlikeFrames
    <3>4. u = t
      BY <1>1, <1>4, <2>1, <3>3 DEF Young, Apart
    <3>5. j \in 1 .. Len(S[t]) /\ j > d /\ d >= 1 /\ Ordered(program, S[t])
      BY <1>1, <1>4, <3>2, <3>4 DEF Clears, Young, Apart
    <3>6. \A i \in 1 .. j - 1 : \A h \in 1 .. i :
            Mentions(program, S[t][h], q) => S[t][i].pc = "anyOf" /\ Creates(program, S[t][i], q)
      BY <3>3, <3>4, <3>5 DEF Ordered
    <3>7. CASE S[t][1].pc # "anyOf"
      <4>1. 1 \in 1 .. j - 1 /\ 1 \in 1 .. 1
        BY <1>1, <3>5
      <4> QED BY <1>4, <3>6, <3>7, <4>1
    <3>8. CASE d + 1 \in 1 .. Len(S[t]) /\ S[t][d + 1].pc = "return"
      <4>1. j # d + 1
        BY <3>3, <3>4, <3>8 DEF Creates
      <4>2. d + 1 \in 1 .. j - 1 /\ 1 \in 1 .. d + 1
        BY <1>1, <3>5, <4>1
      <4>3. S[t][d + 1].pc = "anyOf"
        BY <1>4, <3>6, <4>2
      <4> QED BY <3>8, <4>3
    <3> QED BY <1>4, <3>7, <3>8 DEF Clears
  <2>4. ~Creating(program', stack', q)
    BY <2>3 DEF Creating
  <2> QED BY <2>2, <2>4 DEF Unborn
<1> QED BY <1>3, <1>4 DEF Reached

\* A step of thread t in which it uses what it knows, or what stored actions do.
UsesReached(t, d, n) ==
  /\ program' = program /\ Moves(stack, stack', t, d, n)
  /\ d = 0 => stack[t] = <<>>
  /\ \A i \in 1 .. n :
       /\ stack'[t][i].pc \notin CallOnly /\ (stack'[t][i].pc = "await" => i = 1)
       /\ \A q \in Promises : Mentions(program, stack'[t][i], q) => Reached(t, d, q)
  /\ \A q \in Promises :
       isDone(q)' \/ mActions'[q] # <<>> \/ q \in known' =>
         isDone(q) \/ mActions[q] # <<>> \/ q \in known \/ Reached(t, d, q)
  /\ \A a \in Actions : StoredAction(a)' =>
       StoredAction(a) \/ \A q \in Promises : q \in Knows(program, a) => Reached(t, d, q)

\* Layers stay when frames that calls do not have are put on top.
LEMMA LayeredStep ==
  ASSUME NEW pr, NEW S, NEW R, NEW t, NEW d, NEW n, Moves(S, R, t, d, n), d = 0 => S[t] = <<>>,
         \A i \in 1 .. n : R[t][i].pc \notin CallOnly /\ (R[t][i].pc = "await" => i = 1),
         NEW u \in Thread, Layered(pr, S[u])
  PROVE  Layered(pr, R[u])
<1>1. /\ d \in Nat /\ n \in Nat /\ Len(S[u]) \in Nat /\ Len(R[u]) \in Nat
      /\ u = t => (d = 0 => Len(S[u]) = 0)
  BY LenProperties, EmptySeq DEF Moves, Rewrites
<1>2. ASSUME NEW j \in 1 .. Len(R[u]), NEW i \in 1 .. j - 1, R[u][i].pc \in CallOnly
      PROVE  WellFormedFrame(pr, R[u][j])
  <2>1. i \in 1 .. Len(R[u])
    BY <1>1
  <2>2. ~ (u = t /\ i <= n) /\ ~ (u = t /\ j <= n)
    BY <1>1, <1>2
  <2> DEFINE k == Back(t, d, n, u, i)
             l == Back(t, d, n, u, j)
  <2>3. k \in 1 .. Len(S[u]) /\ Alike(R[u][i], S[u][k])
    BY <2>1, <2>2, MovesBack
  <2>4. l \in 1 .. Len(S[u]) /\ (R[u][j] = S[u][l] \/ (u # t /\ l = 1))
    BY <2>1, <2>2, MovesBack
  <2>5. k \in 1 .. l - 1
    BY <1>1, <2>3, <2>4 DEF Back
  <2> HIDE DEF k, l
  <2>6. l # 1
    BY <2>5
  <2>7. S[u][k].pc \in CallOnly
    BY <1>2, <2>3 DEF Alike, CallOnly
  <2>8. WellFormedFrame(pr, S[u][l])
    BY <2>4, <2>5, <2>7 DEF Layered
  <2> QED BY <2>4, <2>6, <2>8
<1>3. ASSUME NEW i \in 1 .. Len(R[u]), R[u][i].pc = "await"
      PROVE  i = 1
  <2>1. CASE u = t /\ i <= n
    BY <1>1, <1>3, <2>1
  <2>2. CASE ~ (u = t /\ i <= n)
    <3> DEFINE k == Back(t, d, n, u, i)
    <3>1. k \in 1 .. Len(S[u]) /\ Alike(R[u][i], S[u][k]) /\ (u = t => k > d)
      BY <2>2, MovesBack
    <3>2. S[u][k].pc = "await"
      BY <1>3, <3>1 DEF Alike
    <3>3. k = 1
      BY <3>1, <3>2 DEF Layered
    <3>4. u # t
      BY <1>1, <3>1, <3>3
    <3> QED BY <3>3, <3>4 DEF Back
  <2> QED BY <2>1, <2>2
<1> QED BY <1>2, <1>3 DEF Layered

\* What is kept of the stacks is still ordered.
LEMMA ApartStep ==
  ASSUME NEW pr, NEW S, NEW R, NEW T, NEW t, NEW d, NEW n, Moves(S, R, t, d, n), Apart(pr, S, T),
         \A i \in 1 .. n : \A q \in Promises :
           /\ ~Creates(pr, R[t][i], q)
           /\ Mentions(pr, R[t][i], q) => ~Creating(pr, R, q) /\ ~Planned(pr, T, q)
  PROVE  Apart(pr, R, T)
<1>1. d \in Nat /\ n \in Nat /\ t \in Thread /\ \A u \in Thread : Len(S[u]) \in Nat /\ Len(R[u]) \in Nat
  BY LenProperties DEF Moves, Rewrites
<1>2. ASSUME NEW u \in Thread PROVE Ordered(pr, R[u])
  <2>1. SUFFICES ASSUME NEW k \in 1 .. Len(R[u]), NEW i \in 1 .. k - 1, NEW h \in 1 .. i, NEW q \in Promises,
                        Mentions(pr, R[u][h], q), Creates(pr, R[u][k], q)
                 PROVE  R[u][i].pc = "anyOf" /\ Creates(pr, R[u][i], q)
    BY DEF Ordered
  <2>2. i \in 1 .. Len(R[u]) /\ h \in 1 .. Len(R[u])
    BY <1>1
  <2>3. Creating(pr, R, q)
    BY <2>1 DEF Creating
  <2>4. ~ (u = t /\ h <= n)
    BY <1>1, <2>1, <2>2, <2>3
  <2>5. ~ (u = t /\ i <= n) /\ ~ (u = t /\ k <= n)
    BY <1>1, <2>2, <2>4
  <2> DEFINE kk == Back(t, d, n, u, k)
             ii == Back(t, d, n, u, i)
             hh == Back(t, d, n, u, h)
  <2>6. kk \in 1 .. Len(S[u]) /\ Alike(R[u][k], S[u][kk])
    BY <2>5, MovesBack
  <2>7. ii \in 1 .. Len(S[u]) /\ Alike(R[u][i], S[u][ii])
    BY <2>2, <2>5, MovesBack
  <2>8. hh \in 1 .. Len(S[u]) /\ Alike(R[u][h], S[u][hh])
    BY <2>2, <2>4, MovesBack
  <2>9. ii \in 1 .. kk - 1 /\ hh \in 1 .. ii
    BY <1>1, <2>6, <2>7, <2>8 DEF Back
  <2> HIDE DEF ii, kk, hh
  <2>10. Mentions(pr, S[u][hh], q) /\ Creates(pr, S[u][kk], q)
    BY <2>1, <2>6, <2>8, AlikeFrames
  <2>11. S[u][ii].pc = "anyOf" /\ Creates(pr, S[u][ii], q)
    BY <2>6, <2>9, <2>10 DEF Apart, Ordered
  <2> QED BY <2>7, <2>11, AlikeFrames DEF Alike
<1>3. ASSUME NEW v \in Thread, NEW u \in Thread, NEW i \in 1 .. Len(R[v]), NEW k \in 1 .. Len(R[u]),
             NEW q \in Promises, Mentions(pr, R[v][i], q), Creates(pr, R[u][k], q)
      PROVE  v = u
  <2>1. Creating(pr, R, q)
    BY <1>3 DEF Creating
  <2>2. ~ (v = t /\ i <= n) /\ ~ (u = t /\ k <= n)
    BY <1>1, <1>3, <2>1
  <2>3. PICK ii \in 1 .. Len(S[v]) : Alike(R[v][i], S[v][ii])
    BY <2>2, MovesFrom
  <2>4. PICK kk \in 1 .. Len(S[u]) : Alike(R[u][k], S[u][kk])
    BY <2>2, MovesFrom
  <2>5. Mentions(pr, S[v][ii], q) /\ Creates(pr, S[u][kk], q)
    BY <1>3, <2>3, <2>4, AlikeFrames
  <2> QED BY <2>5 DEF Apart
<1>4. ASSUME NEW v \in Thread, NEW i \in 1 .. Len(R[v]), NEW q \in Promises, Mentions(pr, R[v][i], q)
      PROVE  ~Planned(pr, T, q)
  <2>1. CASE v = t /\ i <= n
    BY <1>1, <1>4, <2>1
  <2>2. CASE ~ (v = t /\ i <= n)
    <3>1. PICK ii \in 1 .. Len(S[v]) : Alike(R[v][i], S[v][ii])
      BY <2>2, MovesFrom
    <3>2. Mentions(pr, S[v][ii], q)
      BY <1>4, <3>1, AlikeFrames
    <3> QED BY <3>2 DEF Apart
  <2> QED BY <2>1, <2>2
<1>5. ASSUME NEW q \in Promises, Creating(pr, R, q) PROVE Creating(pr, S, q)
  <2>1. PICK u \in Thread : \E k \in 1 .. Len(R[u]) : Creates(pr, R[u][k], q)
    BY <1>5 DEF Creating
  <2>2. PICK k \in 1 .. Len(R[u]) : Creates(pr, R[u][k], q)
    BY <2>1
  <2>3. ~ (u = t /\ k <= n)
    BY <2>2, CreatingBack
  <2>4. PICK j \in 1 .. Len(S[u]) : Alike(R[u][k], S[u][j])
    BY <2>3, MovesFrom
  <2> QED BY <2>2, <2>4, AlikeFrames DEF Creating
<1>6. ASSUME NEW w \in Client, NEW c \in T[w], NEW i \in 1 .. Len(c.frames), NEW q \in Promises,
             Mentions(pr, c.frames[i], q), Creating(pr, R, q)
      PROVE  q \in c.on
  BY <1>5, <1>6 DEF Apart
<1> QED BY <1>2, <1>3, <1>4, <1>6 DEF Apart

\* Promises stay young as long as a step uses what is known.
LEMMA YoungStep ==
  ASSUME Inv, Young, NEW t, NEW d, NEW n, UsesReached(t, d, n), todo' = todo
  PROVE  Young'
<1>1. /\ program' = program /\ Moves(stack, stack', t, d, n) /\ (d = 0 => stack[t] = <<>>)
      /\ d \in Nat /\ n \in Nat /\ t \in Thread
      /\ \A i \in 1 .. n :
           /\ stack'[t][i].pc \notin CallOnly /\ (stack'[t][i].pc = "await" => i = 1)
           /\ \A q \in Promises : Mentions(program, stack'[t][i], q) => Reached(t, d, q)
  BY DEF UsesReached, Moves, Rewrites
<1>2. \A i \in 1 .. n : \A q : ~Creates(program, stack'[t][i], q)
  BY <1>1 DEF Creates, CallOnly
<1>3. \A q \in Promises : Reached(t, d, q) => ~Unborn(q)'
  BY <1>1, <1>2, ReachedBorn
<1>4. \A i \in 1 .. n : \A q \in Promises : Mentions(program, stack'[t][i], q) =>
        ~Creating(program, stack', q) /\ ~Planned(program, todo, q)
  BY <1>1, <1>3 DEF Unborn
<1>5. Apart(program, stack', todo)
  BY <1>1, <1>2, <1>4, ApartStep DEF Young
<1>6. \A u \in Thread : Layered(program, stack'[u])
  BY <1>1, LayeredStep DEF Young
<1>7. \A q \in Promises : Unborn(q)' => Unborn(q)
  <2>1. SUFFICES ASSUME NEW q \in Promises, NEW u \in Thread, NEW k \in 1 .. Len(stack'[u]),
                        Creates(program, stack'[u][k], q)
                 PROVE  Creating(program, stack, q)
    BY <1>1 DEF Unborn, Creating
  <2>2. ~ (u = t /\ k <= n)
    BY <1>1, <1>2, <2>1, CreatingBack
  <2>3. PICK j \in 1 .. Len(stack[u]) : Alike(stack'[u][k], stack[u][j])
    BY <1>1, <2>1, <2>2, MovesFrom
  <2> QED BY <2>1, <2>3, AlikeFrames DEF Creating
<1>8. Fresh'
  <2>1. SUFFICES ASSUME NEW q \in Promises, Unborn(q)'
                 PROVE  /\ ~isDone(q)' /\ mActions'[q] = <<>> /\ q \notin known'
                        /\ \A a \in Actions : StoredAction(a)' => q \notin Knows(program, a)
    BY <1>1 DEF Fresh
  <2>2. ~Reached(t, d, q) /\ Unborn(q)
    BY <1>3, <1>7, <2>1
  <2>3. /\ ~isDone(q) /\ mActions[q] = <<>> /\ q \notin known
        /\ \A a \in Actions : StoredAction(a) => q \notin Knows(program, a)
    BY <2>2 DEF Young, Fresh
  <2> QED BY <2>2, <2>3 DEF UsesReached
<1> QED BY <1>1, <1>5, <1>6, <1>8 DEF Young

(***************************************************************************)
(* What each step uses.                                                    *)
(***************************************************************************)
\* Whatever action a knows is reached; frame f is about what is reached.
ActionReached(t, d, a) == \A q \in Promises : q \in Knows(program, a) => Reached(t, d, q)
FrameReached(t, d, f) ==
  /\ f \in Frame /\ f.pc \notin CallOnly
  /\ f.p # None => Reached(t, d, f.p)
  /\ f.a \in {None, "timed"} \/ ActionReached(t, d, f.a)

\* What is newly done, listed, known or stored is reached.
DataReached(t, d) ==
  /\ \A q \in Promises :
       isDone(q)' \/ mActions'[q] # <<>> \/ q \in known' =>
         isDone(q) \/ mActions[q] # <<>> \/ q \in known \/ Reached(t, d, q)
  /\ \A a \in Actions : StoredAction(a)' => StoredAction(a) \/ ActionReached(t, d, a)

\* Frames that are neither waiting nor running the actions of a promise.
Calm == PC \ {"await", "onComplete", "iterate", "hold"}

\* A step that leaves the promises as they are and is not about their locks.
Quiet(t, d, n) ==
  /\ Moves(stack, stack', t, d, n) /\ UNCHANGED promiseVars
  /\ \A i \in 1 .. d : stack[t][i].pc \in Calm \cup {"hold", "await"}
  /\ \A i \in 1 .. n : stack'[t][i].pc \in Calm

\* Neither of the markers is an action.
LEMMA MarkerFacts ==
  ASSUME Inv
  PROVE  /\ program \in Programs /\ WellFormed(program) /\ DOMAIN program.act \subseteq Actions
         /\ None \notin DOMAIN program.act /\ "timed" \notin DOMAIN program.act
         /\ None \notin Promises /\ DOMAIN program.act = DOMAIN Table
<1>1. program \in Programs /\ WellFormed(program)
  BY ProgramsAssumption DEF Inv, TypeOK
<1>2. DOMAIN program.act \subseteq Actions
  BY <1>1 DEF WellFormed
<1> QED BY <1>1, <1>2, PromiseAssumption DEF Table

\* What the innermost frame mentions, and what stored actions know.
LEMMA TopReached ==
  ASSUME Inv, NEW t \in Thread, NEW pc, At(t, pc), pc # "anyOf"
  PROVE  /\ \A q : Mentions(program, Top(t), q) => Reached(t, 1, q)
         /\ Reached(t, 1, Top(t).p)
         /\ Top(t).a \in DOMAIN Table => ActionReached(t, 1, Top(t).a)
<1>1. stack[t] # <<>> /\ Top(t) = stack[t][1] /\ Top(t).pc = pc
  BY AtFacts
<1>2. Clears(stack, t, 1)
  BY <1>1 DEF Clears
<1>3. \A q : Mentions(program, Top(t), q) => Reached(t, 1, q)
  BY <1>1, <1>2 DEF Reached
<1>4. Mentions(program, Top(t), Top(t).p)
  BY DEF Mentions
<1>5. Top(t).a \in DOMAIN Table => \A q : q \in Knows(program, Top(t).a) => Mentions(program, Top(t), q)
  BY DEF Mentions, Table
<1> QED BY <1>3, <1>4, <1>5 DEF ActionReached

\* An action that is stored somewhere is reached by everybody.
LEMMA StoredReached ==
  ASSUME NEW a \in Actions, StoredAction(a), NEW t, NEW d
  PROVE  ActionReached(t, d, a)
BY DEF ActionReached, Reached

\* A frame about what is reached mentions nothing else.
LEMMA FrameReachedFacts ==
  ASSUME Inv, NEW t, NEW d, NEW f, FrameReached(t, d, f), NEW q \in Promises, Mentions(program, f, q)
  PROVE  Reached(t, d, q)
<1>1. f.p = q \/ (f.a \in DOMAIN program.act /\ q \in Knows(program, f.a))
  BY DEF Mentions
<1>2. CASE f.p = q
  BY <1>2, MarkerFacts DEF FrameReached
<1>3. CASE f.a \in DOMAIN program.act /\ q \in Knows(program, f.a)
  BY <1>3, MarkerFacts DEF FrameReached, ActionReached
<1> QED BY <1>1, <1>2, <1>3

\* Steps that leave lists, queues and known promises alone.
LEMMA DataSame ==
  ASSUME NEW t, NEW d, UNCHANGED <<promiseVars, executing, timers, known>>
  PROVE  DataReached(t, d)
BY DEF DataReached, promiseVars, isDone, StoredAction

\* From frames and data to the step.
LEMMA UsesStep ==
  ASSUME Inv, program' = program, NEW t, NEW d, NEW n, Moves(stack, stack', t, d, n), d = 0 => stack[t] = <<>>,
         DataReached(t, d),
         \A i \in 1 .. n : FrameReached(t, d, stack'[t][i]) /\ (stack'[t][i].pc = "await" => i = 1)
  PROVE  UsesReached(t, d, n)
<1>1. \A i \in 1 .. n : \A q \in Promises : Mentions(program, stack'[t][i], q) => Reached(t, d, q)
  BY FrameReachedFacts
<1>2. \A i \in 1 .. n : stack'[t][i].pc \notin CallOnly
  BY DEF FrameReached
<1> QED BY <1>1, <1>2 DEF UsesReached, DataReached, ActionReached

\* No frame, one frame and two frames in the place of the innermost one.
LEMMA Push0 ==
  ASSUME Inv, NEW t \in Thread, NEW pc, At(t, pc), stack' = Becomes(t, <<>>)
  PROVE  Moves(stack, stack', t, 1, 0)
<1>1. stack \in [Thread -> Seq(Frame)] /\ stack[t] # <<>> /\ <<>> \in Seq(Frame) /\ Len(<<>>) = 0
  BY AtFacts DEF AllGood
<1> QED BY <1>1, BecomesMoves

\* One frame takes the place of the top one.
LEMMA Push1 ==
  ASSUME Inv, NEW t \in Thread, NEW pc, At(t, pc), NEW f \in Frame, stack' = Becomes(t, <<f>>)
  PROVE  Moves(stack, stack', t, 1, 1) /\ stack'[t][1] = f /\ \A i \in 1 .. 1 : stack'[t][i] = f /\ i = 1
<1>1. stack \in [Thread -> Seq(Frame)] /\ stack[t] # <<>>
  BY AtFacts DEF AllGood
<1> DEFINE fs == <<f>>
<1>2. fs \in Seq(Frame) /\ Len(fs) = 1 /\ fs[1] = f /\ 1 \in 1 .. 1 /\ \A i \in 1 .. 1 : i = 1
  OBVIOUS
<1> HIDE DEF fs
<1>3. stack' = Becomes(t, fs)
  BY DEF fs
<1>4. /\ Moves(stack, Becomes(t, fs), t, 1, Len(fs))
      /\ \A i \in 1 .. Len(fs) : Becomes(t, fs)[t][i] = fs[i]
  BY <1>1, <1>2, BecomesMoves
<1>5. Moves(stack, stack', t, 1, 1) /\ \A i \in 1 .. 1 : stack'[t][i] = fs[i]
  BY <1>2, <1>3, <1>4
<1> QED BY <1>2, <1>5

\* Two frames take the place of the top one.
LEMMA Push2 ==
  ASSUME Inv, NEW t \in Thread, NEW pc, At(t, pc), NEW f \in Frame, NEW g \in Frame,
         stack' = Becomes(t, <<f, g>>)
  PROVE  /\ Moves(stack, stack', t, 1, 2) /\ stack'[t][1] = f /\ stack'[t][2] = g
         /\ \A i \in 1 .. 2 : (i = 1 /\ stack'[t][i] = f) \/ (i = 2 /\ stack'[t][i] = g)
<1>1. stack \in [Thread -> Seq(Frame)] /\ stack[t] # <<>>
  BY AtFacts DEF AllGood
<1> DEFINE fs == <<f, g>>
<1>2. fs \in Seq(Frame) /\ Len(fs) = 2 /\ fs[1] = f /\ fs[2] = g
  OBVIOUS
<1>3. 1 \in 1 .. 2 /\ 2 \in 1 .. 2 /\ \A i \in 1 .. 2 : i = 1 \/ i = 2
  OBVIOUS
<1> HIDE DEF fs
<1>4. stack' = Becomes(t, fs)
  BY DEF fs
<1>5. /\ Moves(stack, Becomes(t, fs), t, 1, Len(fs))
      /\ \A i \in 1 .. Len(fs) : Becomes(t, fs)[t][i] = fs[i]
  BY <1>1, <1>2, BecomesMoves
<1>6. Moves(stack, stack', t, 1, 2) /\ \A i \in 1 .. 2 : stack'[t][i] = fs[i]
  BY <1>2, <1>4, <1>5
<1> QED BY <1>2, <1>3, <1>6

\* A frame for a new stack.
LEMMA Start1 ==
  ASSUME Inv, NEW t \in Thread, stack[t] = <<>>, NEW f \in Frame, stack' = [stack EXCEPT ![t] = <<f>>]
  PROVE  Moves(stack, stack', t, 0, 1) /\ stack'[t][1] = f /\ \A i \in 1 .. 1 : stack'[t][i] = f /\ i = 1
<1>1. stack \in [Thread -> Seq(Frame)]
  BY DEF Inv, TypeOK
<1>2. <<f>> \in Seq(Frame) /\ Len(<<f>>) = 1 /\ <<f>>[1] = f /\ \A i \in 1 .. 1 : i = 1
  OBVIOUS
<1>3. stack'[t] = <<f>> /\ stack' \in [Thread -> Seq(Frame)] /\ \A u \in Thread : u # t => stack'[u] = stack[u]
  BY <1>1, <1>2
<1>4. Len(stack[t]) = 0
  OBVIOUS
<1>5. Rewrites(stack[t], stack'[t], 0, 1)
  <2>1. 0 \in Nat /\ 1 \in Nat /\ 0 <= 0 /\ 1 = 1 + (0 - 0) /\ \A i \in 1 .. 0 - 0 : FALSE
    OBVIOUS
  <2> QED BY <1>2, <1>3, <1>4, <2>1 DEF Rewrites
<1> QED BY <1>1, <1>2, <1>3, <1>5 DEF Moves

\* Steps that leave the promises alone and push no frame, one or two.
LEMMA QuietPush0 ==
  ASSUME Inv, NEW t \in Thread, NEW pc \in Calm \cup {"hold", "await"}, At(t, pc), stack' = Becomes(t, <<>>),
         UNCHANGED <<promiseVars, program>>, DataReached(t, 1)
  PROVE  UsesReached(t, 1, 0) /\ Quiet(t, 1, 0)
<1>1. Moves(stack, stack', t, 1, 0) /\ program' = program /\ UNCHANGED promiseVars
  BY Push0
<1>2. UsesReached(t, 1, 0)
  BY <1>1, UsesStep
<1>3. \A i \in 1 .. 1 : i = 1
  OBVIOUS
<1>4. stack[t][1].pc = pc
  BY AtFacts
<1> QED BY <1>1, <1>2, <1>3, <1>4 DEF Quiet

\* One such frame that uses only what is reached changes no promise.
LEMMA QuietPush1 ==
  ASSUME Inv, NEW t \in Thread, NEW pc \in Calm \cup {"hold", "await"}, At(t, pc), NEW f, FrameReached(t, 1, f),
         f.pc \in Calm, stack' = Becomes(t, <<f>>),
         UNCHANGED <<promiseVars, program>>, DataReached(t, 1)
  PROVE  UsesReached(t, 1, 1) /\ Quiet(t, 1, 1)
<1>0. f \in Frame
  BY DEF FrameReached
<1>1. /\ Moves(stack, stack', t, 1, 1) /\ program' = program /\ UNCHANGED promiseVars
      /\ \A i \in 1 .. 1 : stack'[t][i] = f /\ i = 1
  BY <1>0, Push1
<1>2. UsesReached(t, 1, 1)
  BY <1>1, UsesStep
<1>4. stack[t][1].pc = pc
  BY AtFacts
<1> QED BY <1>1, <1>2, <1>4 DEF Quiet

\* Nor do two.
LEMMA QuietPush2 ==
  ASSUME Inv, NEW t \in Thread, NEW pc \in Calm \cup {"hold", "await"}, At(t, pc),
         NEW f, FrameReached(t, 1, f), f.pc \in Calm, NEW g, FrameReached(t, 1, g), g.pc \in Calm,
         stack' = Becomes(t, <<f, g>>),
         UNCHANGED <<promiseVars, program>>, DataReached(t, 1)
  PROVE  UsesReached(t, 1, 2) /\ Quiet(t, 1, 2)
<1>0. f \in Frame /\ g \in Frame
  BY DEF FrameReached
<1>1. /\ Moves(stack, stack', t, 1, 2) /\ program' = program /\ UNCHANGED promiseVars
      /\ \A i \in 1 .. 2 : (i = 1 /\ stack'[t][i] = f) \/ (i = 2 /\ stack'[t][i] = g)
  BY <1>0, Push2
<1>2. \A i \in 1 .. 2 : FrameReached(t, 1, stack'[t][i]) /\ stack'[t][i].pc \in Calm
  BY <1>1
<1>3. \A i \in 1 .. 2 : stack'[t][i].pc # "await"
  BY <1>2 DEF Calm
<1>4. UsesReached(t, 1, 2)
  BY <1>1, <1>2, <1>3, UsesStep
<1>5. stack[t][1].pc = pc /\ \A i \in 1 .. 1 : i = 1
  BY AtFacts
<1> QED BY <1>1, <1>2, <1>4, <1>5 DEF Quiet

\* The thread's call returns a promise; addAction() gives up its lock.
LEMMA ReturnUses ==
  ASSUME Inv, NEW t \in Thread, Return(t) \/ Unlock(t)
  PROVE  UsesReached(t, 1, 0) /\ Quiet(t, 1, 0)
<1>1. CASE Return(t)
  <2>1. /\ At(t, "return") /\ known' = known \cup {Top(t).p} /\ stack' = Becomes(t, <<>>)
        /\ UNCHANGED <<promiseVars, program, executing, timers>> /\ "return" \in Calm
    BY <1>1 DEF Return, actionVars, Calm, PC
  <2>2. Reached(t, 1, Top(t).p)
    BY <2>1, TopReached
  <2>3. DataReached(t, 1)
    BY <2>1, <2>2 DEF DataReached, promiseVars, isDone, StoredAction
  <2> QED BY <2>1, <2>3, QuietPush0
<1>2. CASE Unlock(t)
  <2>1. /\ At(t, "hold") /\ stack' = Becomes(t, <<>>)
        /\ UNCHANGED <<promiseVars, program, executing, timers, known>>
    BY <1>2 DEF Unlock, actionVars, clientVars
  <2>3. DataReached(t, 1)
    BY <2>1, DataSame
  <2> QED BY <2>1, <2>3, QuietPush0
<1> QED BY <1>1, <1>2

\* Of(pc, None, a) for an action that is reached, and frames for a promise that is.
LEMMA OfReached ==
  ASSUME NEW t, NEW d, NEW pc \in PC \ CallOnly
  PROVE  /\ \A a \in Actions : ActionReached(t, d, a) =>
              LET f == Of(pc, None, a) IN f.pc = pc /\ f.a = a /\ f.p = None /\ FrameReached(t, d, f)
         /\ \A p \in Promises : Reached(t, d, p) =>
              LET f == Of(pc, p, None) IN f.pc = pc /\ f.a = None /\ f.p = p /\ FrameReached(t, d, f)
         /\ \A p \in Promises, o \in Outcome : Reached(t, d, p) =>
              LET f == With(pc, p, None, o) IN f.pc = pc /\ f.a = None /\ f.p = p /\ FrameReached(t, d, f)
         /\ \A p \in Promises, a \in Actions : Reached(t, d, p) /\ ActionReached(t, d, a) =>
              LET f == Of(pc, p, a) IN f.pc = pc /\ f.a = a /\ f.p = p /\ FrameReached(t, d, f)
<1> DEFINE F(p, a, o) == [pc |-> pc, p |-> p, a |-> a, out |-> o]
<1>1. ASSUME NEW p \in Promises \cup {None}, NEW a \in Actions \cup {None, "timed"}, NEW o \in Outcome,
             p # None => Reached(t, d, p), a \in {None, "timed"} \/ ActionReached(t, d, a)
      PROVE  F(p, a, o).pc = pc /\ F(p, a, o).a = a /\ F(p, a, o).p = p /\ FrameReached(t, d, F(p, a, o))
  <2>1. F(p, a, o) \in Frame /\ F(p, a, o).pc = pc /\ F(p, a, o).a = a /\ F(p, a, o).p = p
    BY DEF Frame
  <2> HIDE DEF F
  <2> QED BY <1>1, <2>1 DEF FrameReached
<1>2. \A p, a : Of(pc, p, a) = F(p, a, Pending) /\ Pending \in Outcome
  BY DEF Of, Outcome
<1>3. \A p, a, o : With(pc, p, a, o) = F(p, a, o)
  BY DEF With
<1> HIDE DEF F
<1>4. ASSUME NEW a \in Actions, ActionReached(t, d, a)
      PROVE  Of(pc, None, a).pc = pc /\ Of(pc, None, a).a = a /\ Of(pc, None, a).p = None /\ FrameReached(t, d, Of(pc, None, a))
  BY <1>1, <1>2, <1>4
<1>5. ASSUME NEW p \in Promises, Reached(t, d, p)
      PROVE  Of(pc, p, None).pc = pc /\ Of(pc, p, None).a = None /\ Of(pc, p, None).p = p /\ FrameReached(t, d, Of(pc, p, None))
  BY <1>1, <1>2, <1>5
<1>6. ASSUME NEW p \in Promises, NEW o \in Outcome, Reached(t, d, p)
      PROVE  With(pc, p, None, o).pc = pc /\ With(pc, p, None, o).a = None /\ With(pc, p, None, o).p = p /\ FrameReached(t, d, With(pc, p, None, o))
  BY <1>1, <1>3, <1>6
<1>7. ASSUME NEW p \in Promises, NEW a \in Actions, Reached(t, d, p), ActionReached(t, d, a)
      PROVE  Of(pc, p, a).pc = pc /\ Of(pc, p, a).a = a /\ Of(pc, p, a).p = p /\ FrameReached(t, d, Of(pc, p, a))
  BY <1>1, <1>2, <1>7
<1> QED BY <1>4, <1>5, <1>6, <1>7

\* claim(), and then run() or Executor::execute().
LEMMA ClaimUses ==
  ASSUME Inv, NEW t \in Thread, NEW pc \in {"tryRun", "tryRun2"}, At(t, pc), NEW a \in DOMAIN Table,
         a = Top(t).a, Claim(t, a), UNCHANGED <<promiseVars, clientVars>>
  PROVE  \E n : UsesReached(t, 1, n) /\ Quiet(t, 1, n)
<1>1. program \in Programs /\ a \in Actions /\ UNCHANGED <<promiseVars, program>>
  BY ActionFacts DEF Inv, TypeOK, clientVars
<1>2. pc \in Calm /\ pc # "anyOf" /\ "run" \in Calm /\ "run" \in PC \ CallOnly /\ pc \in Calm \cup {"hold", "await"}
  BY DEF Calm, PC, CallOnly
<1>3. ActionReached(t, 1, a)
  BY <1>2, TopReached
<1>4. CASE executing' = executing /\ stack' = Becomes(t, <<>>)
  <2>1. DataReached(t, 1)
    BY <1>4, DataSame DEF Claim, clientVars
  <2> QED BY <1>1, <1>2, <1>4, <2>1, QuietPush0
<1>5. CASE executing' = executing /\ stack' = Becomes(t, <<Of("run", None, a)>>)
  <2>1. DataReached(t, 1)
    BY <1>5, DataSame DEF Claim, clientVars
  <2>2. Of("run", None, a).pc = "run" /\ FrameReached(t, 1, Of("run", None, a))
    BY <1>1, <1>2, <1>3, OfReached
  <2> QED BY <1>1, <1>2, <1>5, <2>1, <2>2, QuietPush1
<1>6. CASE executing' = Append(executing, a) /\ stack' = Becomes(t, <<>>)
  <2>1. executing \in Seq(Actions) /\ Len(executing) \in Nat
    BY LenProperties DEF Inv, TypeOK
  <2>2. /\ Len(executing') = Len(executing) + 1
        /\ \A i \in 1 .. Len(executing) : executing'[i] = executing[i]
        /\ executing'[Len(executing) + 1] = a
    BY <1>1, <1>6, <2>1, AppendProperties
  <2>3. ASSUME NEW b, Queued(executing', b) PROVE Queued(executing, b) \/ b = a
    <3>1. PICK i \in 1 .. Len(executing') : executing'[i] = b
      BY <2>3 DEF Queued
    <3>2. i \in 1 .. Len(executing) \/ i = Len(executing) + 1
      BY <2>1, <2>2
    <3> QED BY <2>2, <3>1, <3>2 DEF Queued
  <2>4. mActions' = mActions /\ timers' = timers /\ outcome' = outcome /\ known' = known
    BY DEF Claim, promiseVars, clientVars
  <2>5. \A b : StoredAction(b)' => StoredAction(b) \/ b = a
    BY <2>3, <2>4 DEF StoredAction
  <2>6. DataReached(t, 1)
    BY <1>3, <2>4, <2>5 DEF DataReached, isDone
  <2> QED BY <1>1, <1>2, <1>6, <2>6, QuietPush0
<1> QED BY <1>4, <1>5, <1>6 DEF Claim

\* tryRun() and its second half
LEMMA TryRunUses ==
  ASSUME Inv, NEW t \in Thread, TryRun(t) \/ TryRun2(t)
  PROVE  \E n : UsesReached(t, 1, n) /\ Quiet(t, 1, n)
<1>1. PICK a : a = Top(t).a
  OBVIOUS
<1>2. PICK pc \in {"tryRun", "tryRun2"} : At(t, pc)
  BY DEF TryRun, TryRun2
<1>3. UNCHANGED <<promiseVars, clientVars>> /\ UNCHANGED <<promiseVars, program>>
  BY DEF TryRun, TryRun2, clientVars
<1>4. a \in DOMAIN Table /\ program \in Programs
  BY <1>1, <1>2, AtFacts DEF Good, Inv, TypeOK
<1>5. a \in Actions
  BY <1>4, ActionFacts
<1>6. CASE Claim(t, a)
  BY <1>1, <1>2, <1>3, <1>4, <1>6, ClaimUses
<1>7. pc \in Calm \cup {"hold", "await"} /\ pc # "anyOf" /\ "tryRun2" \in Calm /\ "tryRun2" \in PC \ CallOnly
  BY DEF Calm, PC, CallOnly
<1>8. CASE UNCHANGED actionVars /\ stack' = Becomes(t, <<>>)
  <2>1. DataReached(t, 1)
    BY <1>3, <1>8, DataSame DEF actionVars, clientVars
  <2> QED BY <1>2, <1>3, <1>7, <1>8, <2>1, QuietPush0
<1>9. CASE UNCHANGED actionVars /\ stack' = Becomes(t, <<Of("tryRun2", None, a)>>)
  <2>1. DataReached(t, 1)
    BY <1>3, <1>9, DataSame DEF actionVars, clientVars
  <2>2. ActionReached(t, 1, a)
    BY <1>1, <1>2, <1>4, <1>7, TopReached
  <2>3. Of("tryRun2", None, a).pc = "tryRun2" /\ FrameReached(t, 1, Of("tryRun2", None, a))
    BY <1>5, <1>7, <2>2, OfReached
  <2> QED BY <1>2, <1>3, <1>7, <1>9, <2>1, <2>3, QuietPush1
<1> QED BY <1>1, <1>6, <1>8, <1>9 DEF TryRun, TryRun2

\* isDone() before a dependent is added
LEMMA ThenUses ==
  ASSUME Inv, NEW t \in Thread, Then(t)
  PROVE  UsesReached(t, 1, 1) /\ Quiet(t, 1, 1)
<1>1. PICK p : p = Top(t).p
  OBVIOUS
<1>2. PICK a : a = Top(t).a
  OBVIOUS
<1>3. /\ At(t, "then") /\ UNCHANGED <<promiseVars, program>>
      /\ UNCHANGED <<promiseVars, executing, timers, known>>
      /\ stack' = Becomes(t, <<Of("tryRun", None, a)>>) \/ stack' = Becomes(t, <<Of("addAction", p, a)>>)
  BY <1>1, <1>2 DEF Then, actionVars, clientVars
<1>4. p \in Promises /\ a \in DOMAIN Table /\ program \in Programs
  BY <1>1, <1>2, <1>3, AtFacts DEF Good, DependsOn, Inv, TypeOK
<1>5. a \in Actions /\ ActionReached(t, 1, a) /\ Reached(t, 1, p)
  BY <1>1, <1>2, <1>3, <1>4, ActionFacts, TopReached
<1>6. /\ "then" \in Calm \cup {"hold", "await"} /\ "tryRun" \in Calm /\ "addAction" \in Calm
      /\ "tryRun" \in PC \ CallOnly /\ "addAction" \in PC \ CallOnly
  BY DEF Calm, PC, CallOnly
<1>7. DataReached(t, 1)
  BY <1>3, DataSame
<1>8. Of("tryRun", None, a).pc = "tryRun" /\ FrameReached(t, 1, Of("tryRun", None, a))
  BY <1>5, <1>6, OfReached
<1>9. Of("addAction", p, a).pc = "addAction" /\ FrameReached(t, 1, Of("addAction", p, a))
  BY <1>4, <1>5, <1>6, OfReached
<1>10. CASE stack' = Becomes(t, <<Of("tryRun", None, a)>>)
  BY <1>3, <1>6, <1>7, <1>8, <1>10, QuietPush1
<1>11. CASE stack' = Becomes(t, <<Of("addAction", p, a)>>)
  BY <1>3, <1>6, <1>7, <1>9, <1>11, QuietPush1
<1> QED BY <1>3, <1>10, <1>11

\* Timeouts are armed.
LEMMA ArmUses ==
  ASSUME Inv, NEW t \in Thread, Arm(t)
  PROVE  \E n : UsesReached(t, 1, n) /\ Quiet(t, 1, n)
<1>1. PICK p : p = Top(t).p
  OBVIOUS
<1>2. PICK a : a = Top(t).a
  OBVIOUS
<1>3. /\ At(t, "arm") /\ UNCHANGED <<promiseVars, program>> /\ UNCHANGED <<outcome, mActions, executing, known>>
      /\ \/ stack' = Becomes(t, <<>>) /\ timers' = timers
         \/ stack' = Becomes(t, <<Of("then", p, a)>>) /\ timers' = timers \cup {a}
  BY <1>1, <1>2 DEF Arm, clientVars, promiseVars
<1>4. p \in Promises /\ a \in DOMAIN Table /\ program \in Programs
  BY <1>1, <1>2, <1>3, AtFacts DEF Good, DependsOn, Inv, TypeOK
<1>5. a \in Actions /\ ActionReached(t, 1, a) /\ Reached(t, 1, p)
  BY <1>1, <1>2, <1>3, <1>4, ActionFacts, TopReached
<1>6. "arm" \in Calm \cup {"hold", "await"} /\ "then" \in Calm /\ "then" \in PC \ CallOnly
  BY DEF Calm, PC, CallOnly
<1>7. DataReached(t, 1)
  <2>1. \A b : StoredAction(b)' => StoredAction(b) \/ b = a
    BY <1>3 DEF StoredAction
  <2> QED BY <1>3, <1>5, <2>1 DEF DataReached, isDone
<1>8. Of("then", p, a).pc = "then" /\ FrameReached(t, 1, Of("then", p, a))
  BY <1>4, <1>5, <1>6, OfReached
<1>9. CASE stack' = Becomes(t, <<>>)
  BY <1>3, <1>6, <1>7, <1>9, QuietPush0
<1>10. CASE stack' = Becomes(t, <<Of("then", p, a)>>)
  BY <1>3, <1>6, <1>7, <1>8, <1>10, QuietPush1
<1> QED BY <1>3, <1>9, <1>10

\* The daemon's callback
LEMMA FireUses ==
  ASSUME Inv, NEW t \in Thread, Fire(t)
  PROVE  \E n : UsesReached(t, 1, n) /\ Quiet(t, 1, n)
<1>1. PICK p : p = Top(t).p
  OBVIOUS
<1>2. PICK out : out = act(Top(t).a).out
  OBVIOUS
<1>3. /\ At(t, "fire") /\ UNCHANGED <<promiseVars, program>>
      /\ UNCHANGED <<promiseVars, executing, timers, known>>
      /\ stack' = Becomes(t, <<>>) \/ stack' = Becomes(t, <<With("complete", p, None, out)>>)
  BY <1>1, <1>2 DEF Fire, actionVars, clientVars
<1>4. p \in Promises /\ Top(t).a \in DOMAIN Table /\ program \in Programs
  BY <1>1, <1>3, AtFacts DEF Good, Inv, TypeOK
<1>5. out \in Outcome /\ Reached(t, 1, p)
  BY <1>1, <1>2, <1>3, <1>4, ActionFacts, TopReached DEF Done
<1>6. "fire" \in Calm \cup {"hold", "await"} /\ "complete" \in Calm /\ "complete" \in PC \ CallOnly
  BY DEF Calm, PC, CallOnly
<1>7. DataReached(t, 1)
  BY <1>3, DataSame
<1>8. With("complete", p, None, out).pc = "complete" /\ FrameReached(t, 1, With("complete", p, None, out))
  BY <1>4, <1>5, <1>6, OfReached
<1>9. CASE stack' = Becomes(t, <<>>)
  BY <1>3, <1>6, <1>7, <1>9, QuietPush0
<1>10. CASE stack' = Becomes(t, <<With("complete", p, None, out)>>)
  BY <1>3, <1>6, <1>7, <1>8, <1>10, QuietPush1
<1> QED BY <1>3, <1>9, <1>10

\* The wait in get() ends because of its time.
LEMMA ExpireUses ==
  ASSUME Inv, NEW t \in Thread, GetExpires(t) \/ GetExpired(t)
  PROVE  \E n : UsesReached(t, 1, n) /\ Quiet(t, 1, n)
<1>1. PICK p : p = Top(t).p
  OBVIOUS
<1>2. PICK pc \in {"await", "expired"} : At(t, pc)
  BY DEF GetExpires, GetExpired
<1>3. /\ UNCHANGED <<promiseVars, program>> /\ UNCHANGED <<promiseVars, executing, timers, known>>
      /\ stack' = Becomes(t, <<>>) \/ stack' = Becomes(t, <<Of("expired", p, None)>>)
  BY <1>1 DEF GetExpires, GetExpired, actionVars, clientVars
<1>4. p \in Promises
  BY <1>1, <1>2, AtFacts DEF Good
<1>5. Reached(t, 1, p)
  BY <1>1, <1>2, TopReached
<1>6. pc \in Calm \cup {"hold", "await"} /\ "expired" \in Calm /\ "expired" \in PC \ CallOnly
  BY DEF Calm, PC, CallOnly
<1>7. DataReached(t, 1)
  BY <1>3, DataSame
<1>8. Of("expired", p, None).pc = "expired" /\ FrameReached(t, 1, Of("expired", p, None))
  BY <1>4, <1>5, <1>6, OfReached
<1>9. CASE stack' = Becomes(t, <<>>)
  BY <1>2, <1>3, <1>6, <1>7, <1>9, QuietPush0
<1>10. CASE stack' = Becomes(t, <<Of("expired", p, None)>>)
  BY <1>2, <1>3, <1>6, <1>7, <1>8, <1>10, QuietPush1
<1> QED BY <1>3, <1>9, <1>10

\* The looper and the daemon take what is stored.
LEMMA StartUses ==
  ASSUME Inv, NEW t \in Thread, stack[t] = <<>>, NEW f, FrameReached(t, 0, f), f.pc \in Calm,
         stack' = [stack EXCEPT ![t] = <<f>>], UNCHANGED <<promiseVars, program>>, DataReached(t, 0)
  PROVE  UsesReached(t, 0, 1) /\ Quiet(t, 0, 1)
<1>0. f \in Frame
  BY DEF FrameReached
<1>1. /\ Moves(stack, stack', t, 0, 1) /\ program' = program /\ UNCHANGED promiseVars
      /\ \A i \in 1 .. 1 : stack'[t][i] = f /\ i = 1
  BY <1>0, Start1
<1>2. UsesReached(t, 0, 1)
  BY <1>1, UsesStep
<1>3. \A i \in 1 .. 0 : FALSE
  OBVIOUS
<1> QED BY <1>1, <1>2, <1>3 DEF Quiet

\* A delay that is due uses what is stored.
LEMMA DueUses ==
  ASSUME Inv, NEW a \in Actions, Due(a)
  PROVE  UsesReached(Daemon, 0, 1) /\ Quiet(Daemon, 0, 1)
<1>1. PICK p : p = act(a).from[1]
  OBVIOUS
<1>2. /\ Daemon \in Thread /\ stack[Daemon] = <<>> /\ a \in timers /\ timers' = timers \ {a}
      /\ stack' = [stack EXCEPT ![Daemon] = <<Of("fire", p, a)>>]
      /\ UNCHANGED <<promiseVars, program>> /\ UNCHANGED <<outcome, mActions, executing, known>>
  BY <1>1 DEF Due, Idle, Thread, clientVars, promiseVars
<1>3. a \in DOMAIN Table /\ program \in Programs
  BY <1>2 DEF Inv, Stored, TypeOK
<1>4. p \in Promises /\ act(a) = Table[a] /\ 1 \in DOMAIN act(a).from
  BY <1>1, <1>3, ActionFacts
<1>5. StoredAction(a)
  BY <1>2 DEF StoredAction
<1>6. ActionReached(Daemon, 0, a)
  BY <1>5, StoredReached
<1>7. p \in Knows(program, a)
  BY <1>1, <1>4 DEF Knows, Own, Table
<1>8. Reached(Daemon, 0, p)
  BY <1>4, <1>6, <1>7 DEF ActionReached
<1>9. "fire" \in Calm /\ "fire" \in PC \ CallOnly
  BY DEF Calm, PC, CallOnly
<1>10. Of("fire", p, a).pc = "fire" /\ FrameReached(Daemon, 0, Of("fire", p, a))
  BY <1>4, <1>6, <1>8, <1>9, OfReached
<1>11. DataReached(Daemon, 0)
  <2>1. \A b : StoredAction(b)' => StoredAction(b)
    BY <1>2 DEF StoredAction
  <2> QED BY <1>2, <2>1 DEF DataReached, isDone
<1> QED BY <1>2, <1>9, <1>10, <1>11, StartUses

\* The looper uses what is queued.
LEMMA ExecuteUses ==
  ASSUME Inv, Execute
  PROVE  UsesReached(Looper, 0, 1) /\ Quiet(Looper, 0, 1)
<1>1. PICK a : a = Head(executing)
  OBVIOUS
<1>2. /\ Looper \in Thread /\ stack[Looper] = <<>> /\ executing # <<>> /\ executing' = Tail(executing)
      /\ stack' = [stack EXCEPT ![Looper] = <<Of("run", None, a)>>]
      /\ UNCHANGED <<promiseVars, program>> /\ UNCHANGED <<outcome, mActions, timers, known>>
  BY <1>1 DEF Execute, Idle, Thread, clientVars, promiseVars
<1>3. executing \in Seq(Actions) /\ Len(executing) \in Nat /\ Len(executing) >= 1
  BY <1>2, LenProperties, EmptySeq DEF Inv, TypeOK
<1>4. /\ a = executing[1] /\ a \in Actions /\ Len(executing') = Len(executing) - 1
      /\ \A i \in 1 .. Len(executing') : executing'[i] = executing[i + 1]
  BY <1>1, <1>2, <1>3, HeadTailProperties
<1>5. StoredAction(a)
  <2>1. 1 \in 1 .. Len(executing)
    BY <1>3
  <2> QED BY <1>4, <2>1 DEF StoredAction, Queued
<1>6. ActionReached(Looper, 0, a)
  BY <1>4, <1>5, StoredReached
<1>7. "run" \in Calm /\ "run" \in PC \ CallOnly
  BY DEF Calm, PC, CallOnly
<1>8. Of("run", None, a).pc = "run" /\ FrameReached(Looper, 0, Of("run", None, a))
  <2>1. a \in Actions
    BY <1>4
  <2> QED BY <1>6, <1>7, <2>1, OfReached
<1>9. DataReached(Looper, 0)
  <2>1. ASSUME NEW b, Queued(executing', b) PROVE Queued(executing, b)
    <3>1. PICK i \in 1 .. Len(executing') : executing'[i] = b
      BY <2>1 DEF Queued
    <3>2. i + 1 \in 1 .. Len(executing)
      BY <1>3, <1>4
    <3> QED BY <1>4, <3>1, <3>2 DEF Queued
  <2>2. \A b : StoredAction(b)' => StoredAction(b)
    BY <1>2, <2>1 DEF StoredAction
  <2> QED BY <1>2, <2>2 DEF DataReached, isDone
<1> QED BY <1>2, <1>7, <1>8, <1>9, StartUses

\* The case of a promise and an action.
LEMMA OfBothReached ==
  ASSUME NEW t, NEW d, NEW pc \in PC \ CallOnly, NEW p \in Promises, NEW a \in Actions,
         Reached(t, d, p), ActionReached(t, d, a)
  PROVE  LET f == Of(pc, p, a) IN f.pc = pc /\ f.a = a /\ f.p = p /\ FrameReached(t, d, f)
BY OfReached

\* What an action's second half knows, it knows itself.
LEMMA SecondHalf ==
  ASSUME Inv, NEW a \in DOMAIN Table, act(a).kind \in {"compose", "biCompose", "delay"}
  PROVE  /\ act(a).then \in DOMAIN Table /\ act(a).then \in Actions
         /\ act(act(a).then).kind = (IF act(a).kind = "delay" THEN "timeout" ELSE "relay")
         /\ Knows(program, act(a).then) \subseteq Knows(program, a)
<1>1. program \in Programs /\ WellFormed(program)
  BY MarkerFacts
<1>2. WellFormedAction(program, a)
  BY <1>1 DEF WellFormed, Table
<1>3. /\ act(a).then \in DOMAIN Table
      /\ act(act(a).then).kind = (IF act(a).kind = "delay" THEN "timeout" ELSE "relay")
  BY <1>2 DEF WellFormedAction, act, Table
<1>4. act(a).then \in Actions
  BY <1>1, <1>3, ActionFacts
<1>5. Knows(program, act(a).then) = Own(program.act[act(a).then])
  BY <1>3 DEF Knows, act
<1>6. Own(program.act[act(a).then]) \subseteq Knows(program, a)
  BY DEF Knows, act
<1> QED BY <1>3, <1>4, <1>5, <1>6

\* An action's promises are what it knows.
LEMMA OwnKnown ==
  ASSUME Inv, NEW a \in DOMAIN Table
  PROVE  /\ act(a).to \in Knows(program, a) /\ act(a).calls \in Knows(program, a)
         /\ \A i \in DOMAIN act(a).from : act(a).from[i] \in Knows(program, a)
         /\ act(a).from[1] \in Knows(program, a)
         /\ act(a).kind = "biRelay" => act(a).from[2] \in Knows(program, a)
<1>1. program \in Programs
  BY DEF Inv, TypeOK
<1>2. 1 \in DOMAIN act(a).from /\ (act(a).kind = "biRelay" => 2 \in DOMAIN act(a).from)
  BY <1>1, ActionFacts
<1>3. Own(act(a)) \subseteq Knows(program, a)
  BY DEF Knows, act
<1> QED BY <1>2, <1>3 DEF Own

\* The frames that run() goes on with are about what its action knows.
RunFrame(t, f) == FrameReached(t, 1, f) /\ f.pc \in {"complete", "set", "then", "arm"}
RunPushes(t, fs) ==
  \/ fs = <<>>
  \/ \E f : fs = <<f>> /\ RunFrame(t, f)
  \/ \E f, g : fs = <<f, g>> /\ RunFrame(t, f) /\ RunFrame(t, g)

\* An action that runs uses what is reached through it.
LEMMA RunFramesReached ==
  ASSUME Inv, NEW t \in Thread, NEW a, Ready(Table, Finished, a), ActionReached(t, 1, a),
         act(a).kind # "timeout", NEW fs \in RunFrames(a)
  PROVE  RunPushes(t, fs)
<1> DEFINE o == outcome[act(a).from[1]]
<1>1. TypeOK /\ program \in Programs /\ a \in DOMAIN Table
  BY DEF Inv, TypeOK, Ready
<1>2. act(a).to \in Promises /\ act(a).calls \in Promises \cup {None}
  BY <1>1, ActionFacts
<1>3. Reached(t, 1, act(a).to) /\ (act(a).calls # None => Reached(t, 1, act(a).calls))
  BY <1>1, <1>2, OwnKnown DEF ActionReached
<1>4. "set" \in PC \ CallOnly /\ "complete" \in PC \ CallOnly
  BY DEF PC, CallOnly
<1>5. \A out \in Outcome : RunFrame(t, With("set", act(a).to, None, out))
  BY <1>2, <1>3, <1>4, OfReached DEF RunFrame
<1>6. CASE act(a).kind = "errorRelay" /\ o = Value
  BY <1>6 DEF RunFrames, RunPushes
<1>7. CASE ~ (act(a).kind = "errorRelay" /\ o = Value)
  <2>1. o \in Outcome /\ Outcomes(a) \subseteq Outcome
    BY <1>1, <1>7, RunOutcomes DEF Done
  <2>2. CASE act(a).calls # None
    <3>1. fs = <<With("complete", act(a).calls, None, o), With("set", act(a).to, None, o)>>
      BY <1>7, <2>2 DEF RunFrames
    <3>2. RunFrame(t, With("complete", act(a).calls, None, o))
      <4> HIDE DEF o
      <4>1. PICK p \in Promises : p = act(a).calls /\ Reached(t, 1, p)
        BY <1>2, <1>3, <2>2
      <4>2. With("complete", p, None, o).pc = "complete" /\ FrameReached(t, 1, With("complete", p, None, o))
        BY <1>4, <2>1, <4>1, OfReached
      <4> QED BY <4>1, <4>2 DEF RunFrame
    <3> HIDE DEF o
    <3> QED BY <1>5, <2>1, <3>1, <3>2 DEF RunPushes
  <2>3. CASE act(a).calls = None
    <3>1. PICK out \in Outcomes(a) : fs = <<With("set", act(a).to, None, out)>>
      BY <1>7, <2>3 DEF RunFrames
    <3> QED BY <1>5, <2>1, <3>1 DEF RunPushes
  <2> QED BY <2>2, <2>3
<1> QED BY <1>6, <1>7

\* So does the second step of a composition or a delay.
LEMMA SecondFramesReached ==
  ASSUME Inv, NEW t \in Thread, NEW a, Ready(Table, Finished, a), ActionReached(t, 1, a),
         act(a).kind \in {"compose", "biCompose", "delay"},
         NEW fs \in (IF act(a).kind = "delay" THEN DelayAction(a) ELSE CompositionFrames(a))
  PROVE  RunPushes(t, fs)
<1>1. TypeOK /\ program \in Programs /\ a \in DOMAIN Table
  BY DEF Inv, TypeOK, Ready
<1>2. PICK b : b = act(a).then
  OBVIOUS
<1>3. act(a).to \in Promises /\ b \in DOMAIN Table /\ b \in Actions /\ Knows(program, b) \subseteq Knows(program, a)
  BY <1>1, <1>2, ActionFacts, SecondHalf
<1>4. act(b).from[1] \in Promises /\ act(b).from[1] \in Knows(program, b)
  BY <1>1, <1>3, ActionFacts, OwnKnown
<1>5. ActionReached(t, 1, b) /\ Reached(t, 1, act(a).to) /\ Reached(t, 1, act(b).from[1])
  BY <1>1, <1>3, <1>4, OwnKnown DEF ActionReached
<1>6. "set" \in PC \ CallOnly /\ "then" \in PC \ CallOnly /\ "arm" \in PC \ CallOnly
  BY DEF PC, CallOnly
<1>7. CASE fs = <<Of("arm", act(a).to, b)>>
  <2>1. PICK p \in Promises : p = act(a).to /\ Reached(t, 1, p)
    BY <1>3, <1>5
  <2>2. b \in Actions /\ ActionReached(t, 1, b) /\ "arm" \in PC \ CallOnly
    BY <1>3, <1>5, <1>6
  <2>3. Of("arm", p, b).pc = "arm" /\ FrameReached(t, 1, Of("arm", p, b))
    BY <2>1, <2>2, OfBothReached
  <2> QED BY <1>7, <2>1, <2>3 DEF RunFrame, RunPushes
<1>8. CASE fs = <<Of("then", act(b).from[1], b)>>
  <2>1. PICK p \in Promises : p = act(b).from[1] /\ Reached(t, 1, p)
    BY <1>4, <1>5
  <2>2. b \in Actions /\ ActionReached(t, 1, b) /\ "then" \in PC \ CallOnly
    BY <1>3, <1>5, <1>6
  <2>3. Of("then", p, b).pc = "then" /\ FrameReached(t, 1, Of("then", p, b))
    BY <2>1, <2>2, OfBothReached
  <2> QED BY <1>8, <2>1, <2>3 DEF RunFrame, RunPushes
<1>9. CASE act(a).kind # "delay" /\ \E out \in Outcomes(a) : fs = <<With("set", act(a).to, None, out)>>
  <2>1. Outcomes(a) \subseteq Outcome
    BY <1>1, <1>9, RunOutcomes DEF Done
  <2>2. PICK out \in Outcome : fs = <<With("set", act(a).to, None, out)>>
    BY <1>9, <2>1
  <2>3. RunFrame(t, With("set", act(a).to, None, out))
    BY <1>3, <1>5, <1>6, OfReached DEF RunFrame
  <2> QED BY <2>2, <2>3 DEF RunPushes
<1>10. CASE fs \in RunFrames(a)
  BY <1>10, RunFramesReached
<1>11. CASE act(a).kind = "delay"
  <2>1. fs \in DelayAction(a)
    BY <1>11
  <2> QED BY <1>2, <1>7, <1>10, <2>1 DEF DelayAction
<1>12. CASE act(a).kind # "delay"
  <2>1. fs \in CompositionFrames(a)
    BY <1>12
  <2> QED BY <1>2, <1>8, <1>9, <1>12, <2>1 DEF CompositionFrames
<1> QED BY <1>11, <1>12

\* run()
LEMMA RunUses ==
  ASSUME Inv, NEW t \in Thread, Run(t)
  PROVE  \E n : UsesReached(t, 1, n) /\ Quiet(t, 1, n)
<1>1. PICK a : a = Top(t).a
  OBVIOUS
<1>2. At(t, "run") /\ UNCHANGED <<promiseVars, program>> /\ UNCHANGED <<outcome, mActions, executing, known>>
  BY DEF Run, clientVars, promiseVars
<1>3. Ready(Table, Finished, a) /\ a \in DOMAIN Table
  BY <1>1, <1>2, AtFacts DEF Good, Ready
<1>4. "run" \in Calm \cup {"hold", "await"} /\ {"complete", "set", "then", "arm"} \subseteq Calm
  BY DEF Calm, PC
<1>5. ActionReached(t, 1, a)
  BY <1>1, <1>2, <1>3, TopReached
<1>6. PICK fs : stack' = Becomes(t, fs) /\ RunPushes(t, fs) /\ timers' \subseteq timers
  <2>1. CASE act(a).kind = "timeout"
    <3>1. stack' = Becomes(t, <<>>) /\ timers' = timers \ {a}
      BY <1>1, <2>1 DEF Run
    <3> QED BY <3>1 DEF RunPushes
  <2>2. CASE act(a).kind \in {"compose", "biCompose"}
    <3>1. PICK fs \in CompositionFrames(a) : stack' = Becomes(t, fs) /\ timers' = timers
      BY <1>1, <2>2 DEF Run
    <3>2. fs \in (IF act(a).kind = "delay" THEN DelayAction(a) ELSE CompositionFrames(a))
      BY <2>2
    <3>3. RunPushes(t, fs)
      BY <1>3, <1>5, <2>2, <3>2, SecondFramesReached
    <3> QED BY <3>1, <3>3
  <2>3. CASE act(a).kind = "delay"
    <3>1. PICK fs \in DelayAction(a) : stack' = Becomes(t, fs) /\ timers' = timers
      BY <1>1, <2>3 DEF Run
    <3>2. fs \in (IF act(a).kind = "delay" THEN DelayAction(a) ELSE CompositionFrames(a))
      BY <2>3
    <3>3. RunPushes(t, fs)
      BY <1>3, <1>5, <2>3, <3>2, SecondFramesReached
    <3> QED BY <3>1, <3>3
  <2>4. CASE act(a).kind \notin {"timeout", "compose", "biCompose", "delay"}
    <3>1. PICK fs \in RunFrames(a) : stack' = Becomes(t, fs) /\ timers' = timers
      BY <1>1, <2>4 DEF Run
    <3>2. RunPushes(t, fs)
      BY <1>3, <1>5, <2>4, RunFramesReached
    <3> QED BY <3>1, <3>2
  <2> QED BY <2>1, <2>2, <2>3, <2>4
<1>7. DataReached(t, 1)
  <2>1. \A b : StoredAction(b)' => StoredAction(b)
    BY <1>2, <1>6 DEF StoredAction
  <2> QED BY <1>2, <2>1 DEF DataReached, isDone
<1>8. CASE fs = <<>>
  BY <1>2, <1>4, <1>6, <1>7, <1>8, QuietPush0
<1>9. CASE \E f : fs = <<f>> /\ RunFrame(t, f)
  <2>1. PICK f : fs = <<f>> /\ RunFrame(t, f)
    BY <1>9
  <2> QED BY <1>2, <1>4, <1>6, <1>7, <2>1, QuietPush1 DEF RunFrame
<1>10. CASE \E f, g : fs = <<f, g>> /\ RunFrame(t, f) /\ RunFrame(t, g)
  <2>1. PICK f, g : fs = <<f, g>> /\ RunFrame(t, f) /\ RunFrame(t, g)
    BY <1>10
  <2>2. f.pc \in Calm /\ g.pc \in Calm /\ FrameReached(t, 1, f) /\ FrameReached(t, 1, g)
    BY <1>4, <2>1 DEF RunFrame
  <2> QED BY <1>2, <1>4, <1>6, <1>7, <2>1, <2>2, QuietPush2
<1> QED BY <1>6, <1>8, <1>9, <1>10 DEF RunPushes

\* What anyOf() skips are frames of its call.
LEMMA SkipCalm ==
  ASSUME Inv, Young, NEW t \in Thread, stack[t] # <<>>, Top(t).pc \in {"anyOf", "anyOfDone"},
         NEW j \in 1 .. Len(stack[t]), j # 1
  PROVE  WellFormedFrame(program, stack[t][j]) /\ stack[t][j].pc \in Calm
<1>1. stack[t] \in Seq(Frame) /\ Top(t) = stack[t][1]
  BY HeadTailProperties DEF Inv, TypeOK, Top
<1>2. 1 \in 1 .. j - 1 /\ stack[t][1].pc \in CallOnly
  BY <1>1 DEF CallOnly
<1>3. WellFormedFrame(program, stack[t][j])
  BY <1>2 DEF Young, Layered
<1> QED BY <1>3 DEF WellFormedFrame, Calm, PC

\* A step that gives up calm frames.
Pops(t, d) == Moves(stack, stack', t, d, 0) /\ \A i \in 1 .. d : stack[t][i].pc \in Calm

\* A step that creates a promise with its result.
Bears(t, d) ==
  /\ Pops(t, d) /\ mActions' = mActions /\ stack[t] # <<>>
  /\ \E q \in Promises : Creates(program, stack[t][1], q) /\ \A p \in Promises : p # q => outcome'[p] = outcome[p]

\* anyOf passes the promises that are left and uses nothing new.
LEMMA SkipUses ==
  ASSUME Inv, Young, NEW t \in Thread, NEW pc \in {"anyOf", "anyOfDone"}, At(t, pc), stack' = SkipAnyOf(t),
         program' = program
  PROVE  \E d : /\ \A q : Mentions(program, Top(t), q) => Reached(t, d, q)
                /\ DataReached(t, d) => UsesReached(t, d, 0)
                /\ UNCHANGED promiseVars => Quiet(t, d, 0)
                /\ Pops(t, d)
<1>1. stack[t] # <<>> /\ Top(t) = stack[t][1] /\ Top(t).pc = pc /\ Len(stack[t]) \in Nat
  BY AtFacts, LenProperties DEF AllGood
<1>2. PICK d \in 1 .. Len(stack[t]) :
        /\ Moves(stack, stack', t, d, 0)
        /\ d + 1 \in 1 .. Len(stack[t]) /\ stack[t][d + 1].pc = "return"
  BY <1>1, SkipMoves
<1>3. d >= 1 /\ d # 0
  BY <1>1
<1>4. Clears(stack, t, d)
  BY <1>1, <1>2, <1>3 DEF Clears
<1>5. \A q : Mentions(program, Top(t), q) => Reached(t, d, q)
  BY <1>1, <1>4 DEF Reached
<1>6. DataReached(t, d) => UsesReached(t, d, 0)
  BY <1>2, <1>3, UsesStep
<1>7. ASSUME NEW i \in 1 .. d PROVE stack[t][i].pc \in Calm
  <2>1. i \in 1 .. Len(stack[t])
    BY <1>1, <1>2
  <2>2. CASE i = 1
    BY <1>1, <2>2 DEF Calm, PC
  <2> QED BY <1>1, <2>1, <2>2, SkipCalm
<1>8. UNCHANGED promiseVars => Quiet(t, d, 0)
  BY <1>2, <1>7 DEF Quiet
<1> QED BY <1>2, <1>5, <1>6, <1>7, <1>8 DEF Pops

\* anyOf() after its actions were added
LEMMA AnyOfDoneUses ==
  ASSUME Inv, Young, NEW t \in Thread, AnyOfDone(t)
  PROVE  \E d, n : UsesReached(t, d, n) /\ Quiet(t, d, n)
<1>1. /\ At(t, "anyOfDone") /\ UNCHANGED <<promiseVars, program>>
      /\ UNCHANGED <<promiseVars, executing, timers, known>> /\ UNCHANGED promiseVars /\ program' = program
      /\ stack' = Becomes(t, <<>>) \/ stack' = SkipAnyOf(t)
  BY DEF AnyOfDone, actionVars, clientVars
<1>2. \A d : DataReached(t, d)
  BY <1>1, DataSame
<1>3. CASE stack' = Becomes(t, <<>>)
  <2>1. "anyOfDone" \in Calm \cup {"hold", "await"}
    BY DEF Calm, PC
  <2> QED BY <1>1, <1>2, <1>3, <2>1, QuietPush0
<1>4. CASE stack' = SkipAnyOf(t)
  BY <1>1, <1>2, <1>4, SkipUses
<1> QED BY <1>1, <1>3, <1>4

\* Steps that give promise q its result.
LEMMA SettleReached ==
  ASSUME NEW t, NEW d, UNCHANGED <<mActions, executing, timers, known>>,
         NEW q, Reached(t, d, q), \A p \in Promises : p # q => outcome'[p] = outcome[p]
  PROVE  DataReached(t, d)
BY DEF DataReached, isDone, StoredAction

\* anyOf()
LEMMA AnyOfUses ==
  ASSUME Inv, Young, NEW t \in Thread, AnyOf(t)
  PROVE  \E d, n : UsesReached(t, d, n) /\ (Quiet(t, d, n) \/ Bears(t, d))
<1>1. PICK q : q = act(Top(t).a).to
  OBVIOUS
<1>2. At(t, "anyOf") /\ UNCHANGED <<mActions, executing, timers, known>> /\ program' = program
  BY DEF AnyOf, actionVars, clientVars
<1>3. Top(t).a \in DOMAIN Table
  BY <1>2, AtFacts DEF Good, DependsOn
<1>4. CASE outcome' = outcome /\ stack' = Becomes(t, <<>>)
  <2>1. "anyOf" \in Calm \cup {"hold", "await"}
    BY DEF Calm, PC
  <2>2. DataReached(t, 1) /\ UNCHANGED <<promiseVars, program>>
    BY <1>2, <1>4, DataSame DEF promiseVars
  <2> QED BY <1>2, <1>4, <2>1, <2>2, QuietPush0
<1>5. CASE (\E out \in AnyOfAction(outcome[Top(t).p]) : outcome' = [outcome EXCEPT ![q] = out])
           /\ stack' = SkipAnyOf(t)
  <2>1. PICK out : outcome' = [outcome EXCEPT ![q] = out]
    BY <1>5
  <2>2. \A p \in Promises : p # q => outcome'[p] = outcome[p]
    BY <2>1 DEF Inv, TypeOK
  <2>3. Mentions(program, Top(t), q)
    BY <1>1, <1>3, OwnKnown DEF Mentions, Table
  <2>4. PICK d : Reached(t, d, q) /\ (DataReached(t, d) => UsesReached(t, d, 0)) /\ Pops(t, d)
    BY <1>2, <1>5, <2>3, SkipUses
  <2>5. DataReached(t, d)
    BY <1>2, <2>2, <2>4, SettleReached
  <2>6. stack[t] # <<>> /\ Top(t) = stack[t][1] /\ Top(t).pc = "anyOf"
    BY <1>2, AtFacts
  <2>7. q \in Promises
    <3>1. program \in Programs /\ act(Top(t).a).kind = "anyOf"
      BY <1>2, AtFacts DEF Good, Inv, TypeOK, act, Table
    <3> QED BY <1>1, <1>3, <3>1, ActionFacts
  <2>8. Creates(program, stack[t][1], q)
    BY <1>1, <2>6 DEF Creates, act
  <2>9. Bears(t, d)
    BY <1>2, <2>2, <2>4, <2>6, <2>7, <2>8 DEF Bears
  <2> QED BY <2>4, <2>5, <2>9
<1> QED BY <1>1, <1>4, <1>5 DEF AnyOf

\* andTree()
LEMMA AndTreeUses ==
  ASSUME Inv, NEW t \in Thread, AndTree(t)
  PROVE  \E n : UsesReached(t, 1, n) /\ (Quiet(t, 1, n) \/ Bears(t, 1))
<1>1. PICK a : a = Top(t).a
  OBVIOUS
<1>2. At(t, "andTree") /\ UNCHANGED <<mActions, executing, timers, known>> /\ program' = program
  BY DEF AndTree, actionVars, clientVars
<1>3. a \in DOMAIN Table /\ Table[a].kind = "biRelay" /\ program \in Programs
  BY <1>1, <1>2, AtFacts DEF Good, Inv, TypeOK
<1>4. a \in Actions /\ act(a).kind = "biRelay" /\ ActionReached(t, 1, a)
  BY <1>1, <1>2, <1>3, ActionFacts, TopReached
<1>5. "andTree" \in Calm \cup {"hold", "await"} /\ "then" \in Calm /\ "then" \in PC \ CallOnly
  BY DEF Calm, PC, CallOnly
<1>6. CASE stack' = Becomes(t, <<>>) /\ \E out : outcome' = [outcome EXCEPT ![act(a).to] = out]
  <2>1. PICK q \in Promises : q = act(a).to /\ q \in Knows(program, a)
    BY <1>3, <1>4, ActionFacts, OwnKnown
  <2>2. \A p \in Promises : p # q => outcome'[p] = outcome[p]
    BY <1>6, <2>1 DEF Inv, TypeOK
  <2>3. Reached(t, 1, q)
    BY <1>4, <2>1 DEF ActionReached
  <2>4. DataReached(t, 1)
    BY <1>2, <2>2, <2>3, SettleReached
  <2>5. Moves(stack, stack', t, 1, 0)
    BY <1>2, <1>6, Push0
  <2>6. stack[t] # <<>> /\ Top(t) = stack[t][1] /\ Top(t).pc = "andTree" /\ \A i \in 1 .. 1 : i = 1
    BY <1>2, AtFacts
  <2>7. Creates(program, stack[t][1], q)
    BY <1>1, <2>1, <2>6 DEF Creates, act
  <2>8. Pops(t, 1)
    BY <1>5, <2>5, <2>6 DEF Pops, Calm
  <2>9. Bears(t, 1)
    BY <1>2, <2>2, <2>6, <2>7, <2>8 DEF Bears
  <2>10. UsesReached(t, 1, 0)
    BY <1>2, <2>4, <2>5, UsesStep
  <2> QED BY <2>9, <2>10
<1>7. CASE /\ outcome' = outcome
           /\ stack' = Becomes(t, <<Of("then", act(a).from[1], a), Of("then", act(a).from[2], a)>>)
  <2>1. PICK p \in Promises : p = act(a).from[1] /\ p \in Knows(program, a)
    BY <1>3, <1>4, ActionFacts, OwnKnown
  <2>2. PICK r \in Promises : r = act(a).from[2] /\ r \in Knows(program, a)
    BY <1>3, <1>4, ActionFacts, OwnKnown
  <2>3. Reached(t, 1, p) /\ Reached(t, 1, r)
    BY <1>4, <2>1, <2>2 DEF ActionReached
  <2>4. Of("then", p, a).pc = "then" /\ FrameReached(t, 1, Of("then", p, a))
    BY <1>4, <1>5, <2>3, OfBothReached
  <2>5. Of("then", r, a).pc = "then" /\ FrameReached(t, 1, Of("then", r, a))
    BY <1>4, <1>5, <2>3, OfBothReached
  <2>6. stack' = Becomes(t, <<Of("then", p, a), Of("then", r, a)>>)
    BY <1>7, <2>1, <2>2
  <2>7. UNCHANGED <<promiseVars, program>> /\ DataReached(t, 1)
    BY <1>2, <1>7, DataSame DEF promiseVars
  <2>8. UsesReached(t, 1, 2) /\ Quiet(t, 1, 2)
    BY <1>2, <1>5, <2>4, <2>5, <2>6, <2>7, QuietPush2
  <2> QED BY <2>8
<1> QED BY <1>1, <1>6, <1>7 DEF AndTree

\* The iterator at the beginning of the list of p.
LEMMA IterateFacts ==
  ASSUME Inv, NEW p \in Promises, NEW t, NEW d, Reached(t, d, p)
  PROVE  /\ Iterate(p).pc = "iterate" /\ Iterate(p).p = p /\ FrameReached(t, d, Iterate(p))
         /\ Iterate(p).a = IF mActions[p] = <<>> THEN None ELSE Head(mActions[p])
<1>1. PICK a : a = IF mActions[p] = <<>> THEN None ELSE Head(mActions[p])
  OBVIOUS
<1>2. Iterate(p) = Of("iterate", p, a)
  BY <1>1 DEF Iterate
<1>3. mActions[p] \in Seq(Actions)
  BY DEF Inv, TypeOK
<1>4. "iterate" \in PC \ CallOnly
  BY DEF PC, CallOnly
<1>5. CASE mActions[p] = <<>>
  <2>1. a = None
    BY <1>1, <1>5
  <2> QED BY <1>1, <1>2, <1>4, <2>1, OfReached
<1>6. CASE mActions[p] # <<>>
  <2>1. a = mActions[p][1] /\ a \in Actions /\ 1 \in 1 .. Len(mActions[p])
    BY <1>1, <1>3, <1>6, HeadTailProperties, EmptySeq, LenProperties
  <2>2. StoredAction(a)
    BY <2>1 DEF StoredAction
  <2>3. ActionReached(t, d, a)
    BY <2>1, <2>2, StoredReached
  <2> QED BY <1>1, <1>2, <1>4, <2>1, <2>3, OfBothReached
<1> QED BY <1>5, <1>6

\* The thread takes the lock of p and signals those who wait for it.
Signals(t, p) ==
  /\ Moves(stack, stack', t, 1, 1) /\ stack'[t][1] = Iterate(p)
  /\ \A u \in Thread : \A i \in 1 .. Len(stack'[u]) :
       i = 1 /\ stack'[u][i].pc = "await" => stack'[u][i].p # p

\* Completing a promise wakes those who wait for it and uses nothing new.
LEMMA SignalUses ==
  ASSUME Inv, NEW t \in Thread, NEW pc, At(t, pc), pc # "anyOf", NEW p \in Promises, p = Top(t).p,
         stack' = Signalled(Becomes(t, <<Iterate(p)>>), p), program' = program
  PROVE  Signals(t, p) /\ Reached(t, 1, p) /\ (DataReached(t, 1) => UsesReached(t, 1, 1))
<1>1. Reached(t, 1, p)
  BY TopReached
<1>2. PICK f : f = Iterate(p)
  OBVIOUS
<1>3. f.pc = "iterate" /\ f.p = p /\ FrameReached(t, 1, f) /\ f \in Frame
  BY <1>1, <1>2, IterateFacts DEF FrameReached
<1>4. stack \in [Thread -> Seq(Frame)] /\ stack[t] # <<>> /\ stack' = Signalled(Becomes(t, <<f>>), p)
  BY <1>2, AtFacts DEF AllGood
<1>5. f.pc # "await"
  BY <1>3
<1>6. /\ Moves(stack, stack', t, 1, 1) /\ stack'[t][1] = f
      /\ \A u \in Thread : \A i \in 1 .. Len(stack'[u]) :
           i = 1 /\ stack'[u][i].pc = "await" => stack'[u][i].p # p
  <2> DEFINE R == Signalled(Becomes(t, <<f>>), p)
  <2>1. /\ Moves(stack, R, t, 1, 1) /\ R[t][1] = f
        /\ \A u \in Thread : \A i \in 1 .. Len(R[u]) : i = 1 /\ R[u][i].pc = "await" => R[u][i].p # p
    BY <1>3, <1>4, <1>5, SignalledMoves
  <2>2. stack' = R
    BY <1>4
  <2> HIDE DEF R
  <2> QED BY <2>1, <2>2
<1>7. \A i \in 1 .. 1 : stack'[t][i] = f /\ i = 1
  BY <1>6
<1>8. DataReached(t, 1) => UsesReached(t, 1, 1)
  BY <1>3, <1>6, <1>7, UsesStep
<1> QED BY <1>1, <1>2, <1>6, <1>8 DEF Signals

\* complete()
LEMMA CompleteUses ==
  ASSUME Inv, NEW t \in Thread, Complete(t)
  PROVE  /\ \E n : UsesReached(t, 1, n)
         /\ \/ Quiet(t, 1, 0)
            \/ ~isDone(Top(t).p) /\ Signals(t, Top(t).p)
<1>1. PICK p : p = Top(t).p
  OBVIOUS
<1>2. At(t, "complete") /\ UNCHANGED <<mActions, executing, timers, known>> /\ program' = program
  BY DEF Complete, actionVars, clientVars
<1>3. p \in Promises
  BY <1>1, <1>2, AtFacts DEF Good
<1>4. CASE ~isDone(p) /\ outcome' = [outcome EXCEPT ![p] = Top(t).out] /\ stack' = Signalled(Becomes(t, <<Iterate(p)>>), p)
  <2>1. Signals(t, p) /\ Reached(t, 1, p) /\ (DataReached(t, 1) => UsesReached(t, 1, 1))
    BY <1>1, <1>2, <1>3, <1>4, SignalUses
  <2>2. \A q \in Promises : q # p => outcome'[q] = outcome[q]
    BY <1>4 DEF Inv, TypeOK
  <2>3. DataReached(t, 1)
    BY <1>2, <2>1, <2>2, SettleReached
  <2> QED BY <1>1, <1>4, <2>1, <2>3
<1>5. CASE outcome' = outcome /\ stack' = Becomes(t, <<>>)
  <2>1. "complete" \in Calm \cup {"hold", "await"}
    BY DEF Calm, PC
  <2>2. DataReached(t, 1) /\ UNCHANGED <<promiseVars, program>>
    BY <1>2, <1>5, DataSame DEF promiseVars
  <2> QED BY <1>2, <1>5, <2>1, <2>2, QuietPush0
<1> QED BY <1>1, <1>4, <1>5 DEF Complete

\* onComplete()
LEMMA OnCompleteUses ==
  ASSUME Inv, NEW t \in Thread, OnComplete(t)
  PROVE  UsesReached(t, 1, 1) /\ Signals(t, Top(t).p)
<1>1. PICK p : p = Top(t).p
  OBVIOUS
<1>2. /\ At(t, "onComplete") /\ UNCHANGED <<promiseVars, executing, timers, known>> /\ program' = program
      /\ stack' = Signalled(Becomes(t, <<Iterate(p)>>), p)
  BY <1>1 DEF OnComplete, actionVars, clientVars
<1>3. p \in Promises
  BY <1>1, <1>2, AtFacts DEF Good, Finished
<1>4. Signals(t, p) /\ (DataReached(t, 1) => UsesReached(t, 1, 1))
  BY <1>1, <1>2, <1>3, SignalUses
<1>5. DataReached(t, 1)
  BY <1>2, DataSame
<1> QED BY <1>1, <1>4, <1>5

\* setResult() or setException()
LEMMA SetResultUses ==
  ASSUME Inv, NEW t \in Thread, SetResult(t)
  PROVE  /\ UsesReached(t, 1, 1) /\ Moves(stack, stack', t, 1, 1)
         /\ stack'[t][1].pc = "onComplete" /\ stack'[t][1].p = Top(t).p
<1>1. PICK p : p = Top(t).p
  OBVIOUS
<1>2. /\ At(t, "set") /\ UNCHANGED <<mActions, executing, timers, known>> /\ program' = program
      /\ outcome' = [outcome EXCEPT ![p] = Settled(p, Top(t).out)]
      /\ stack' = Becomes(t, <<Of("onComplete", p, None)>>)
  BY <1>1 DEF SetResult, Notice, actionVars, clientVars
<1>3. p \in Promises
  BY <1>1, <1>2, AtFacts DEF Good
<1>4. Reached(t, 1, p) /\ "onComplete" \in PC \ CallOnly
  BY <1>1, <1>2, TopReached DEF PC, CallOnly
<1>5. PICK f : f = Of("onComplete", p, None)
  OBVIOUS
<1>6. f.pc = "onComplete" /\ f.p = p /\ FrameReached(t, 1, f) /\ f \in Frame
  BY <1>3, <1>4, <1>5, OfReached DEF FrameReached
<1>7. Moves(stack, stack', t, 1, 1) /\ stack'[t][1] = f /\ \A i \in 1 .. 1 : stack'[t][i] = f /\ i = 1
  BY <1>2, <1>5, <1>6, Push1
<1>8. DataReached(t, 1)
  <2>1. \A q \in Promises : q # p => outcome'[q] = outcome[q]
    BY <1>2 DEF Inv, TypeOK
  <2> QED BY <1>2, <1>4, <2>1, SettleReached
<1>9. UsesReached(t, 1, 1)
  BY <1>2, <1>6, <1>7, <1>8, UsesStep
<1> QED BY <1>1, <1>6, <1>7, <1>9

\* get()
LEMMA GetUses ==
  ASSUME Inv, NEW t \in Thread, Get(t)
  PROVE  /\ \E n : UsesReached(t, 1, n)
         /\ \/ Quiet(t, 1, 0)
            \/ /\ ~isDone(Top(t).p) /\ UNCHANGED promiseVars /\ Moves(stack, stack', t, 1, 1)
               /\ stack'[t][1].pc = "await" /\ stack'[t][1].p = Top(t).p
<1>1. PICK p : p = Top(t).p
  OBVIOUS
<1>2. PICK a : a = Top(t).a
  OBVIOUS
<1>3. /\ At(t, "get") /\ UNCHANGED <<promiseVars, executing, timers, known>> /\ program' = program
      /\ UNCHANGED <<promiseVars, program>> /\ UNCHANGED promiseVars
      /\ \/ stack' = Becomes(t, <<>>)
         \/ ~isDone(p) /\ stack' = Becomes(t, <<Of("await", p, a)>>)
  BY <1>1, <1>2 DEF Get, actionVars, clientVars
<1>4. p \in Promises /\ a \in Actions \cup {None, "timed"}
  BY <1>1, <1>2, <1>3, AtFacts DEF Good, Frame
<1>5. DataReached(t, 1)
  BY <1>3, DataSame
<1>6. CASE stack' = Becomes(t, <<>>)
  <2>1. "get" \in Calm \cup {"hold", "await"}
    BY DEF Calm, PC
  <2> QED BY <1>3, <1>5, <1>6, <2>1, QuietPush0
<1>7. CASE ~isDone(p) /\ stack' = Becomes(t, <<Of("await", p, a)>>)
  <2>1. PICK f : f = Of("await", p, a)
    OBVIOUS
  <2>2. f \in Frame /\ f.pc = "await" /\ f.p = p /\ f.a = a
    BY <1>4, <2>1 DEF Of, Frame, PC, Outcome
  <2>3. Moves(stack, stack', t, 1, 1) /\ stack'[t][1] = f /\ \A i \in 1 .. 1 : stack'[t][i] = f /\ i = 1
    BY <1>3, <1>7, <2>1, <2>2, Push1
  <2>4. \A q : Mentions(program, f, q) => Reached(t, 1, q)
    <3>1. \A q : Mentions(program, f, q) => Mentions(program, Top(t), q)
      BY <1>1, <1>2, <2>2 DEF Mentions
    <3> QED BY <1>3, <3>1, TopReached
  <2>5. UsesReached(t, 1, 1)
    BY <1>3, <1>5, <2>2, <2>3, <2>4 DEF UsesReached, DataReached, ActionReached, CallOnly
  <2> QED BY <1>1, <1>3, <1>7, <2>2, <2>3, <2>5
<1> QED BY <1>3, <1>6, <1>7

\* The iterator of runActions() comes to an action of the list or to the end.
LEMMA FollowingPlace ==
  ASSUME NEW S, NEW s \in Seq(S), NEW a, Contains(s, a)
  PROVE  \/ Following(s, a) = None
         \/ Following(s, a) \in S /\ \E i \in 1 .. Len(s) : s[i] = Following(s, a)
<1> DEFINE I == {i \in 1 .. Len(s) : s[i] = a}
<1>1. I \subseteq Nat /\ I # {} /\ Len(s) \in Nat
  BY LenProperties DEF Contains
<1>2. SelectInSeq(s, LAMBDA b : b = a) = Min(I)
  BY <1>1 DEF SelectInSeq
<1>3. Min(I) \in 1 .. Len(s)
  BY <1>1, FirstPlace
<1> HIDE DEF I
<1>4. Following(s, a) = IF Min(I) = Len(s) THEN None ELSE s[Min(I) + 1]
  BY <1>2 DEF Following
<1>5. Min(I) # Len(s) => Min(I) + 1 \in 1 .. Len(s)
  BY <1>1, <1>3
<1> QED BY <1>4, <1>5, ElementOfSeq

\* Nothing is left of an empty list.
LEMMA ShrinksToNothing ==
  ASSUME NEW S, NEW s \in Seq(S), NEW a, s = <<>>
  PROVE  RemoveFirst(s, a) = <<>>
<1>1. RemoveFirst(s, a) = s
  BY DEF RemoveFirst
<1> QED BY <1>1

\* Lists that lose an action hold no other ones.
LEMMA ShrinkReached ==
  ASSUME Inv, NEW t, NEW d, NEW p \in Promises, NEW a, UNCHANGED <<outcome, executing, timers, known>>,
         mActions' = [mActions EXCEPT ![p] = RemoveFirst(@, a)]
  PROVE  DataReached(t, d)
<1>1. mActions \in [Promises -> Seq(Actions)] /\ mActions[p] \in Seq(Actions)
  BY DEF Inv, TypeOK
<1>2. PICK rest : rest = RemoveFirst(mActions[p], a)
  OBVIOUS
<1>3. rest \in Seq(Actions) /\ \A i \in 1 .. Len(rest) : \E j \in 1 .. Len(mActions[p]) : rest[i] = mActions[p][j]
  BY <1>1, <1>2, RemoveFirstFacts
<1>4. mActions'[p] = rest /\ \A q \in Promises : q # p => mActions'[q] = mActions[q]
  BY <1>1, <1>2
<1>5. \A q \in Promises : \A i \in 1 .. Len(mActions'[q]) : \E j \in 1 .. Len(mActions[q]) : mActions'[q][i] = mActions[q][j]
  BY <1>3, <1>4
<1>6. \A b : StoredAction(b)' => StoredAction(b)
  BY <1>5 DEF StoredAction
<1>7. ASSUME NEW q \in Promises, mActions[q] = <<>> PROVE mActions'[q] = <<>>
  <2>1. CASE q # p
    BY <1>4, <1>7, <2>1
  <2>2. CASE q = p
    BY <1>1, <1>2, <1>4, <1>7, <2>2, ShrinksToNothing
  <2> QED BY <2>1, <2>2
<1> QED BY <1>6, <1>7 DEF DataReached, isDone

\* The loop of runActions()
LEMMA RunActionsUses ==
  ASSUME Inv, NEW t \in Thread, RunActions(t)
  PROVE  \E n : UsesReached(t, 1, n)
<1>1. PICK p : p = Top(t).p
  OBVIOUS
<1>2. PICK a : a = Top(t).a
  OBVIOUS
<1>3. At(t, "iterate") /\ UNCHANGED <<outcome, executing, timers, known>> /\ program' = program
  BY DEF RunActions, actionVars, clientVars
<1>4. p \in Promises
  BY <1>1, <1>3, AtFacts DEF Good, Finished
<1>5. CASE stack' = Becomes(t, <<>>) /\ mActions' = mActions
  <2>1. DataReached(t, 1)
    BY <1>3, <1>5, DataSame DEF promiseVars
  <2>2. Moves(stack, stack', t, 1, 0)
    BY <1>3, <1>5, Push0
  <2> QED BY <1>3, <2>1, <2>2, UsesStep
<1>6. CASE /\ Contains(mActions[p], a)
           /\ stack' = Becomes(t, <<Of("tryRun", None, a), Of("iterate", p, Following(mActions[p], a))>>)
           /\ mActions' = [mActions EXCEPT ![p] = RemoveFirst(@, a)]
  <2>1. mActions[p] \in Seq(Actions)
    BY <1>4 DEF Inv, TypeOK
  <2>2. a \in Actions /\ StoredAction(a)
    <3>1. PICK i \in 1 .. Len(mActions[p]) : mActions[p][i] = a
      BY <1>6 DEF Contains
    <3> QED BY <1>4, <2>1, <3>1, ElementOfSeq DEF StoredAction
  <2>3. PICK b : b = Following(mActions[p], a)
    OBVIOUS
  <2>4. b = None \/ (b \in Actions /\ StoredAction(b))
    BY <1>4, <1>6, <2>1, <2>3, FollowingPlace DEF StoredAction
  <2>5. ActionReached(t, 1, a) /\ Reached(t, 1, p) /\ (b # None => ActionReached(t, 1, b))
    BY <1>1, <1>3, <2>2, <2>4, StoredReached, TopReached
  <2>6. "tryRun" \in PC \ CallOnly /\ "iterate" \in PC \ CallOnly
    BY DEF PC, CallOnly
  <2>7. PICK f : f = Of("tryRun", None, a)
    OBVIOUS
  <2>8. PICK g : g = Of("iterate", p, b)
    OBVIOUS
  <2>9. f.pc = "tryRun" /\ FrameReached(t, 1, f) /\ f \in Frame
    BY <2>2, <2>5, <2>6, <2>7, OfReached DEF FrameReached
  <2>10. g.pc = "iterate" /\ FrameReached(t, 1, g) /\ g \in Frame
    <3>1. CASE b = None
      BY <1>4, <2>5, <2>6, <2>8, <3>1, OfReached DEF FrameReached
    <3>2. CASE b # None
      <4>1. b \in Actions /\ ActionReached(t, 1, b)
        BY <2>4, <2>5, <3>2
      <4> QED BY <1>4, <2>5, <2>6, <2>8, <4>1, OfBothReached DEF FrameReached
    <3> QED BY <3>1, <3>2
  <2>11. /\ Moves(stack, stack', t, 1, 2)
         /\ \A i \in 1 .. 2 : (i = 1 /\ stack'[t][i] = f) \/ (i = 2 /\ stack'[t][i] = g)
    BY <1>3, <1>6, <2>3, <2>7, <2>8, <2>9, <2>10, Push2
  <2>12. \A i \in 1 .. 2 : FrameReached(t, 1, stack'[t][i]) /\ stack'[t][i].pc # "await"
    BY <2>9, <2>10, <2>11
  <2>13. DataReached(t, 1)
    BY <1>3, <1>4, <1>6, ShrinkReached
  <2> QED BY <1>3, <2>11, <2>12, <2>13, UsesStep
<1> QED BY <1>1, <1>2, <1>5, <1>6 DEF RunActions

\* addAction()
LEMMA AddActionUses ==
  ASSUME Inv, NEW t \in Thread, AddAction(t)
  PROVE  \E n : UsesReached(t, 1, n)
<1>1. PICK p : p = Top(t).p
  OBVIOUS
<1>2. PICK a : a = Top(t).a
  OBVIOUS
<1>3. At(t, "addAction") /\ UNCHANGED <<outcome, executing, timers, known>> /\ program' = program
  BY DEF AddAction, actionVars, clientVars
<1>4. p \in Promises /\ a \in DOMAIN Table /\ program \in Programs
  BY <1>1, <1>2, <1>3, AtFacts DEF Good, DependsOn, Inv, TypeOK
<1>5. a \in Actions /\ ActionReached(t, 1, a) /\ Reached(t, 1, p)
  BY <1>1, <1>2, <1>3, <1>4, ActionFacts, TopReached
<1>6. "tryRun" \in PC \ CallOnly /\ "hold" \in PC \ CallOnly
  BY DEF PC, CallOnly
<1>7. CASE stack' = Becomes(t, <<Of("tryRun", None, a), Of("hold", p, None)>>) /\ mActions' = mActions
  <2>1. PICK f : f = Of("tryRun", None, a)
    OBVIOUS
  <2>2. PICK g : g = Of("hold", p, None)
    OBVIOUS
  <2>3. f.pc = "tryRun" /\ FrameReached(t, 1, f) /\ f \in Frame
    BY <1>5, <1>6, <2>1, OfReached DEF FrameReached
  <2>4. g.pc = "hold" /\ FrameReached(t, 1, g) /\ g \in Frame
    BY <1>4, <1>5, <1>6, <2>2, OfReached DEF FrameReached
  <2>5. /\ Moves(stack, stack', t, 1, 2)
        /\ \A i \in 1 .. 2 : (i = 1 /\ stack'[t][i] = f) \/ (i = 2 /\ stack'[t][i] = g)
    BY <1>3, <1>7, <2>1, <2>2, <2>3, <2>4, Push2
  <2>6. \A i \in 1 .. 2 : FrameReached(t, 1, stack'[t][i]) /\ stack'[t][i].pc # "await"
    BY <2>3, <2>4, <2>5
  <2>7. DataReached(t, 1)
    BY <1>3, <1>7, DataSame DEF promiseVars
  <2> QED BY <1>3, <2>5, <2>6, <2>7, UsesStep
<1>8. CASE mActions' = [mActions EXCEPT ![p] = Append(@, a)] /\ stack' = Becomes(t, <<>>)
  <2>1. mActions \in [Promises -> Seq(Actions)] /\ mActions[p] \in Seq(Actions) /\ Len(mActions[p]) \in Nat
    BY <1>4, LenProperties DEF Inv, TypeOK
  <2>2. PICK l : l = Append(mActions[p], a)
    OBVIOUS
  <2>3. /\ Len(l) = Len(mActions[p]) + 1 /\ l[Len(mActions[p]) + 1] = a
        /\ \A i \in 1 .. Len(mActions[p]) : l[i] = mActions[p][i]
    BY <1>5, <2>1, <2>2, AppendProperties
  <2>4. mActions'[p] = l /\ \A q \in Promises : q # p => mActions'[q] = mActions[q]
    BY <1>4, <1>8, <2>1, <2>2
  <2>5. \A i \in 1 .. Len(l) : i \in 1 .. Len(mActions[p]) \/ i = Len(mActions[p]) + 1
    BY <2>1, <2>3
  <2>6. \A q \in Promises : \A i \in 1 .. Len(mActions'[q]) :
          mActions'[q][i] = a \/ \E j \in 1 .. Len(mActions[q]) : mActions[q][j] = mActions'[q][i]
    BY <2>3, <2>4, <2>5
  <2>7. \A b : StoredAction(b)' => StoredAction(b) \/ b = a
    BY <1>3, <2>6 DEF StoredAction
  <2>8. DataReached(t, 1)
    BY <1>3, <1>5, <2>4, <2>7 DEF DataReached, isDone
  <2>9. Moves(stack, stack', t, 1, 0)
    BY <1>3, <1>8, Push0
  <2> QED BY <1>3, <2>8, <2>9, UsesStep
<1> QED BY <1>1, <1>2, <1>7, <1>8 DEF AddAction

\* removeAction()
LEMMA RemoveActionUses ==
  ASSUME Inv, NEW t \in Thread, RemoveAction(t)
  PROVE  UsesReached(t, 1, 0) /\ Moves(stack, stack', t, 1, 0)
<1>1. PICK p : p = Top(t).p
  OBVIOUS
<1>2. /\ At(t, "removeAction") /\ UNCHANGED <<outcome, executing, timers, known>> /\ program' = program
      /\ stack' = Becomes(t, <<>>) /\ mActions' = [mActions EXCEPT ![p] = RemoveFirst(@, Top(t).a)]
  BY <1>1 DEF RemoveAction, actionVars, clientVars
<1>3. p \in Promises
  BY <1>1, <1>2, AtFacts DEF Good
<1>4. DataReached(t, 1)
  BY <1>2, <1>3, ShrinkReached
<1>5. Moves(stack, stack', t, 1, 0)
  BY <1>2, Push0
<1> QED BY <1>2, <1>4, <1>5, UsesStep

\* A call begins: nobody else knows what it creates, and it was given what
\* others create.
LEMMA BeginYoung ==
  ASSUME Inv, Young, NEW t \in Client, Begin(t)
  PROVE  Young'
<1>1. PICK c \in todo[t] : /\ c.on \subseteq known /\ stack' = [stack EXCEPT ![t] = c.frames]
                           /\ todo' = [todo EXCEPT ![t] = @ \ {c}]
  BY DEF Begin
<1>2. t \in Thread /\ stack[t] = <<>> /\ UNCHANGED <<outcome, mActions, executing, timers, program, known>>
  BY DEF Begin, Idle, Thread, promiseVars, actionVars
<1>3. /\ WellFormed(program) /\ DOMAIN todo = Client
      /\ \A u \in Client : todo[u] \subseteq program.ops[u]
  BY MarkerFacts DEF Inv, Stored
<1>4. /\ c.frames \in Seq(Frame) /\ Ordered(program, c.frames)
      /\ \A i \in 1 .. Len(c.frames) : WellFormedFrame(program, c.frames[i])
      /\ \A u \in Client : \A d \in todo[u] : Separate(program, t, c, u, d) /\ Separate(program, u, d, t, c)
  BY <1>1, <1>3 DEF WellFormed
<1>5. /\ stack'[t] = c.frames /\ \A u \in Thread : u # t => stack'[u] = stack[u]
      /\ stack \in [Thread -> Seq(Frame)]
  BY <1>1, <1>2 DEF Inv, TypeOK
<1>6. \A u \in Client : todo'[u] \subseteq todo[u] /\ (u = t => c \notin todo'[u])
  BY <1>1, <1>3
<1>7. \A q : Planned(program, todo', q) => Planned(program, todo, q)
  BY <1>6 DEF Planned
<1>8. \A q : \A i \in 1 .. Len(c.frames) : Creates(program, c.frames[i], q) => Planned(program, todo, q)
  BY <1>1 DEF Planned
<1>9. \A q : Creating(program, stack', q) => Creating(program, stack, q) \/ \E i \in 1 .. Len(c.frames) : Creates(program, c.frames[i], q)
  BY <1>5 DEF Creating
<1>10. \A q \in Promises : Creating(program, stack, q) \/ Planned(program, todo, q) => q \notin known
  BY DEF Young, Fresh, Unborn
<1>11. Apart(program, stack', todo')
  <2>1. \A u \in Thread : Ordered(program, stack'[u])
    BY <1>4, <1>5 DEF Young, Apart
  <2>2. ASSUME NEW v \in Thread, NEW u \in Thread, NEW i \in 1 .. Len(stack'[v]), NEW k \in 1 .. Len(stack'[u]),
               NEW q \in Promises, Mentions(program, stack'[v][i], q), Creates(program, stack'[u][k], q)
        PROVE  v = u
    <3>1. CASE v = t /\ u # t
      <4>1. Creating(program, stack, q)
        BY <1>5, <2>2, <3>1 DEF Creating
      <4>2. q \in c.on
        BY <1>1, <1>5, <2>2, <3>1, <4>1 DEF Young, Apart
      <4> QED BY <1>1, <1>10, <4>1, <4>2
    <3>2. CASE v # t /\ u = t
      <4>1. Planned(program, todo, q)
        BY <1>5, <1>8, <2>2, <3>2
      <4> QED BY <1>5, <2>2, <3>2, <4>1 DEF Young, Apart
    <3>3. CASE v # t /\ u # t
      BY <1>5, <2>2, <3>3 DEF Young, Apart
    <3> QED BY <3>1, <3>2, <3>3
  <2>3. ASSUME NEW v \in Thread, NEW i \in 1 .. Len(stack'[v]), NEW q \in Promises, Mentions(program, stack'[v][i], q),
               Planned(program, todo', q)
        PROVE  FALSE
    <3>1. CASE v # t
      BY <1>5, <1>7, <2>3, <3>1 DEF Young, Apart
    <3>2. CASE v = t
      <4>1. PICK w \in Client : \E d \in todo'[w] : \E k \in 1 .. Len(d.frames) : Creates(program, d.frames[k], q)
        BY <2>3 DEF Planned
      <4>2. PICK d \in todo'[w] : \E k \in 1 .. Len(d.frames) : Creates(program, d.frames[k], q)
        BY <4>1
      <4>3. PICK k \in 1 .. Len(d.frames) : Creates(program, d.frames[k], q)
        BY <4>2
      <4>4. d \in todo[w] /\ ~ (w = t /\ d = c)
        BY <1>6, <4>2
      <4>5. Separate(program, w, d, t, c)
        BY <1>4, <4>4
      <4>6. i \in 1 .. Len(c.frames) /\ Mentions(program, c.frames[i], q)
        BY <1>5, <2>3, <3>2
      <4>7. q \in c.on
        BY <4>3, <4>4, <4>5, <4>6 DEF Separate
      <4> QED BY <1>1, <1>7, <1>10, <2>3, <4>7
    <3> QED BY <3>1, <3>2
  <2>4. ASSUME NEW w \in Client, NEW d \in todo'[w], NEW i \in 1 .. Len(d.frames), NEW q \in Promises,
               Mentions(program, d.frames[i], q), Creating(program, stack', q)
        PROVE  q \in d.on
    <3>1. d \in todo[w] /\ ~ (w = t /\ d = c)
      BY <1>6, <2>4
    <3>2. CASE Creating(program, stack, q)
      BY <2>4, <3>1, <3>2 DEF Young, Apart
    <3>3. CASE \E k \in 1 .. Len(c.frames) : Creates(program, c.frames[k], q)
      <4>1. PICK k \in 1 .. Len(c.frames) : Creates(program, c.frames[k], q)
        BY <3>3
      <4>2. Separate(program, t, c, w, d)
        BY <1>4, <3>1
      <4> QED BY <2>4, <3>1, <4>1, <4>2 DEF Separate
    <3> QED BY <1>9, <2>4, <3>2, <3>3
  <2> QED BY <2>1, <2>2, <2>3, <2>4 DEF Apart
<1>12. \A u \in Thread : Layered(program, stack'[u])
  <2>1. Layered(program, c.frames)
    <3>1. \A i \in 1 .. Len(c.frames) : c.frames[i].pc # "await"
      BY <1>4 DEF WellFormedFrame
    <3> QED BY <1>4, <3>1 DEF Layered
  <2> QED BY <1>5, <2>1 DEF Young
<1>13. \A q : Unborn(q)' => Unborn(q)
  BY <1>2, <1>7, <1>8, <1>9 DEF Unborn
<1>14. \A a : StoredAction(a)' <=> StoredAction(a)
  BY <1>2 DEF StoredAction
<1>15. \A q \in Promises : Unborn(q)' =>
         /\ ~isDone(q)' /\ mActions'[q] = <<>> /\ q \notin known'
         /\ \A a \in Actions : StoredAction(a)' => q \notin Knows(program', a)
  BY <1>2, <1>13, <1>14 DEF Young, Fresh, isDone
<1> QED BY <1>2, <1>11, <1>12, <1>15 DEF Young, Fresh

\* At the start no promise is young.
LEMMA InitYoung == Init => Young
<1> SUFFICES ASSUME Init PROVE Young
  OBVIOUS
<1>1. program \in Programs /\ WellFormed(program) /\ \A t \in Thread : stack[t] = <<>>
  BY ProgramsAssumption DEF Init
<1>2. /\ \A u \in Thread : Len(stack[u]) = 0 /\ \A i \in 1 .. Len(stack[u]) : FALSE
      /\ Len(executing) = 0 /\ \A i \in 1 .. Len(executing) : FALSE
      /\ \A p \in Promises : mActions[p] = <<>> /\ \A i \in 1 .. Len(mActions[p]) : FALSE
  BY <1>1 DEF Init
<1>3. /\ \A u \in Thread : Ordered(program, stack[u]) /\ Layered(program, stack[u])
      /\ \A q : ~Creating(program, stack, q)
  BY <1>2 DEF Ordered, Layered, Creating
<1>4. Apart(program, stack, todo)
  BY <1>2, <1>3 DEF Apart
<1>5. \A a : ~StoredAction(a)
  BY <1>2 DEF StoredAction, Queued, Init
<1>6. ASSUME NEW q \in Promises, Planned(program, todo, q) PROVE q \notin known
  <2>1. todo = program.ops /\ known = program.roots
    BY DEF Init
  <2> QED BY <1>1, <1>6, <2>1 DEF Planned, WellFormed
<1>7. \A q \in Promises : ~isDone(q) /\ mActions[q] = <<>>
  BY DEF Init, isDone
<1> QED BY <1>3, <1>4, <1>5, <1>6, <1>7 DEF Young, Fresh, Unborn

\* Every step keeps Young.
LEMMA NextYoung == Inv /\ Young /\ [Next]_vars => Young'
<1> SUFFICES ASSUME Inv, Young, [Next]_vars PROVE Young'
  OBVIOUS
<1>1. CASE UNCHANGED vars
  <2>1. UNCHANGED <<outcome, mActions, executing, timers, stack, todo, program, known>>
    BY <1>1 DEF vars, promiseVars, actionVars, clientVars
  <2>2. \A a : StoredAction(a)' <=> StoredAction(a)
    BY <2>1 DEF StoredAction
  <2>3. \A q : (Unborn(q)' <=> Unborn(q)) /\ (isDone(q)' <=> isDone(q))
    BY <2>1 DEF Unborn, isDone
  <2>4. Fresh'
    BY <2>1, <2>2, <2>3 DEF Young, Fresh
  <2> QED BY <2>1, <2>4 DEF Young
<1>2. CASE \E t \in Client : Begin(t)
  BY <1>2, BeginYoung
<1>3. ASSUME NEW t \in Thread, Step(t)
      PROVE  todo' = todo /\ \E d, n : UsesReached(t, d, n)
  <2>1. todo' = todo
    BY <1>3 DEF Step, Return, Complete, OnComplete, RunActions, TryRun, TryRun2, Run, SetResult, Then, AddAction,
                Unlock, RemoveAction, AndTree, AnyOf, AnyOfDone, Arm, Fire, Get, GetExpires, GetExpired, clientVars
  <2>2. CASE Return(t) \/ Unlock(t)
    BY <2>1, <2>2, ReturnUses
  <2>3. CASE Complete(t)
    BY <2>1, <2>3, CompleteUses
  <2>4. CASE OnComplete(t)
    BY <2>1, <2>4, OnCompleteUses
  <2>5. CASE RunActions(t)
    BY <2>1, <2>5, RunActionsUses
  <2>6. CASE TryRun(t) \/ TryRun2(t)
    BY <2>1, <2>6, TryRunUses
  <2>7. CASE Run(t)
    BY <2>1, <2>7, RunUses
  <2>8. CASE SetResult(t)
    BY <2>1, <2>8, SetResultUses
  <2>9. CASE Then(t)
    BY <2>1, <2>9, ThenUses
  <2>10. CASE AddAction(t)
    BY <2>1, <2>10, AddActionUses
  <2>11. CASE RemoveAction(t)
    BY <2>1, <2>11, RemoveActionUses
  <2>12. CASE AndTree(t)
    BY <2>1, <2>12, AndTreeUses
  <2>13. CASE AnyOf(t)
    BY <2>1, <2>13, AnyOfUses
  <2>14. CASE AnyOfDone(t)
    BY <2>1, <2>14, AnyOfDoneUses
  <2>15. CASE Arm(t)
    BY <2>1, <2>15, ArmUses
  <2>16. CASE Fire(t)
    BY <2>1, <2>16, FireUses
  <2>17. CASE Get(t)
    BY <2>1, <2>17, GetUses
  <2>18. CASE GetExpires(t) \/ GetExpired(t)
    BY <2>1, <2>18, ExpireUses
  <2>19. \E d, n : UsesReached(t, d, n)
    BY <1>3, <2>2, <2>3, <2>4, <2>5, <2>6, <2>7, <2>8, <2>9, <2>10, <2>11,
       <2>12, <2>13, <2>14, <2>15, <2>16, <2>17, <2>18 DEF Step
  <2> QED BY <2>1, <2>19
<1>4. CASE \E a \in Actions : Due(a)
  <2>1. todo' = todo
    BY <1>4 DEF Due, clientVars
  <2> QED BY <1>4, <2>1, DueUses, YoungStep
<1>5. CASE Execute
  <2>1. todo' = todo
    BY <1>5 DEF Execute, clientVars
  <2> QED BY <1>5, <2>1, ExecuteUses, YoungStep
<1> QED BY <1>1, <1>2, <1>3, <1>4, <1>5, YoungStep DEF Next

\* Late completions, timeouts and a second supplier of anyOf() find that the
\* promise is done; allOf() and anyOf() set at once only what nobody knows yet.
LEMMA StepFinal ==
  ASSUME Inv, Young, [Next]_vars, NEW p \in Promises, isDone(p)
  PROVE  outcome'[p] = outcome[p]
<1>0. outcome \in [Promises -> Outcome] /\ program \in Programs
  BY DEF Inv, TypeOK
<1>1. SUFFICES ASSUME outcome' # outcome PROVE outcome'[p] = outcome[p]
  OBVIOUS
<1>2. PICK t \in Thread : Complete(t) \/ SetResult(t) \/ AndTree(t) \/ AnyOf(t)
  BY <1>1 DEF Next, Step, Begin, Return, OnComplete, RunActions, TryRun, TryRun2, Run, Then, AddAction,
              Unlock, RemoveAction, AnyOfDone, Arm, Fire, Get, GetExpires, GetExpired, Due, Execute,
              promiseVars, vars
<1>3. CASE Complete(t)
  <2>1. PICK q : q = Top(t).p
    OBVIOUS
  <2>2. ~isDone(q) /\ outcome' = [outcome EXCEPT ![q] = Top(t).out]
    BY <1>1, <1>3, <2>1 DEF Complete
  <2>3. p # q
    BY <2>2
  <2> QED BY <1>0, <2>2, <2>3
<1>4. CASE SetResult(t)
  <2>1. PICK q : q = Top(t).p
    OBVIOUS
  <2>2. outcome' = [outcome EXCEPT ![q] = Settled(q, Top(t).out)]
    BY <1>4, <2>1 DEF SetResult
  <2> QED BY <1>0, <2>2 DEF Settled
<1>5. ASSUME NEW q, q = act(Top(t).a).to, Top(t).pc \in {"andTree", "anyOf"}, ~Idle(t),
             \E out : outcome' = [outcome EXCEPT ![q] = out]
      PROVE  outcome'[p] = outcome[p]
  <2>1. At(t, Top(t).pc)
    BY <1>5 DEF At
  <2>2. Top(t) = stack[t][1] /\ 1 \in 1 .. Len(stack[t])
    BY <2>1, AtFacts
  <2>3. Creates(program, stack[t][1], q)
    BY <1>5, <2>2 DEF Creates, act
  <2>4. p # q
    BY <2>2, <2>3 DEF Young, Fresh, Unborn, Creating
  <2> QED BY <1>0, <1>5, <2>4
<1>6. CASE AndTree(t)
  BY <1>1, <1>5, <1>6 DEF AndTree, At
<1>7. CASE AnyOf(t)
  BY <1>1, <1>5, <1>7 DEF AnyOf, At
<1> QED BY <1>2, <1>3, <1>4, <1>6, <1>7

\* The result of a promise that is done never changes.
THEOREM ResultIsFinalHolds == Spec => ResultIsFinal
<1>1. Init => Inv /\ Young
  BY InitInv, InitYoung
<1>2. Inv /\ Young /\ [Next]_vars => (Inv /\ Young)'
  BY NextInv, NextYoung
<1>3. Inv /\ Young /\ [Next]_vars => [\A p \in Promises : isDone(p) => outcome'[p] = outcome[p]]_vars
  BY StepFinal
<1> QED BY <1>1, <1>2, <1>3, PTL DEF Spec, ResultIsFinal

(***************************************************************************)
(* Waiting threads and lists of actions.                                   *)
(***************************************************************************)
\* A frame that is not given up stays.
LEMMA FrameKept ==
  ASSUME NEW S, NEW R, NEW t, NEW d, NEW n, Moves(S, R, t, d, n), NEW pc, pc # "await", NEW p,
         FrameFor(S, pc, p), \A i \in 1 .. d : ~ (S[t][i].pc = pc /\ S[t][i].p = p)
  PROVE  FrameFor(R, pc, p)
<1>1. PICK u \in Thread : \E j \in 1 .. Len(S[u]) : S[u][j].pc = pc /\ S[u][j].p = p
  BY DEF FrameFor
<1>2. PICK j \in 1 .. Len(S[u]) : S[u][j].pc = pc /\ S[u][j].p = p
  BY <1>1
<1>3. Len(S[u]) \in Nat /\ d \in Nat
  BY LenProperties DEF Moves, Rewrites
<1>4. ~ (u = t /\ j <= d)
  BY <1>2, <1>3
<1>5. PICK i \in 1 .. Len(R[u]) : R[u][i] = S[u][j]
  BY <1>2, <1>4, MovesOn
<1> QED BY <1>2, <1>5 DEF FrameFor

\* A new frame.
LEMMA FrameNew ==
  ASSUME NEW S, NEW R, NEW t, NEW d, NEW n, Moves(S, R, t, d, n), NEW i \in 1 .. n, NEW pc, NEW p,
         R[t][i].pc = pc, R[t][i].p = p
  PROVE  FrameFor(R, pc, p)
<1>1. t \in Thread /\ n \in Nat /\ d \in Nat /\ Len(S[t]) \in Nat /\ d <= Len(S[t]) /\ Len(R[t]) = n + (Len(S[t]) - d)
  BY LenProperties DEF Moves, Rewrites
<1>2. i \in 1 .. Len(R[t])
  BY <1>1
<1> QED BY <1>1, <1>2 DEF FrameFor

\* Nobody waits for p.
NoWait(S, p) == \A u \in Thread : \A i \in 1 .. Len(S[u]) : S[u][i].pc = "await" => S[u][i].p # p

\* Who waits after a step waits for a pending promise.
LEMMA WaitsStep ==
  ASSUME NEW t, NEW d, NEW n, Moves(stack, stack', t, d, n), Waits,
         \A i \in 1 .. n : stack'[t][i].pc = "await" => stack'[t][i].p \notin Finished',
         \A p \in Promises : p \in Finished' => \/ p \in Finished \/ NoWait(stack', p)
                                                \/ FrameFor(stack', "onComplete", p),
         \A i \in 1 .. d : stack[t][i].pc = "onComplete" => NoWait(stack', stack[t][i].p)
  PROVE  Waits'
<1>1. SUFFICES ASSUME NEW u \in Thread, NEW i \in 1 .. Len(stack'[u]), stack'[u][i].pc = "await",
                      stack'[u][i].p \in Finished'
               PROVE  FrameFor(stack', "onComplete", stack'[u][i].p)
  BY DEF Waits
<1>2. PICK p : p = stack'[u][i].p
  OBVIOUS
<1>3. p \in Promises /\ p \in Finished' /\ ~NoWait(stack', p)
  BY <1>1, <1>2 DEF Finished, NoWait
<1>4. SUFFICES ASSUME p \in Finished PROVE FrameFor(stack', "onComplete", p)
  BY <1>2, <1>3
<1>5. n \in Nat /\ Len(stack'[u]) \in Nat
  BY LenProperties DEF Moves, Rewrites
<1>6. ~ (u = t /\ i <= n)
  BY <1>1, <1>5
<1>7. PICK j \in 1 .. Len(stack[u]) : Alike(stack'[u][i], stack[u][j])
  BY <1>6, MovesFrom
<1>8. stack[u][j].pc = "await" /\ stack[u][j].p = p
  BY <1>1, <1>2, <1>7 DEF Alike
<1>9. FrameFor(stack, "onComplete", p)
  BY <1>4, <1>8 DEF Waits
<1>10. \A k \in 1 .. d : ~ (stack[t][k].pc = "onComplete" /\ stack[t][k].p = p)
  BY <1>3
<1> QED BY <1>9, <1>10, FrameKept

\* The lock of a promise is held by one thread.
LEMMA HoldsBack ==
  ASSUME NEW S, NEW R, NEW t, NEW d, NEW n, Moves(S, R, t, d, n), NEW u \in Thread, NEW p, HoldsIn(R[u], p)
  PROVE  \/ HoldsIn(S[u], p)
         \/ u = t /\ \E i \in 1 .. n : R[t][i].pc \in {"iterate", "hold"} /\ R[t][i].p = p
<1>1. PICK i \in 1 .. Len(R[u]) : R[u][i].pc \in {"iterate", "hold"} /\ R[u][i].p = p
  BY DEF HoldsIn
<1>2. n \in Nat /\ Len(R[u]) \in Nat
  BY LenProperties DEF Moves, Rewrites
<1>3. CASE u = t /\ i <= n
  BY <1>1, <1>2, <1>3
<1>4. CASE ~ (u = t /\ i <= n)
  <2>1. PICK j \in 1 .. Len(S[u]) : Alike(R[u][i], S[u][j])
    BY <1>4, MovesFrom
  <2> QED BY <1>1, <2>1 DEF Alike, HoldsIn
<1> QED BY <1>3, <1>4

\* One thread at a time goes over the actions of a promise.
LEMMA ExclusiveStep ==
  ASSUME NEW S, NEW R, NEW t, NEW d, NEW n, Moves(S, R, t, d, n), Exclusive(S),
         \A i \in 1 .. n : R[t][i].pc \in {"iterate", "hold"} =>
           HoldsIn(S[t], R[t][i].p) \/ \A u \in Thread : u # t => ~HoldsIn(S[u], R[t][i].p)
  PROVE  Exclusive(R)
<1>1. SUFFICES ASSUME NEW u \in Thread, NEW v \in Thread, NEW p \in Promises, HoldsIn(R[u], p), HoldsIn(R[v], p)
               PROVE  u = v
  BY DEF Exclusive
<1>2. t \in Thread
  BY DEF Moves
<1>3. HoldsIn(S[u], p) \/ (u = t /\ \A w \in Thread : w # t => ~HoldsIn(S[w], p))
  BY <1>1, HoldsBack
<1>4. HoldsIn(S[v], p) \/ (v = t /\ \A w \in Thread : w # t => ~HoldsIn(S[w], p))
  BY <1>1, HoldsBack
<1> QED BY <1>1, <1>2, <1>3, <1>4 DEF Exclusive

\* A frame of runActions() is at the first action or at the end, with list l.
AtFirst(f, l) == (f.a = None => l = <<>>) /\ (l # <<>> => f.a = Head(l))

\* Thread t has new frames of runActions() for p.
Renewed(R, t, n, p) == \E k \in 1 .. n : R[t][k].pc = "iterate" /\ R[t][k].p = p

\* Iterators stay at the head of their list, or at its end.
LEMMA IteratorsStep ==
  ASSUME NEW M, NEW N, NEW S, NEW R, NEW t, NEW d, NEW n, Moves(S, R, t, d, n), Iterators(M, S),
         \A i \in 1 .. n : R[t][i].pc = "iterate" => AtFirst(R[t][i], N[R[t][i].p]),
         \A p : FrameFor(S, "iterate", p) =>
           \/ N[p] = M[p]
           \/ Renewed(R, t, n, p) /\ M[p] # <<>> /\ \A u \in Thread : u # t => ~HoldsIn(S[u], p),
         \A i \in 1 .. d : S[t][i].pc = "iterate" => M[S[t][i].p] = <<>> \/ Renewed(R, t, n, S[t][i].p)
  PROVE  Iterators(N, R)
<1>1. SUFFICES ASSUME NEW u \in Thread, NEW i \in 1 .. Len(R[u]), R[u][i].pc = "iterate"
               PROVE  /\ R[u][i].a = None => N[R[u][i].p] = <<>>
                      /\ Innermost(R[u], i) /\ N[R[u][i].p] # <<>> => R[u][i].a = Head(N[R[u][i].p])
  BY DEF Iterators
<1>2. n \in Nat /\ d \in Nat /\ Len(R[u]) \in Nat /\ Len(S[u]) \in Nat /\ t \in Thread
  BY LenProperties DEF Moves, Rewrites
<1>3. CASE u = t /\ i <= n
  <2>1. i \in 1 .. n
    BY <1>2, <1>3
  <2> QED BY <1>1, <1>3, <2>1 DEF AtFirst
<1>4. CASE ~ (u = t /\ i <= n)
  <2>1. PICK j : j = Back(t, d, n, u, i)
    OBVIOUS
  <2>2. j \in 1 .. Len(S[u]) /\ Alike(R[u][i], S[u][j])
    BY <1>4, <2>1, MovesBack
  <2>3. PICK p : p = R[u][i].p
    OBVIOUS
  <2>4. S[u][j].pc = "iterate" /\ S[u][j].p = p /\ S[u][j].a = R[u][i].a
    BY <1>1, <2>2, <2>3 DEF Alike
  <2>5. M[p] # <<>> => R[u][i].a # None
    BY <2>2, <2>4 DEF Iterators
  <2>6. ASSUME u = t, Renewed(R, t, n, p) PROVE ~Innermost(R[u], i)
    <3>1. PICK k \in 1 .. n : R[t][k].pc = "iterate" /\ R[t][k].p = p
      BY <2>6 DEF Renewed
    <3>2. k \in 1 .. i - 1
      BY <1>2, <1>4, <2>6
    <3> QED BY <2>3, <2>6, <3>1, <3>2 DEF Innermost
  <2>7. ASSUME Innermost(R[u], i), M[p] # <<>> PROVE R[u][i].a = Head(M[p])
    <3>1. ASSUME NEW h \in 1 .. j - 1, S[u][h].pc = "iterate", S[u][h].p = p PROVE FALSE
      <4>1. ~ (u = t /\ h <= d)
        <5>1. h \in 1 .. d /\ u = t => M[p] = <<>> \/ Renewed(R, t, n, p)
          BY <3>1
        <5>2. ~ (h \in 1 .. d /\ u = t)
          BY <2>6, <2>7, <5>1
        <5> QED BY <1>2, <5>2
      <4>2. h \in 1 .. Len(S[u])
        BY <1>2, <2>2
      <4>3. PICK k : k = IF u = t THEN n + (h - d) ELSE h
        OBVIOUS
      <4>4. k \in 1 .. i - 1 /\ R[u][k].pc = "iterate" /\ R[u][k].p = p
        <5>1. CASE u = t
          <6>1. /\ d <= Len(S[t]) /\ \A x \in 1 .. Len(S[t]) - d : R[t][n + x] = S[t][d + x]
            BY DEF Moves, Rewrites
          <6>2. h - d \in 1 .. Len(S[t]) - d /\ d + (h - d) = h /\ k = n + (h - d)
            BY <1>2, <4>1, <4>2, <4>3, <5>1
          <6>3. R[t][k] = S[t][h]
            BY <6>1, <6>2
          <6>4. j = d + (i - n) /\ k = n + (h - d)
            BY <2>1, <5>1, <6>2 DEF Back
          <6>5. k \in 1 .. i - 1
            BY <1>2, <2>2, <4>1, <4>2, <5>1, <6>2, <6>4
          <6> QED BY <3>1, <5>1, <6>3, <6>5
        <5>2. CASE u # t
          <6>1. k = h /\ j = i
            BY <2>1, <4>3, <5>2 DEF Back
          <6>2. R[u] = S[u] \/ Awoken(S[u], R[u])
            BY <5>2 DEF Moves
          <6>3. h = 1 => ~Awoken(S[u], R[u])
            BY <3>1 DEF Awoken
          <6>4. h # 1 => h \in 2 .. Len(S[u])
            BY <4>2
          <6>5. R[u][h] = S[u][h]
            BY <6>2, <6>3, <6>4 DEF Awoken
          <6> QED BY <3>1, <6>1, <6>5
        <5> QED BY <5>1, <5>2
      <4> QED BY <2>3, <2>7, <4>4 DEF Innermost
    <3>2. Innermost(S[u], j)
      BY <2>4, <3>1 DEF Innermost
    <3> QED BY <2>2, <2>4, <2>7, <3>2 DEF Iterators
  <2>8. CASE N[p] = M[p]
    BY <2>3, <2>5, <2>7, <2>8
  <2>9. CASE Renewed(R, t, n, p) /\ M[p] # <<>> /\ \A v \in Thread : v # t => ~HoldsIn(S[v], p)
    <3>1. u = t
      BY <2>2, <2>4, <2>9 DEF HoldsIn
    <3> QED BY <2>3, <2>5, <2>6, <2>9, <3>1
  <2>10. FrameFor(S, "iterate", p)
    BY <2>2, <2>4 DEF FrameFor
  <2> QED BY <2>8, <2>9, <2>10
<1> QED BY <1>3, <1>4

\* Actions that wait for a promise that is done are about to be run.
LEMMA StrandedStep ==
  ASSUME NEW t, NEW d, NEW n, Moves(stack, stack', t, d, n), Stranded,
         \A p \in Finished' : mActions'[p] # <<>> =>
           \/ p \in Finished /\ mActions[p] # <<>>
           \/ FrameFor(stack', "onComplete", p) \/ FrameFor(stack', "iterate", p),
         \A i \in 1 .. d : stack[t][i].pc \in {"onComplete", "iterate"} =>
           mActions'[stack[t][i].p] = <<>> \/ FrameFor(stack', "iterate", stack[t][i].p)
  PROVE  Stranded'
<1>1. SUFFICES ASSUME NEW p \in Finished', mActions'[p] # <<>>, ~FrameFor(stack', "iterate", p),
                      p \in Finished, mActions[p] # <<>>
               PROVE  FrameFor(stack', "onComplete", p)
  BY DEF Stranded
<1>2. \A i \in 1 .. d : stack[t][i].pc \in {"onComplete", "iterate"} => stack[t][i].p # p
  BY <1>1
<1>3. CASE FrameFor(stack, "onComplete", p)
  BY <1>2, <1>3, FrameKept
<1>4. CASE FrameFor(stack, "iterate", p)
  BY <1>1, <1>2, <1>4, FrameKept
<1> QED BY <1>1, <1>3, <1>4 DEF Stranded

Lists == Waits /\ Exclusive(stack) /\ Iterators(mActions, stack) /\ Stranded

\* A thread that can take the lock is the only one to hold it.
LEMMA LockFacts ==
  ASSUME Inv, NEW t \in Thread, NEW p, CanLock(t, p)
  PROVE  \A u \in Thread : u # t => ~HoldsIn(stack[u], p)
<1>1. \A u \in Thread : DOMAIN stack[u] = 1 .. Len(stack[u])
  BY LenProperties DEF Inv, TypeOK
<1> QED BY <1>1 DEF CanLock, Holds, HoldsIn

\* Steps that leave promises and locks alone.
LEMMA QuietLists ==
  ASSUME Inv, Lists, NEW t, NEW d, NEW n, Quiet(t, d, n)
  PROVE  Lists'
<1>1. /\ Moves(stack, stack', t, d, n) /\ outcome' = outcome /\ mActions' = mActions
      /\ \A i \in 1 .. d : stack[t][i].pc \notin {"onComplete", "iterate"}
      /\ \A i \in 1 .. n : stack'[t][i].pc \notin {"await", "onComplete", "iterate", "hold"}
  BY DEF Quiet, Calm, promiseVars
<1>2. Finished' = Finished
  BY <1>1 DEF Finished, isDone
<1>3. Waits'
  BY <1>1, <1>2, WaitsStep DEF Lists
<1>4. Exclusive(stack')
  BY <1>1, ExclusiveStep DEF Lists
<1>5. Iterators(mActions', stack')
  BY <1>1, IteratorsStep DEF Lists
<1>6. Stranded'
  BY <1>1, <1>2, StrandedStep DEF Lists
<1> QED BY <1>3, <1>4, <1>5, <1>6 DEF Lists

\* complete() and onComplete(): those who wait are signalled, and the lock is
\* taken for the actions.
LEMMA SignalLists ==
  ASSUME Inv, Lists, Young', NEW t \in Thread, NEW p \in Promises, Signals(t, p), CanLock(t, p), mActions' = mActions,
         Finished' \subseteq Finished \cup {p}, stack[t] # <<>>, stack[t][1].pc # "iterate",
         stack[t][1].pc = "onComplete" => stack[t][1].p = p
  PROVE  Lists'
<1>1. Moves(stack, stack', t, 1, 1) /\ stack'[t][1] = Iterate(p)
  BY DEF Signals
<1>2. NoWait(stack', p)
  BY DEF Signals, Young, Layered, NoWait
<1>3. stack'[t][1].pc = "iterate" /\ stack'[t][1].p = p /\ AtFirst(stack'[t][1], mActions[p])
  <2>1. PICK f : f = Iterate(p)
    OBVIOUS
  <2>2. f.pc = "iterate" /\ f.p = p /\ f.a = IF mActions[p] = <<>> THEN None ELSE Head(mActions[p])
    BY <2>1 DEF Iterate, Of
  <2>3. mActions[p] # <<>> => Head(mActions[p]) # None
    <3>1. mActions[p] \in Seq(Actions)
      BY DEF Inv, TypeOK
    <3> QED BY <3>1, HeadTailProperties, PromiseAssumption
  <2> QED BY <1>1, <2>1, <2>2, <2>3 DEF AtFirst
<1>4. 1 \in 1 .. 1 /\ \A i \in 1 .. 1 : i = 1
  OBVIOUS
<1>5. FrameFor(stack', "iterate", p)
  BY <1>1, <1>3, <1>4, FrameNew
<1>6. Waits'
  <2>1. \A i \in 1 .. 1 : stack'[t][i].pc = "await" => stack'[t][i].p \notin Finished'
    BY <1>3, <1>4
  <2>2. \A q \in Promises : q \in Finished' => q \in Finished \/ NoWait(stack', q)
    BY <1>2
  <2>3. \A i \in 1 .. 1 : stack[t][i].pc = "onComplete" => NoWait(stack', stack[t][i].p)
    BY <1>2, <1>4
  <2> QED BY <1>1, <2>1, <2>2, <2>3, WaitsStep DEF Lists
<1>7. Exclusive(stack')
  <2>1. \A i \in 1 .. 1 : \A u \in Thread : u # t => ~HoldsIn(stack[u], stack'[t][i].p)
    BY <1>3, <1>4, LockFacts
  <2> QED BY <1>1, <2>1, ExclusiveStep DEF Lists
<1>8. Iterators(mActions, stack')
  <2>1. \A i \in 1 .. 1 : stack'[t][i].pc = "iterate" => AtFirst(stack'[t][i], mActions[stack'[t][i].p])
    BY <1>3, <1>4
  <2>2. \A i \in 1 .. 1 : stack[t][i].pc = "iterate" => mActions[stack[t][i].p] = <<>>
    BY <1>4
  <2> QED BY <1>1, <2>1, <2>2, IteratorsStep DEF Lists
<1>9. Stranded'
  <2>1. \A i \in 1 .. 1 : stack[t][i].pc \in {"onComplete", "iterate"} => FrameFor(stack', "iterate", stack[t][i].p)
    BY <1>4, <1>5
  <2>2. \A q \in Finished' : mActions'[q] # <<>> => (q \in Finished /\ mActions[q] # <<>>) \/ FrameFor(stack', "iterate", q)
    BY <1>5
  <2> QED BY <1>1, <2>1, <2>2, StrandedStep DEF Lists
<1> QED BY <1>6, <1>7, <1>8, <1>9 DEF Lists

\* Completing a promise, with and without actions, keeps Lists.
LEMMA CompleteLists ==
  ASSUME Inv, Lists, Young', NEW t \in Thread, Complete(t) \/ OnComplete(t)
  PROVE  Lists'
<1>1. PICK p : p = Top(t).p
  OBVIOUS
<1>2. PICK pc \in {"complete", "onComplete"} : At(t, pc)
  BY DEF Complete, OnComplete
<1>3. stack[t] # <<>> /\ Top(t) = stack[t][1] /\ Top(t).pc = pc /\ p \in Promises
  BY <1>1, <1>2, AtFacts DEF Good, Finished
<1>4. CASE Quiet(t, 1, 0)
  BY <1>4, QuietLists
<1>5. CASE Signals(t, p)
  <2>1. CanLock(t, p) /\ mActions' = mActions
    BY <1>1 DEF Complete, OnComplete, promiseVars
  <2>2. \A q \in Promises : q # p => outcome'[q] = outcome[q]
    BY <1>1 DEF Complete, OnComplete, promiseVars, Inv, TypeOK
  <2>3. Finished' \subseteq Finished \cup {p}
    BY <2>2 DEF Finished, isDone
  <2>4. stack[t][1].pc # "iterate" /\ (stack[t][1].pc = "onComplete" => stack[t][1].p = p)
    BY <1>1, <1>3
  <2> QED BY <1>3, <1>5, <2>1, <2>3, <2>4, SignalLists
<1> QED BY <1>1, <1>4, <1>5, CompleteUses, OnCompleteUses

\* setResult() announces onComplete().
LEMMA SetResultLists ==
  ASSUME Inv, Lists, NEW t \in Thread, SetResult(t)
  PROVE  Lists'
<1>1. PICK p : p = Top(t).p
  OBVIOUS
<1>2. Moves(stack, stack', t, 1, 1) /\ stack'[t][1].pc = "onComplete" /\ stack'[t][1].p = p
  BY <1>1, SetResultUses
<1>3. At(t, "set") /\ mActions' = mActions /\ \A q \in Promises : q # p => outcome'[q] = outcome[q]
  BY <1>1 DEF SetResult, Inv, TypeOK
<1>4. stack[t][1].pc = "set"
  BY <1>3, AtFacts
<1>5. 1 \in 1 .. 1 /\ \A i \in 1 .. 1 : i = 1
  OBVIOUS
<1>6. FrameFor(stack', "onComplete", p)
  BY <1>2, <1>5, FrameNew
<1>7. Finished' \subseteq Finished \cup {p}
  BY <1>3 DEF Finished, isDone
<1>8. /\ \A i \in 1 .. 1 : stack[t][i].pc \notin {"onComplete", "iterate"}
      /\ \A i \in 1 .. 1 : stack'[t][i].pc \notin {"await", "iterate", "hold"}
  BY <1>2, <1>4, <1>5
<1>9. Waits'
  <2>1. \A q \in Promises : q \in Finished' => q \in Finished \/ FrameFor(stack', "onComplete", q)
    BY <1>6, <1>7
  <2> QED BY <1>2, <1>8, <2>1, WaitsStep DEF Lists
<1>10. Exclusive(stack')
  BY <1>2, <1>8, ExclusiveStep DEF Lists
<1>11. Iterators(mActions, stack')
  BY <1>2, <1>8, IteratorsStep DEF Lists
<1>12. Stranded'
  <2>1. \A q \in Finished' : mActions'[q] # <<>> => (q \in Finished /\ mActions[q] # <<>>) \/ FrameFor(stack', "onComplete", q)
    BY <1>3, <1>6, <1>7
  <2> QED BY <1>2, <1>8, <2>1, StrandedStep DEF Lists
<1> QED BY <1>3, <1>9, <1>10, <1>11, <1>12 DEF Lists

\* get() waits for a promise that is not done.
LEMMA GetLists ==
  ASSUME Inv, Lists, NEW t \in Thread, Get(t)
  PROVE  Lists'
<1>1. CASE Quiet(t, 1, 0)
  BY <1>1, QuietLists
<1>2. CASE /\ ~isDone(Top(t).p) /\ UNCHANGED promiseVars /\ Moves(stack, stack', t, 1, 1)
           /\ stack'[t][1].pc = "await" /\ stack'[t][1].p = Top(t).p
  <2>1. stack[t][1].pc = "get" /\ mActions' = mActions /\ Finished' = Finished /\ Top(t).p \notin Finished
    <3>1. At(t, "get")
      BY DEF Get
    <3>2. stack[t][1].pc = "get"
      BY <3>1, AtFacts
    <3> QED BY <1>2, <3>2 DEF promiseVars, Finished, isDone
  <2>2. 1 \in 1 .. 1 /\ \A i \in 1 .. 1 : i = 1
    OBVIOUS
  <2>3. /\ \A i \in 1 .. 1 : stack[t][i].pc \notin {"onComplete", "iterate"}
        /\ \A i \in 1 .. 1 : stack'[t][i].pc \notin {"iterate", "hold"}
        /\ \A i \in 1 .. 1 : stack'[t][i].p \notin Finished'
    BY <1>2, <2>1, <2>2
  <2>4. Waits'
    BY <1>2, <2>1, <2>3, WaitsStep DEF Lists
  <2>5. Exclusive(stack')
    BY <1>2, <2>3, ExclusiveStep DEF Lists
  <2>6. Iterators(mActions, stack')
    BY <1>2, <2>3, IteratorsStep DEF Lists
  <2>7. Stranded'
    BY <1>2, <2>1, <2>3, StrandedStep DEF Lists
  <2> QED BY <2>1, <2>4, <2>5, <2>6, <2>7 DEF Lists
<1> QED BY <1>1, <1>2, GetUses

\* allOf() and anyOf() give their promise its result: nobody waits for it yet.
LEMMA BearsLists ==
  ASSUME Inv, Lists, Young, NEW t \in Thread, NEW d, Bears(t, d)
  PROVE  Lists'
<1>1. /\ Moves(stack, stack', t, d, 0) /\ mActions' = mActions /\ stack[t] # <<>>
      /\ \A i \in 1 .. d : stack[t][i].pc \in Calm
  BY DEF Bears, Pops
<1>2. PICK q \in Promises : Creates(program, stack[t][1], q) /\ \A p \in Promises : p # q => outcome'[p] = outcome[p]
  BY DEF Bears
<1>3. 1 \in 1 .. Len(stack[t])
  <2>1. stack[t] \in Seq(Frame)
    BY DEF Inv, TypeOK
  <2> QED BY <1>1, <2>1, LenProperties, EmptySeq
<1>4. mActions[q] = <<>>
  BY <1>2, <1>3 DEF Young, Fresh, Unborn, Creating
<1>5. NoWait(stack, q)
  <2>1. SUFFICES ASSUME NEW u \in Thread, NEW i \in 1 .. Len(stack[u]), stack[u][i].pc = "await", stack[u][i].p = q
                 PROVE  FALSE
    BY DEF NoWait
  <2>2. Mentions(program, stack[u][i], q)
    BY <2>1 DEF Mentions
  <2>3. u = t
    BY <1>2, <1>3, <2>2 DEF Young, Apart
  <2>4. i = 1
    BY <2>1 DEF Young, Layered
  <2> QED BY <1>2, <2>1, <2>3, <2>4 DEF Creates
<1>6. NoWait(stack', q)
  <2>1. SUFFICES ASSUME NEW u \in Thread, NEW i \in 1 .. Len(stack'[u]), stack'[u][i].pc = "await", stack'[u][i].p = q
                 PROVE  FALSE
    BY DEF NoWait
  <2>2. ~ (u = t /\ i <= 0)
    OBVIOUS
  <2>3. PICK j \in 1 .. Len(stack[u]) : Alike(stack'[u][i], stack[u][j])
    BY <1>1, <2>2, MovesFrom
  <2> QED BY <1>5, <2>1, <2>3 DEF NoWait, Alike
<1>7. Finished' \subseteq Finished \cup {q}
  BY <1>2 DEF Finished, isDone
<1>8. \A i \in 1 .. d : stack[t][i].pc \notin {"onComplete", "iterate"}
  BY <1>1 DEF Calm
<1>9. Waits'
  <2>1. \A p \in Promises : p \in Finished' => p \in Finished \/ NoWait(stack', p)
    BY <1>6, <1>7
  <2> QED BY <1>1, <1>8, <2>1, WaitsStep DEF Lists
<1>10. Exclusive(stack')
  BY <1>1, ExclusiveStep DEF Lists
<1>11. Iterators(mActions, stack')
  BY <1>1, <1>8, IteratorsStep DEF Lists
<1>12. Stranded'
  <2>1. \A p \in Finished' : mActions'[p] # <<>> => p \in Finished /\ mActions[p] # <<>>
    BY <1>1, <1>4, <1>7
  <2> QED BY <1>1, <1>8, <2>1, StrandedStep DEF Lists
<1> QED BY <1>1, <1>9, <1>10, <1>11, <1>12 DEF Lists

\* The first action of a list is removed: the iterator is at the next one.
LEMMA HeadRemoved ==
  ASSUME NEW S, None \notin S, NEW s \in Seq(S), s # <<>>, NEW a, a = Head(s)
  PROVE  /\ Following(s, a) = None => RemoveFirst(s, a) = <<>>
         /\ RemoveFirst(s, a) # <<>> => Following(s, a) = Head(RemoveFirst(s, a))
<1> DEFINE I == {i \in 1 .. Len(s) : s[i] = a}
           m == Min(I)
           rest == RemoveFirst(s, a)
<1>1. Len(s) \in Nat /\ Len(s) >= 1 /\ a = s[1]
  BY LenProperties, EmptySeq, HeadTailProperties
<1>2. I \subseteq Nat /\ 1 \in I
  BY <1>1
<1>3. m \in I /\ m <= 1
  BY <1>2, FirstPlace
<1>4. m = 1
  BY <1>3
<1>5. SelectInSeq(s, LAMBDA b : b = a) = m
  BY <1>2 DEF SelectInSeq
<1> HIDE DEF m, I
<1>6. Following(s, a) = IF 1 = Len(s) THEN None ELSE s[2]
  <2>1. Following(s, a) = IF m = Len(s) THEN None ELSE s[m + 1]
    BY <1>5 DEF Following
  <2>2. 1 + 1 = 2
    OBVIOUS
  <2> QED BY <1>4, <2>1, <2>2
<1>7. rest = RemoveAt(s, 1)
  <2>1. \E i \in 1 .. Len(s) : s[i] = a
    BY <1>1
  <2> QED BY <1>4, <1>5, <2>1 DEF RemoveFirst
<1>8. 1 \in 1 .. Len(s)
  BY <1>1
<1>9. /\ rest \in Seq(S) /\ Len(rest) = Len(s) - 1
      /\ \A j \in 1 .. Len(s) - 1 : rest[j] = IF j < 1 THEN s[j] ELSE s[j + 1]
  BY <1>7, <1>8, RemoveAtProperties
<1> HIDE DEF rest
<1>10. CASE Len(s) = 1
  <2>1. Len(rest) = 0
    BY <1>9, <1>10
  <2>2. rest = <<>>
    BY <1>9, <2>1, EmptySeq
  <2> QED BY <2>2 DEF rest
<1>11. CASE Len(s) # 1
  <2>1. 1 \in 1 .. Len(s) - 1 /\ 2 \in 1 .. Len(s)
    <3>1. PICK l \in Nat : l = Len(s)
      BY <1>1
    <3>2. l >= 1 /\ l # 1
      BY <1>1, <1>11, <3>1
    <3>3. 1 \in 1 .. l - 1 /\ 2 \in 1 .. l
      BY <3>2
    <3> QED BY <3>1, <3>3
  <2>2. rest[1] = s[2]
    BY <1>9, <2>1
  <2>3. s[2] \in S /\ Following(s, a) = s[2]
    BY <1>6, <1>11, <2>1, ElementOfSeq
  <2>4. rest # <<>>
    BY <1>9, <2>1
  <2>5. Head(rest) = rest[1]
    BY <1>9, <2>4, HeadTailProperties
  <2> QED BY <2>2, <2>3, <2>5 DEF rest
<1> QED BY <1>10, <1>11

\* The loop of runActions()
LEMMA RunActionsLists ==
  ASSUME Inv, Lists, NEW t \in Thread, RunActions(t)
  PROVE  Lists'
<1>1. PICK p : p = Top(t).p
  OBVIOUS
<1>2. PICK a : a = Top(t).a
  OBVIOUS
<1>3. At(t, "iterate") /\ outcome' = outcome
  BY DEF RunActions
<1>4. Top(t) = stack[t][1] /\ stack[t][1].pc = "iterate" /\ stack[t][1].p = p /\ p \in Promises /\ 1 \in 1 .. Len(stack[t])
  BY <1>1, <1>3, AtFacts DEF Good, Finished
<1>5. (a = None => mActions[p] = <<>>) /\ (mActions[p] # <<>> => a = Head(mActions[p]))
  <2>1. Innermost(stack[t], 1)
    BY DEF Innermost
  <2> QED BY <1>2, <1>4, <2>1 DEF Lists, Iterators
<1>6. Finished' = Finished
  BY <1>3 DEF Finished, isDone
<1>7. 1 \in 1 .. 1 /\ \A i \in 1 .. 1 : i = 1
  OBVIOUS
<1>8. CASE a = None /\ stack' = Becomes(t, <<>>) /\ mActions' = mActions
  <2>1. Moves(stack, stack', t, 1, 0)
    BY <1>3, <1>8, Push0
  <2>2. /\ \A i \in 1 .. 1 : stack[t][i].pc # "onComplete"
        /\ \A i \in 1 .. 1 : mActions[stack[t][i].p] = <<>>
    BY <1>4, <1>5, <1>7, <1>8
  <2>3. Waits'
    BY <1>6, <2>1, <2>2, WaitsStep DEF Lists
  <2>4. Exclusive(stack')
    BY <2>1, ExclusiveStep DEF Lists
  <2>5. Iterators(mActions, stack')
    BY <2>1, <2>2, IteratorsStep DEF Lists
  <2>6. Stranded'
    BY <1>6, <1>8, <2>1, <2>2, StrandedStep DEF Lists
  <2> QED BY <1>8, <2>3, <2>4, <2>5, <2>6 DEF Lists
<1>9. CASE /\ Contains(mActions[p], a)
           /\ stack' = Becomes(t, <<Of("tryRun", None, a), Of("iterate", p, Following(mActions[p], a))>>)
           /\ mActions' = [mActions EXCEPT ![p] = RemoveFirst(@, a)]
  <2>1. mActions \in [Promises -> Seq(Actions)] /\ mActions[p] \in Seq(Actions)
    BY <1>4 DEF Inv, TypeOK
  <2>2. mActions[p] # <<>> /\ a \in Actions
    <3>1. PICK i \in 1 .. Len(mActions[p]) : mActions[p][i] = a
      BY <1>9 DEF Contains
    <3> QED BY <2>1, <3>1, ElementOfSeq
  <2>3. PICK b : b = Following(mActions[p], a)
    OBVIOUS
  <2>4. PICK rest : rest = RemoveFirst(mActions[p], a)
    OBVIOUS
  <2>5. (b = None => rest = <<>>) /\ (rest # <<>> => b = Head(rest)) /\ b \in Actions \cup {None}
    BY <1>5, <1>9, <2>1, <2>2, <2>3, <2>4, HeadRemoved, FollowingFacts, PromiseAssumption
  <2>6. mActions'[p] = rest /\ \A q \in Promises : q # p => mActions'[q] = mActions[q]
    BY <1>4, <1>9, <2>1, <2>4
  <2>7. PICK f : f = Of("tryRun", None, a)
    OBVIOUS
  <2>8. PICK g : g = Of("iterate", p, b)
    OBVIOUS
  <2>9. f \in Frame /\ f.pc = "tryRun"
    BY <2>2, <2>7 DEF Of, Frame, PC, Outcome
  <2>10. g \in Frame /\ g.pc = "iterate" /\ g.p = p /\ g.a = b
    BY <1>4, <2>5, <2>8 DEF Of, Frame, PC, Outcome
  <2>11. /\ Moves(stack, stack', t, 1, 2) /\ stack'[t][2] = g
         /\ \A i \in 1 .. 2 : (i = 1 /\ stack'[t][i] = f) \/ (i = 2 /\ stack'[t][i] = g)
    BY <1>3, <1>9, <2>3, <2>7, <2>8, <2>9, <2>10, Push2
  <2>12. 2 \in 1 .. 2
    OBVIOUS
  <2>13. FrameFor(stack', "iterate", p) /\ Renewed(stack', t, 2, p)
    BY <2>10, <2>11, <2>12, FrameNew DEF Renewed
  <2>14. HoldsIn(stack[t], p)
    BY <1>4 DEF HoldsIn
  <2>15. \A u \in Thread : u # t => ~HoldsIn(stack[u], p)
    BY <1>4, <2>14 DEF Lists, Exclusive
  <2>16. \A i \in 1 .. 2 : stack'[t][i].pc \in {"iterate", "hold", "await"} => stack'[t][i] = g
    BY <2>9, <2>11
  <2>17. Waits'
    <3>1. \A i \in 1 .. 1 : stack[t][i].pc # "onComplete"
      BY <1>4, <1>7
    <3>2. \A i \in 1 .. 2 : stack'[t][i].pc # "await"
      BY <2>9, <2>10, <2>11
    <3> QED BY <1>6, <2>11, <3>1, <3>2, WaitsStep DEF Lists
  <2>18. Exclusive(stack')
    <3>1. \A i \in 1 .. 2 : stack'[t][i].pc \in {"iterate", "hold"} => HoldsIn(stack[t], stack'[t][i].p)
      BY <2>10, <2>14, <2>16
    <3> QED BY <2>11, <3>1, ExclusiveStep DEF Lists
  <2>19. Iterators(mActions', stack')
    <3>1. \A i \in 1 .. 2 : stack'[t][i].pc = "iterate" => AtFirst(stack'[t][i], mActions'[stack'[t][i].p])
      BY <2>5, <2>6, <2>10, <2>16 DEF AtFirst
    <3>2. ASSUME NEW q, FrameFor(stack, "iterate", q) PROVE q \in Promises
      <4>1. PICK u \in Thread : \E i \in 1 .. Len(stack[u]) : stack[u][i].pc = "iterate" /\ stack[u][i].p = q
        BY <3>2 DEF FrameFor
      <4> QED BY <4>1 DEF Inv, Stacks, GoodStack, Good, Finished
    <3>3. \A q : FrameFor(stack, "iterate", q) =>
            \/ mActions'[q] = mActions[q]
            \/ Renewed(stack', t, 2, q) /\ mActions[q] # <<>> /\ \A u \in Thread : u # t => ~HoldsIn(stack[u], q)
      BY <2>2, <2>6, <2>13, <2>15, <3>2
    <3>4. \A i \in 1 .. 1 : Renewed(stack', t, 2, stack[t][i].p)
      BY <1>4, <1>7, <2>13
    <3> QED BY <2>11, <3>1, <3>3, <3>4, IteratorsStep DEF Lists
  <2>20. Stranded'
    <3>1. \A i \in 1 .. 1 : FrameFor(stack', "iterate", stack[t][i].p)
      BY <1>4, <1>7, <2>13
    <3>2. \A q \in Finished' : mActions'[q] # <<>> => (q \in Finished /\ mActions[q] # <<>>) \/ FrameFor(stack', "iterate", q)
      BY <1>6, <2>6, <2>13 DEF Finished
    <3> QED BY <2>11, <3>1, <3>2, StrandedStep DEF Lists
  <2> QED BY <2>17, <2>18, <2>19, <2>20 DEF Lists
<1> QED BY <1>1, <1>2, <1>8, <1>9 DEF RunActions

\* addAction() asks again under the lock.
LEMMA AddActionLists ==
  ASSUME Inv, Lists, NEW t \in Thread, AddAction(t)
  PROVE  Lists'
<1>1. PICK p : p = Top(t).p
  OBVIOUS
<1>2. PICK a : a = Top(t).a
  OBVIOUS
<1>3. At(t, "addAction") /\ CanLock(t, p) /\ outcome' = outcome
  BY <1>1 DEF AddAction
<1>4. stack[t][1].pc = "addAction" /\ p \in Promises /\ a \in DOMAIN Table /\ program \in Programs
  BY <1>1, <1>2, <1>3, AtFacts DEF Good, DependsOn, Inv, TypeOK
<1>5. a \in Actions
  BY <1>4, ActionFacts
<1>6. Finished' = Finished
  BY <1>3 DEF Finished, isDone
<1>7. \A i \in 1 .. 1 : stack[t][i].pc \notin {"onComplete", "iterate"}
  BY <1>4
<1>8. CASE stack' = Becomes(t, <<Of("tryRun", None, a), Of("hold", p, None)>>) /\ mActions' = mActions
  <2>1. PICK f : f = Of("tryRun", None, a)
    OBVIOUS
  <2>2. PICK g : g = Of("hold", p, None)
    OBVIOUS
  <2>3. f \in Frame /\ f.pc = "tryRun" /\ g \in Frame /\ g.pc = "hold" /\ g.p = p
    BY <1>4, <1>5, <2>1, <2>2 DEF Of, Frame, PC, Outcome
  <2>4. /\ Moves(stack, stack', t, 1, 2)
        /\ \A i \in 1 .. 2 : (i = 1 /\ stack'[t][i] = f) \/ (i = 2 /\ stack'[t][i] = g)
    BY <1>3, <1>8, <2>1, <2>2, <2>3, Push2
  <2>5. \A i \in 1 .. 2 : /\ stack'[t][i].pc \notin {"await", "onComplete", "iterate"}
                          /\ stack'[t][i].pc = "hold" => stack'[t][i].p = p
    BY <2>3, <2>4
  <2>6. Waits'
    BY <1>6, <1>7, <2>4, <2>5, WaitsStep DEF Lists
  <2>7. Exclusive(stack')
    <3>1. \A i \in 1 .. 2 : stack'[t][i].pc \in {"iterate", "hold"} =>
            \A u \in Thread : u # t => ~HoldsIn(stack[u], stack'[t][i].p)
      BY <1>3, <2>5, LockFacts
    <3> QED BY <2>4, <3>1, ExclusiveStep DEF Lists
  <2>8. Iterators(mActions, stack')
    BY <1>7, <2>4, <2>5, IteratorsStep DEF Lists
  <2>9. Stranded'
    BY <1>6, <1>7, <1>8, <2>4, StrandedStep DEF Lists
  <2> QED BY <1>8, <2>6, <2>7, <2>8, <2>9 DEF Lists
<1>9. CASE ~isDone(p) /\ mActions' = [mActions EXCEPT ![p] = Append(@, a)] /\ stack' = Becomes(t, <<>>)
  <2>1. Moves(stack, stack', t, 1, 0)
    BY <1>3, <1>9, Push0
  <2>2. p \notin Finished /\ \A q \in Promises : q # p => mActions'[q] = mActions[q]
    BY <1>9 DEF Finished, Inv, TypeOK
  <2>3. Waits'
    BY <1>6, <1>7, <2>1, WaitsStep DEF Lists
  <2>4. Exclusive(stack')
    BY <2>1, ExclusiveStep DEF Lists
  <2>5. Iterators(mActions', stack')
    <3>1. ASSUME NEW q, FrameFor(stack, "iterate", q) PROVE q \in Finished /\ q \in Promises
      <4>1. PICK u \in Thread : \E i \in 1 .. Len(stack[u]) : stack[u][i].pc = "iterate" /\ stack[u][i].p = q
        BY <3>1 DEF FrameFor
      <4> QED BY <4>1 DEF Inv, Stacks, GoodStack, Good, Finished
    <3>2. \A q : FrameFor(stack, "iterate", q) => mActions'[q] = mActions[q]
      BY <2>2, <3>1
    <3> QED BY <1>7, <2>1, <3>2, IteratorsStep DEF Lists
  <2>6. Stranded'
    <3>1. \A q \in Finished' : mActions'[q] # <<>> => q \in Finished /\ mActions[q] # <<>>
      BY <1>6, <2>2 DEF Finished
    <3> QED BY <1>7, <2>1, <3>1, StrandedStep DEF Lists
  <2> QED BY <2>3, <2>4, <2>5, <2>6 DEF Lists
<1> QED BY <1>1, <1>2, <1>8, <1>9 DEF AddAction

\* removeAction() under the lock: nobody iterates over the list.
LEMMA RemoveActionLists ==
  ASSUME Inv, Lists, Young, NEW t \in Thread, RemoveAction(t)
  PROVE  Lists'
<1>1. PICK p : p = Top(t).p
  OBVIOUS
<1>2. /\ At(t, "removeAction") /\ CanLock(t, p) /\ outcome' = outcome
      /\ mActions' = [mActions EXCEPT ![p] = RemoveFirst(@, Top(t).a)]
  BY <1>1 DEF RemoveAction
<1>3. stack[t][1].pc = "removeAction" /\ p \in Promises
  BY <1>1, <1>2, AtFacts DEF Good
<1>4. Moves(stack, stack', t, 1, 0)
  BY RemoveActionUses
<1>5. Finished' = Finished
  BY <1>2 DEF Finished, isDone
<1>6. \A i \in 1 .. 1 : stack[t][i].pc \notin {"onComplete", "iterate"}
  BY <1>3
<1>7. \A q \in Promises : q # p => mActions'[q] = mActions[q]
  BY <1>2 DEF Inv, TypeOK
<1>8. ASSUME NEW u \in Thread, NEW j \in 1 .. Len(stack[u]), stack[u][j].pc = "iterate"
      PROVE  stack[u][j].p # p /\ stack[u][j].p \in Promises
  <2>1. stack[u][j].p \in Promises
    BY <1>8 DEF Inv, Stacks, GoodStack, Good, Finished
  <2>2. CASE u # t
    BY <1>2, <1>8, <2>1, <2>2, LockFacts DEF HoldsIn
  <2>3. CASE u = t
    <3>1. j # 1
      BY <1>3, <1>8, <2>3
    <3>2. 1 \in 1 .. j - 1 /\ stack[t][1].pc \in CallOnly
      BY <1>3, <3>1 DEF CallOnly
    <3>3. WellFormedFrame(program, stack[u][j])
      BY <2>3, <3>2 DEF Young, Layered
    <3> QED BY <1>8, <3>3 DEF WellFormedFrame
  <2> QED BY <2>1, <2>2, <2>3
<1>9. \A q : FrameFor(stack, "iterate", q) => mActions'[q] = mActions[q]
  BY <1>7, <1>8 DEF FrameFor
<1>10. Waits'
  BY <1>4, <1>5, <1>6, WaitsStep DEF Lists
<1>11. Exclusive(stack')
  BY <1>4, ExclusiveStep DEF Lists
<1>12. Iterators(mActions', stack')
  BY <1>4, <1>6, <1>9, IteratorsStep DEF Lists
<1>13. Stranded'
  <2>1. mActions'[p] # <<>> => mActions[p] # <<>>
    BY <1>2, <1>3, ShrinksToNothing DEF Inv, TypeOK
  <2>2. \A q \in Finished' : mActions'[q] # <<>> => q \in Finished /\ mActions[q] # <<>>
    BY <1>5, <1>7, <2>1 DEF Finished
  <2> QED BY <1>4, <1>6, <2>2, StrandedStep DEF Lists
<1> QED BY <1>10, <1>11, <1>12, <1>13 DEF Lists

\* A call begins: its frames are calm.
LEMMA BeginQuiet ==
  ASSUME Inv, NEW t \in Client, Begin(t)
  PROVE  \E n : Quiet(t, 0, n)
<1>1. PICK c \in todo[t] : stack' = [stack EXCEPT ![t] = c.frames]
  BY DEF Begin
<1>2. t \in Thread /\ stack[t] = <<>> /\ UNCHANGED promiseVars /\ stack \in [Thread -> Seq(Frame)]
  BY DEF Begin, Idle, Thread, Inv, TypeOK
<1>3. WellFormed(program) /\ todo[t] \subseteq program.ops[t]
  BY MarkerFacts DEF Inv, Stored
<1>4. PICK s : s = c.frames
  OBVIOUS
<1>5. s \in Seq(Frame) /\ \A i \in 1 .. Len(s) : WellFormedFrame(program, s[i])
  BY <1>1, <1>3, <1>4 DEF WellFormed
<1>6. stack'[t] = s /\ stack' \in [Thread -> Seq(Frame)] /\ \A u \in Thread : u # t => stack'[u] = stack[u]
  BY <1>1, <1>2, <1>4, <1>5
<1>7. Rewrites(stack[t], stack'[t], 0, Len(s))
  <2>1. Len(stack[t]) = 0 /\ Len(s) \in Nat
    BY <1>2, <1>5, LenProperties
  <2> QED BY <1>5, <1>6, <2>1 DEF Rewrites
<1>8. Moves(stack, stack', t, 0, Len(s))
  BY <1>2, <1>6, <1>7 DEF Moves
<1>9. \A i \in 1 .. Len(s) : stack'[t][i].pc \in Calm
  BY <1>5, <1>6 DEF WellFormedFrame, Calm, PC
<1>10. \A i \in 1 .. 0 : FALSE
  OBVIOUS
<1> QED BY <1>2, <1>8, <1>9, <1>10 DEF Quiet

\* At the start there are no lists.
LEMMA InitLists == Init => Lists
<1> SUFFICES ASSUME Init PROVE Lists
  OBVIOUS
<1>1. /\ \A t \in Thread : stack[t] = <<>> /\ Len(stack[t]) = 0 /\ \A i \in 1 .. Len(stack[t]) : FALSE
      /\ \A p \in Promises : mActions[p] = <<>>
  BY DEF Init
<1>2. Waits /\ Exclusive(stack) /\ Iterators(mActions, stack)
  BY <1>1 DEF Waits, Exclusive, HoldsIn, Iterators
<1>3. Stranded
  BY <1>1 DEF Stranded, Finished
<1> QED BY <1>2, <1>3 DEF Lists

\* Every step keeps Lists.
LEMMA NextLists == Inv /\ Young /\ Lists /\ [Next]_vars => Lists'
<1> SUFFICES ASSUME Inv, Young, Lists, [Next]_vars PROVE Lists'
  OBVIOUS
<1>1. CASE UNCHANGED vars
  <2>1. UNCHANGED <<outcome, mActions, stack>>
    BY <1>1 DEF vars, promiseVars
  <2>2. Finished' = Finished
    BY <2>1 DEF Finished, isDone
  <2>3. Waits' /\ Stranded'
    BY <2>1, <2>2 DEF Lists, Waits, Stranded
  <2>4. Exclusive(stack') /\ Iterators(mActions', stack')
    BY <2>1 DEF Lists
  <2> QED BY <2>3, <2>4 DEF Lists
<1>2. CASE \E t \in Client : Begin(t)
  BY <1>2, BeginQuiet, QuietLists
<1>3. ASSUME NEW t \in Thread, Step(t)
      PROVE  Lists'
  <2>1. Young'
    BY NextYoung
  <2>2. CASE Return(t) \/ Unlock(t)
    BY <2>2, ReturnUses, QuietLists
  <2>3. CASE Complete(t) \/ OnComplete(t)
    BY <2>1, <2>3, CompleteLists
  <2>4. CASE RunActions(t)
    BY <2>4, RunActionsLists
  <2>5. CASE TryRun(t) \/ TryRun2(t)
    BY <2>5, TryRunUses, QuietLists
  <2>6. CASE Run(t)
    BY <2>6, RunUses, QuietLists
  <2>7. CASE SetResult(t)
    BY <2>7, SetResultLists
  <2>8. CASE Then(t)
    BY <2>8, ThenUses, QuietLists
  <2>9. CASE AddAction(t)
    BY <2>9, AddActionLists
  <2>10. CASE RemoveAction(t)
    BY <2>10, RemoveActionLists
  <2>11. CASE AndTree(t)
    BY <2>11, AndTreeUses, QuietLists, BearsLists
  <2>12. CASE AnyOf(t)
    BY <2>12, AnyOfUses, QuietLists, BearsLists
  <2>13. CASE AnyOfDone(t)
    BY <2>13, AnyOfDoneUses, QuietLists
  <2>14. CASE Arm(t)
    BY <2>14, ArmUses, QuietLists
  <2>15. CASE Fire(t)
    BY <2>15, FireUses, QuietLists
  <2>16. CASE Get(t)
    BY <2>16, GetLists
  <2>17. CASE GetExpires(t) \/ GetExpired(t)
    BY <2>17, ExpireUses, QuietLists
  <2> QED BY <1>3, <2>2, <2>3, <2>4, <2>5, <2>6, <2>7, <2>8, <2>9, <2>10, <2>11,
             <2>12, <2>13, <2>14, <2>15, <2>16, <2>17 DEF Step
<1>4. CASE \E a \in Actions : Due(a)
  BY <1>4, DueUses, QuietLists
<1>5. CASE Execute
  BY <1>5, ExecuteUses, QuietLists
<1> QED BY <1>1, <1>2, <1>3, <1>4, <1>5 DEF Next

\* What Lists says of waiting threads and of actions.
LEMMA ListsMeaning ==
  ASSUME Inv, Lists
  PROVE  NoLostWakeup /\ NoActionStranded
<1>1. \A t \in Thread : DOMAIN stack[t] = 1 .. Len(stack[t])
  BY LenProperties DEF Inv, TypeOK
<1>2. NoLostWakeup
  <2>1. SUFFICES ASSUME NEW p \in Promises, NEW t \in Thread, isDone(p), At(t, "await"), Top(t).p = p
                 PROVE  \E u \in Thread : \E i \in DOMAIN stack[u] :
                          stack[u][i].pc = "onComplete" /\ stack[u][i].p = p
    BY DEF NoLostWakeup
  <2>2. 1 \in 1 .. Len(stack[t]) /\ stack[t][1].pc = "await" /\ stack[t][1].p = p
    BY <2>1, AtFacts
  <2>3. FrameFor(stack, "onComplete", p)
    BY <2>1, <2>2 DEF Lists, Waits, Finished
  <2> QED BY <1>1, <2>3 DEF FrameFor
<1>3. NoActionStranded
  <2>1. SUFFICES ASSUME NEW p \in Promises, isDone(p), mActions[p] # <<>> PROVE Completing(p)
    BY DEF NoActionStranded
  <2>2. PICK pc \in {"onComplete", "iterate"} : FrameFor(stack, pc, p)
    BY <2>1 DEF Lists, Stranded, Finished
  <2> QED BY <1>1, <2>2 DEF FrameFor, Completing
<1> QED BY <1>2, <1>3

\* Whoever waits in get() for a promise that is done will be signalled: the
\* wait is entered under the lock that complete() and onComplete() take.
THEOREM NoLostWakeupHolds == Spec => []NoLostWakeup
<1>1. Init => Inv /\ Young /\ Lists
  BY InitInv, InitYoung, InitLists
<1>2. Inv /\ Young /\ Lists /\ [Next]_vars => (Inv /\ Young /\ Lists)'
  BY NextInv, NextYoung, NextLists
<1>3. Inv /\ Lists => NoLostWakeup
  BY ListsMeaning
<1> QED BY <1>1, <1>2, <1>3, PTL DEF Spec

\* addAction() against complete(): no action stays behind in the list of a
\* promise that is done, unless a thread is about to run it.
THEOREM NoActionStrandedHolds == Spec => []NoActionStranded
<1>1. Init => Inv /\ Young /\ Lists
  BY InitInv, InitYoung, InitLists
<1>2. Inv /\ Young /\ Lists /\ [Next]_vars => (Inv /\ Young /\ Lists)'
  BY NextInv, NextYoung, NextLists
<1>3. Inv /\ Lists => NoActionStranded
  BY ListsMeaning
<1> QED BY <1>1, <1>2, <1>3, PTL DEF Spec

(***************************************************************************)
(* Timeouts.                                                               *)
(***************************************************************************)
Timeouts == {x \in DOMAIN Table : Table[x].kind = "timeout"}

\* A frame of stacks S at one of the places pcs with action x.
FrameWith(S, pcs, x) == \E u \in Thread : \E i \in 1 .. Len(S[u]) : S[u][i].pc \in pcs /\ S[u][i].a = x

\* Action x is more than planned.
Tried(x) == x \in claimed \/ StoredAction(x) \/ FrameWith(stack, PC \ {"arm"}, x)

\* Timeout x will be armed, by a call or by a delay.
ToArm(x) ==
  \/ \E w \in Client : \E c \in todo[w] : \E i \in 1 .. Len(c.frames) : c.frames[i].pc = "arm" /\ c.frames[i].a = x
  \/ \E d \in DOMAIN Table : Table[d].kind = "delay" /\ runs[d] = 0 /\ Table[d].then = x

\* Each timeout is armed once.
ArmedOnce ==
  /\ \A t, u \in Thread : \A i \in 1 .. Len(stack[t]), j \in 1 .. Len(stack[u]) :
       stack[t][i].pc = "arm" /\ stack[u][j].pc = "arm" /\ stack[t][i].a = stack[u][j].a => t = u /\ i = j
  /\ \A x : FrameWith(stack, {"arm"}, x) => x \in Timeouts /\ ~Tried(x)
  /\ \A x \in Timeouts : ToArm(x) => ~Tried(x) /\ ~FrameWith(stack, {"arm"}, x)

\* The action that removes the callback of timeout x is on its way.
Held(x) ==
  IF x \in claimed THEN FrameWith(stack, {"run"}, x) \/ Queued(executing, x)
  ELSE FrameWith(stack, {"then", "addAction", "tryRun"}, x) \/ Queued(mActions[Table[x].from[1]], x)

Timers == timers \subseteq Timeouts /\ \A x \in timers : Held(x)

Timed == ArmedOnce /\ Timers

\* A frame that is not given up keeps its action.
LEMMA WithKept ==
  ASSUME NEW S, NEW R, NEW t, NEW d, NEW n, Moves(S, R, t, d, n), NEW pcs, "await" \notin pcs, NEW x,
         FrameWith(S, pcs, x), \A i \in 1 .. d : ~ (S[t][i].pc \in pcs /\ S[t][i].a = x)
  PROVE  FrameWith(R, pcs, x)
<1>1. PICK u \in Thread : \E j \in 1 .. Len(S[u]) : S[u][j].pc \in pcs /\ S[u][j].a = x
  BY DEF FrameWith
<1>2. PICK j \in 1 .. Len(S[u]) : S[u][j].pc \in pcs /\ S[u][j].a = x
  BY <1>1
<1>3. Len(S[u]) \in Nat /\ d \in Nat
  BY LenProperties DEF Moves, Rewrites
<1>4. ~ (u = t /\ j <= d)
  BY <1>2, <1>3
<1>5. PICK i \in 1 .. Len(R[u]) : R[u][i] = S[u][j]
  BY <1>2, <1>4, MovesOn
<1> QED BY <1>2, <1>5 DEF FrameWith

\* A new frame.
LEMMA WithNew ==
  ASSUME NEW S, NEW R, NEW t, NEW d, NEW n, Moves(S, R, t, d, n), NEW i \in 1 .. n, NEW pcs, NEW x,
         R[t][i].pc \in pcs, R[t][i].a = x
  PROVE  FrameWith(R, pcs, x)
<1>1. t \in Thread /\ n \in Nat /\ d \in Nat /\ Len(S[t]) \in Nat /\ d <= Len(S[t]) /\ Len(R[t]) = n + (Len(S[t]) - d)
  BY LenProperties DEF Moves, Rewrites
<1>2. i \in 1 .. Len(R[t])
  BY <1>1
<1> QED BY <1>1, <1>2 DEF FrameWith

\* Frames are new or were there before.
LEMMA WithBack ==
  ASSUME NEW S, NEW R, NEW t, NEW d, NEW n, Moves(S, R, t, d, n), NEW pcs, "get" \in pcs => "await" \in pcs, NEW x,
         FrameWith(R, pcs, x)
  PROVE  FrameWith(S, pcs, x) \/ \E i \in 1 .. n : R[t][i].pc \in pcs /\ R[t][i].a = x
<1>1. PICK u \in Thread : \E i \in 1 .. Len(R[u]) : R[u][i].pc \in pcs /\ R[u][i].a = x
  BY DEF FrameWith
<1>2. PICK i \in 1 .. Len(R[u]) : R[u][i].pc \in pcs /\ R[u][i].a = x
  BY <1>1
<1>3. Len(R[u]) \in Nat /\ n \in Nat
  BY LenProperties DEF Moves, Rewrites
<1>4. CASE u = t /\ i <= n
  <2>1. i \in 1 .. n
    BY <1>3, <1>4
  <2> QED BY <1>2, <1>4, <2>1
<1>5. CASE ~ (u = t /\ i <= n)
  <2>1. PICK j \in 1 .. Len(S[u]) : Alike(R[u][i], S[u][j])
    BY <1>5, MovesFrom
  <2> QED BY <1>2, <2>1 DEF Alike, FrameWith
<1> QED BY <1>4, <1>5

\* What a step tries for the first time is in X.
LEMMA TriedBack ==
  ASSUME NEW t, NEW d, NEW n, Moves(stack, stack', t, d, n), program' = program, NEW X,
         \A i \in 1 .. n : stack'[t][i].pc # "arm" /\ stack'[t][i].a \in Timeouts =>
           Tried(stack'[t][i].a) \/ stack'[t][i].a \in X,
         \A x \in Timeouts : x \in claimed' \/ StoredAction(x)' => Tried(x) \/ x \in X
  PROVE  \A x \in Timeouts : Tried(x)' => Tried(x) \/ x \in X
<1>1. SUFFICES ASSUME NEW x \in Timeouts, FrameWith(stack', PC \ {"arm"}, x)
               PROVE  Tried(x) \/ x \in X
  BY DEF Tried
<1>2. "get" \in PC \ {"arm"} => "await" \in PC \ {"arm"}
  BY DEF PC
<1>3. CASE FrameWith(stack, PC \ {"arm"}, x)
  BY <1>3 DEF Tried
<1>4. CASE \E i \in 1 .. n : stack'[t][i].pc \in PC \ {"arm"} /\ stack'[t][i].a = x
  BY <1>4
<1> QED BY <1>1, <1>2, <1>3, <1>4, WithBack

\* A timeout is armed only when nobody has tried it.
LEMMA ArmedOnceStep ==
  ASSUME NEW t, NEW d, NEW n, Moves(stack, stack', t, d, n), program' = program, ArmedOnce,
         \A x \in Timeouts : Tried(x)' => Tried(x) \/ (~FrameWith(stack', {"arm"}, x) /\ ~ToArm(x)'),
         \A x \in Timeouts : ToArm(x)' => ToArm(x),
         \A i \in 1 .. n : stack'[t][i].pc = "arm" =>
           /\ stack'[t][i].a \in Timeouts /\ ~Tried(stack'[t][i].a)
           /\ ~FrameWith(stack, {"arm"}, stack'[t][i].a)
           /\ \A x : x = stack'[t][i].a => ~ToArm(x)',
         \A i, j \in 1 .. n : stack'[t][i].pc = "arm" /\ stack'[t][j].pc = "arm" /\ stack'[t][i].a = stack'[t][j].a => i = j
  PROVE  ArmedOnce'
<1>1. Timeouts' = Timeouts
  BY DEF Timeouts, Table
<1>2. \A u \in Thread : Len(stack[u]) \in Nat /\ Len(stack'[u]) \in Nat
  BY LenProperties DEF Moves
<1>3. n \in Nat /\ d \in Nat /\ t \in Thread
  BY DEF Moves, Rewrites
<1>4. ASSUME NEW u \in Thread, NEW i \in 1 .. Len(stack'[u]), stack'[u][i].pc = "arm", ~ (u = t /\ i <= n)
      PROVE  /\ Back(t, d, n, u, i) \in 1 .. Len(stack[u])
             /\ stack[u][Back(t, d, n, u, i)].pc = "arm"
             /\ stack[u][Back(t, d, n, u, i)].a = stack'[u][i].a
             /\ FrameWith(stack, {"arm"}, stack'[u][i].a)
  <2>1. PICK j : j = Back(t, d, n, u, i)
    OBVIOUS
  <2>2. j \in 1 .. Len(stack[u]) /\ Alike(stack'[u][i], stack[u][j])
    BY <1>4, <2>1, MovesBack
  <2>3. stack[u][j].pc = "arm" /\ stack[u][j].a = stack'[u][i].a
    BY <1>4, <2>2 DEF Alike
  <2>4. FrameWith(stack, {"arm"}, stack'[u][i].a)
    BY <2>2, <2>3 DEF FrameWith
  <2> QED BY <2>1, <2>2, <2>3, <2>4
<1>5. \A u \in Thread : \A i \in 1 .. Len(stack'[u]) : u = t /\ i <= n => i \in 1 .. n
  BY <1>2, <1>3
<1>6. ASSUME NEW u \in Thread, NEW v \in Thread, NEW i \in 1 .. Len(stack'[u]), NEW j \in 1 .. Len(stack'[v]),
             stack'[u][i].pc = "arm", stack'[v][j].pc = "arm", stack'[u][i].a = stack'[v][j].a
      PROVE  u = v /\ i = j
  <2>1. CASE (u = t /\ i <= n) /\ (v = t /\ j <= n)
    BY <1>5, <1>6, <2>1
  <2>2. CASE (u = t /\ i <= n) /\ ~ (v = t /\ j <= n)
    BY <1>4, <1>5, <1>6, <2>2
  <2>3. CASE ~ (u = t /\ i <= n) /\ (v = t /\ j <= n)
    BY <1>4, <1>5, <1>6, <2>3
  <2>4. CASE ~ (u = t /\ i <= n) /\ ~ (v = t /\ j <= n)
    <3>1. PICK k : k = Back(t, d, n, u, i)
      OBVIOUS
    <3>2. PICK l : l = Back(t, d, n, v, j)
      OBVIOUS
    <3>3. k \in 1 .. Len(stack[u]) /\ stack[u][k].pc = "arm" /\ stack[u][k].a = stack'[u][i].a
      BY <1>4, <1>6, <2>4, <3>1
    <3>4. l \in 1 .. Len(stack[v]) /\ stack[v][l].pc = "arm" /\ stack[v][l].a = stack'[v][j].a
      BY <1>4, <1>6, <2>4, <3>2
    <3>5. u = v /\ k = l
      BY <1>6, <3>3, <3>4 DEF ArmedOnce
    <3>6. i \in Int /\ j \in Int
      OBVIOUS
    <3>7. CASE u = t
      <4>1. k = d + (i - n) /\ l = d + (j - n)
        BY <3>1, <3>2, <3>5, <3>7 DEF Back
      <4>2. d + (i - n) = d + (j - n)
        BY <3>5, <4>1
      <4>3. i = j
        BY <1>3, <3>6, <4>2
      <4> QED BY <3>5, <4>3
    <3>8. CASE u # t
      <4>1. k = i /\ l = j
        BY <3>1, <3>2, <3>5, <3>8 DEF Back
      <4> QED BY <3>5, <4>1
    <3> QED BY <3>7, <3>8
  <2> QED BY <2>1, <2>2, <2>3, <2>4
<1>7. ASSUME NEW x, FrameWith(stack', {"arm"}, x) PROVE x \in Timeouts /\ ~Tried(x)'
  <2>1. CASE FrameWith(stack, {"arm"}, x)
    BY <1>7, <2>1 DEF ArmedOnce
  <2>2. CASE \E i \in 1 .. n : stack'[t][i].pc \in {"arm"} /\ stack'[t][i].a = x
    BY <1>7, <2>2
  <2>3. "get" \notin {"arm"}
    OBVIOUS
  <2> QED BY <1>7, <2>1, <2>2, <2>3, WithBack
<1>8. ASSUME NEW x \in Timeouts, ToArm(x)' PROVE ~Tried(x)' /\ ~FrameWith(stack', {"arm"}, x)
  <2>1. ~Tried(x) /\ ~FrameWith(stack, {"arm"}, x)
    BY <1>8 DEF ArmedOnce
  <2>2. ~Tried(x)'
    BY <1>8, <2>1
  <2>3. ~FrameWith(stack', {"arm"}, x)
    <3>1. ~ \E i \in 1 .. n : stack'[t][i].pc \in {"arm"} /\ stack'[t][i].a = x
      BY <1>8
    <3>2. "get" \in {"arm"} => "await" \in {"arm"}
      OBVIOUS
    <3>3. FrameWith(stack', {"arm"}, x) =>
            FrameWith(stack, {"arm"}, x) \/ \E i \in 1 .. n : stack'[t][i].pc \in {"arm"} /\ stack'[t][i].a = x
      BY <3>2, WithBack
    <3> QED BY <2>1, <3>1, <3>3
  <2> QED BY <2>2, <2>3
<1> QED BY <1>1, <1>6, <1>7, <1>8 DEF ArmedOnce

\* Nothing happens to timeout x but by what comes on top of it.
Keeps(t, d, x) ==
  /\ x \in claimed' <=> x \in claimed
  /\ IF x \in claimed
       THEN /\ Queued(executing, x) => Queued(executing', x)
            /\ \A i \in 1 .. d : ~ (stack[t][i].a = x /\ stack[t][i].pc = "run")
       ELSE /\ Queued(mActions[Table[x].from[1]], x) => Queued(mActions'[Table[x].from[1]], x)
            /\ \A i \in 1 .. d : ~ (stack[t][i].a = x /\ stack[t][i].pc \in {"then", "addAction", "tryRun"})

\* The action that removes the callback of a timer is not lost.
LEMMA TimersStep ==
  ASSUME NEW t, NEW d, NEW n, Moves(stack, stack', t, d, n), program' = program, Timers,
         \A x \in timers' : x \in Timeouts /\ (Held(x)' \/ (x \in timers /\ Keeps(t, d, x)))
  PROVE  Timers'
<1>1. Timeouts' = Timeouts /\ Table' = Table
  BY DEF Timeouts, Table
<1>2. ASSUME NEW x \in timers', x \in timers, Keeps(t, d, x) PROVE Held(x)'
  <2>1. Held(x)
    BY <1>2 DEF Timers
  <2>2. "await" \notin {"run"} /\ "await" \notin {"then", "addAction", "tryRun"}
    OBVIOUS
  <2>3. CASE x \in claimed
    <3>1. FrameWith(stack, {"run"}, x) => FrameWith(stack', {"run"}, x)
      <4>1. \A i \in 1 .. d : ~ (stack[t][i].pc \in {"run"} /\ stack[t][i].a = x)
        BY <1>2, <2>3 DEF Keeps
      <4> QED BY <2>2, <4>1, WithKept
    <3> QED BY <1>2, <2>1, <2>3, <3>1 DEF Held, Keeps
  <2>4. CASE x \notin claimed
    <3>1. FrameWith(stack, {"then", "addAction", "tryRun"}, x) => FrameWith(stack', {"then", "addAction", "tryRun"}, x)
      <4>1. \A i \in 1 .. d : ~ (stack[t][i].pc \in {"then", "addAction", "tryRun"} /\ stack[t][i].a = x)
        BY <1>2, <2>4 DEF Keeps
      <4> QED BY <2>2, <4>1, WithKept
    <3> QED BY <1>1, <1>2, <2>1, <2>4, <3>1 DEF Held, Keeps
  <2> QED BY <2>3, <2>4
<1>3. \A x \in timers' : Held(x)'
  BY <1>2
<1> QED BY <1>1, <1>3 DEF Timers

\* Markers are no timeouts, and a timeout has one supplier.
LEMMA TimeoutFacts ==
  ASSUME Inv
  PROVE  /\ None \notin Timeouts /\ "timed" \notin Timeouts /\ Timeouts \subseteq Actions /\ Timeouts \subseteq DOMAIN Table
         /\ \A x \in Timeouts : Table[x].from[1] \in Promises /\ \A p : DependsOn(Table, x, p) => p = Table[x].from[1]
<1>1. program \in Programs
  BY DEF Inv, TypeOK
<1>2. ASSUME NEW x \in Timeouts
      PROVE  x \in Actions /\ Table[x].from[1] \in Promises /\ DOMAIN Table[x].from = 1 .. 1
  <2>1. x \in DOMAIN Table /\ Table[x].kind = "timeout"
    BY DEF Timeouts
  <2> QED BY <1>1, <2>1, ActionFacts
<1>3. \A i \in 1 .. 1 : i = 1
  OBVIOUS
<1>4. \A x \in Timeouts : \A p : DependsOn(Table, x, p) => p = Table[x].from[1]
  BY <1>2, <1>3 DEF DependsOn
<1> QED BY <1>2, <1>4, PromiseAssumption DEF Timeouts

\* The action of the innermost frame.
LEMMA TopTried ==
  ASSUME Inv, NEW t \in Thread, NEW pc, At(t, pc), pc # "arm"
  PROVE  Tried(Top(t).a)
<1>1. Top(t) = stack[t][1] /\ Top(t).pc = pc /\ Top(t) \in Frame /\ 1 \in 1 .. Len(stack[t])
  BY AtFacts
<1>2. stack[t][1].pc \in PC \ {"arm"}
  BY <1>1 DEF Frame
<1>3. FrameWith(stack, PC \ {"arm"}, stack[t][1].a)
  BY <1>1, <1>2 DEF FrameWith
<1> QED BY <1>1, <1>3 DEF Tried

\* A timeout that is still to be armed was so before.
LEMMA ToArmBack ==
  ASSUME program' = program, \A w \in Client : todo'[w] \subseteq todo[w],
         \A a \in DOMAIN Table : runs'[a] = 0 => runs[a] = 0
  PROVE  \A x : ToArm(x)' => ToArm(x)
<1>1. Table' = Table
  BY DEF Table
<1> QED BY <1>1 DEF ToArm

\* A step that arms nothing and tries nothing for the first time.
LEMMA PassesArmed ==
  ASSUME ArmedOnce, NEW t, NEW d, NEW n, Moves(stack, stack', t, d, n), program' = program, todo' = todo,
         \A a \in DOMAIN Table : runs'[a] = 0 => runs[a] = 0,
         \A i \in 1 .. n : stack'[t][i].pc # "arm" /\ (stack'[t][i].a \in Timeouts => Tried(stack'[t][i].a)),
         \A x \in Timeouts : x \in claimed' \/ StoredAction(x)' => Tried(x)
  PROVE  ArmedOnce'
<1>1. PICK X : X = {}
  OBVIOUS
<1>2. /\ \A i \in 1 .. n : stack'[t][i].pc # "arm" /\ stack'[t][i].a \in Timeouts =>
           Tried(stack'[t][i].a) \/ stack'[t][i].a \in X
      /\ \A x \in Timeouts : x \in claimed' \/ StoredAction(x)' => Tried(x) \/ x \in X
  OBVIOUS
<1>3. \A x \in Timeouts : Tried(x)' => Tried(x) \/ x \in X
  BY <1>2, TriedBack
<1>4. \A x \in Timeouts : Tried(x)' => Tried(x) \/ (~FrameWith(stack', {"arm"}, x) /\ ~ToArm(x)')
  BY <1>1, <1>3
<1>5. \A x \in Timeouts : ToArm(x)' => ToArm(x)
  BY ToArmBack
<1> QED BY <1>4, <1>5, ArmedOnceStep

\* A step that leaves actions alone, and timeouts in the lists.
SameTimeouts ==
  /\ UNCHANGED <<claimed, runs, executing, timers, program, todo>>
  /\ \A p \in Promises : \A x \in Timeouts : Queued(mActions'[p], x) <=> Queued(mActions[p], x)

\* A step that does not deal with timeouts keeps Timed.
LEMMA PlainTimed ==
  ASSUME Inv, Timed, NEW t, NEW d, NEW n, Moves(stack, stack', t, d, n), SameTimeouts,
         \A i \in 1 .. d : stack[t][i].a \in Timeouts => stack[t][i].pc \notin {"then", "addAction", "tryRun", "run"},
         \A i \in 1 .. n : stack'[t][i].pc # "arm" /\ (stack'[t][i].a \in Timeouts => Tried(stack'[t][i].a))
  PROVE  Timed'
<1>1. /\ UNCHANGED <<claimed, runs, executing, timers, program, todo>>
      /\ \A p \in Promises : \A x \in Timeouts : Queued(mActions'[p], x) <=> Queued(mActions[p], x)
  BY DEF SameTimeouts
<1>2. \A x \in Timeouts : StoredAction(x)' => StoredAction(x)
  BY <1>1 DEF StoredAction, Queued
<1>3. ArmedOnce'
  <2>1. \A x \in Timeouts : x \in claimed' \/ StoredAction(x)' => Tried(x)
    BY <1>1, <1>2 DEF Tried
  <2> QED BY <1>1, <2>1, PassesArmed DEF Timed
<1>4. Timers'
  <2>1. timers \subseteq Timeouts
    BY DEF Timed, Timers
  <2>2. \A x \in timers' : x \in Timeouts /\ x \in timers /\ Keeps(t, d, x)
    BY <1>1, <2>1, TimeoutFacts DEF Keeps
  <2> QED BY <1>1, <2>2, TimersStep DEF Timed
<1> QED BY <1>3, <1>4 DEF Timed

\* The place of a frame that is not about to hand on a timeout.
Aside == PC \ {"then", "addAction", "tryRun", "run"}

\* Such a step that pushes no frame.
LEMMA Plain0 ==
  ASSUME Inv, Timed, NEW t \in Thread, NEW pc \in Aside, At(t, pc), Moves(stack, stack', t, 1, 0), SameTimeouts
  PROVE  Timed'
<1>1. stack[t][1].pc = pc
  BY AtFacts
<1>2. /\ \A i \in 1 .. 1 : stack[t][i].pc \notin {"then", "addAction", "tryRun", "run"}
      /\ \A i \in 1 .. 0 : FALSE
  <2>1. \A i \in 1 .. 1 : i = 1
    OBVIOUS
  <2> QED BY <1>1, <2>1 DEF Aside
<1> QED BY <1>2, PlainTimed

\* Such a step that pushes one frame.
LEMMA Plain1 ==
  ASSUME Inv, Timed, NEW t \in Thread, NEW pc \in Aside, At(t, pc), Moves(stack, stack', t, 1, 1), SameTimeouts,
         stack'[t][1].pc # "arm", stack'[t][1].a \in Timeouts => Tried(stack'[t][1].a)
  PROVE  Timed'
<1>1. stack[t][1].pc = pc
  BY AtFacts
<1>2. /\ \A i \in 1 .. 1 : stack[t][i].pc \notin {"then", "addAction", "tryRun", "run"}
      /\ \A i \in 1 .. 1 : stack'[t][i].pc # "arm" /\ (stack'[t][i].a \in Timeouts => Tried(stack'[t][i].a))
  <2>1. \A i \in 1 .. 1 : i = 1
    OBVIOUS
  <2> QED BY <1>1, <2>1 DEF Aside
<1> QED BY <1>2, PlainTimed

\* The actions and the client stay as they are; so do the lists.
LEMMA SameLists ==
  ASSUME mActions' = mActions, UNCHANGED <<claimed, runs, executing, timers, program, todo>>
  PROVE  SameTimeouts
BY DEF SameTimeouts

\* return, and the end of addAction()
LEMMA ReturnTimed ==
  ASSUME Inv, Timed, NEW t \in Thread, Return(t) \/ Unlock(t)
  PROVE  Timed'
<1>1. PICK pc \in {"return", "hold"} : At(t, pc)
  BY DEF Return, Unlock
<1>2. mActions' = mActions /\ UNCHANGED <<claimed, runs, executing, timers, program, todo>>
  BY DEF Return, Unlock, promiseVars, actionVars, clientVars
<1>3. SameTimeouts
  BY <1>2, SameLists
<1>4. pc \in Aside
  BY DEF Aside, PC
<1>5. Moves(stack, stack', t, 1, 0)
  BY ReturnUses DEF Quiet
<1> QED BY <1>1, <1>3, <1>4, <1>5, Plain0

\* The first action that waits is stored.
LEMMA IterateTried ==
  ASSUME Inv, NEW p \in Promises, NEW f, f = Iterate(p)
  PROVE  f.pc # "arm" /\ (f.a \in Timeouts => Tried(f.a))
<1>1. f.pc = "iterate" /\ f.a = IF mActions[p] = <<>> THEN None ELSE Head(mActions[p])
  BY DEF Iterate, Of
<1>2. mActions[p] \in Seq(Actions)
  BY DEF Inv, TypeOK
<1>3. CASE mActions[p] = <<>>
  BY <1>1, <1>3, TimeoutFacts
<1>4. CASE mActions[p] # <<>>
  <2>1. f.a = mActions[p][1] /\ 1 \in 1 .. Len(mActions[p])
    BY <1>1, <1>2, <1>4, HeadTailProperties, LenProperties, EmptySeq
  <2>2. StoredAction(f.a)
    BY <2>1 DEF StoredAction
  <2> QED BY <1>1, <2>2 DEF Tried
<1> QED BY <1>3, <1>4

\* complete() and onComplete()
LEMMA CompleteTimed ==
  ASSUME Inv, Timed, NEW t \in Thread, Complete(t) \/ OnComplete(t)
  PROVE  Timed'
<1>1. PICK p : p = Top(t).p
  OBVIOUS
<1>2. PICK pc \in {"complete", "onComplete"} : At(t, pc)
  BY DEF Complete, OnComplete
<1>3. p \in Promises
  BY <1>1, <1>2, AtFacts DEF Good, Finished
<1>4. mActions' = mActions /\ UNCHANGED <<claimed, runs, executing, timers, program, todo>>
  BY DEF Complete, OnComplete, promiseVars, actionVars, clientVars
<1>5. SameTimeouts
  BY <1>4, SameLists
<1>6. pc \in Aside
  BY DEF Aside, PC
<1>7. CASE Quiet(t, 1, 0)
  BY <1>2, <1>5, <1>6, <1>7, Plain0 DEF Quiet
<1>8. CASE Signals(t, p)
  <2>1. Moves(stack, stack', t, 1, 1) /\ stack'[t][1] = Iterate(p)
    BY <1>8 DEF Signals
  <2>2. stack'[t][1].pc # "arm" /\ (stack'[t][1].a \in Timeouts => Tried(stack'[t][1].a))
    BY <1>3, <2>1, IterateTried
  <2> QED BY <1>2, <1>5, <1>6, <2>1, <2>2, Plain1
<1> QED BY <1>1, <1>7, <1>8, CompleteUses, OnCompleteUses

\* One frame with a marker or the action of the innermost one.
LEMMA PlainPush ==
  ASSUME Inv, Timed, NEW t \in Thread, NEW pc \in Aside \ {"arm"}, At(t, pc), NEW f \in Frame, f.pc # "arm",
         f.a \in {None, "timed", Top(t).a}, stack' = Becomes(t, <<f>>), SameTimeouts
  PROVE  Timed'
<1>1. Moves(stack, stack', t, 1, 1) /\ stack'[t][1] = f
  BY Push1
<1>2. f.a \in Timeouts => Tried(f.a)
  BY TimeoutFacts, TopTried
<1> QED BY <1>1, <1>2, Plain1

\* setResult()
LEMMA SetResultTimed ==
  ASSUME Inv, Timed, NEW t \in Thread, SetResult(t)
  PROVE  Timed'
<1>1. PICK p : p = Top(t).p
  OBVIOUS
<1>2. PICK f : f = Of("onComplete", p, None)
  OBVIOUS
<1>3. At(t, "set") /\ stack' = Becomes(t, <<f>>)
  BY <1>1, <1>2 DEF SetResult, Notice
<1>4. mActions' = mActions /\ UNCHANGED <<claimed, runs, executing, timers, program, todo>>
  BY DEF SetResult, actionVars, clientVars
<1>5. SameTimeouts
  BY <1>4, SameLists
<1>6. p \in Promises
  BY <1>1, <1>3, AtFacts DEF Good
<1>7. f \in Frame /\ f.pc = "onComplete" /\ f.a = None
  BY <1>2, <1>6 DEF Of, Frame, PC, Outcome
<1>8. "set" \in Aside \ {"arm"}
  BY DEF Aside, PC
<1> QED BY <1>3, <1>5, <1>7, <1>8, PlainPush

\* get() and its wait
LEMMA GetTimed ==
  ASSUME Inv, Timed, NEW t \in Thread, Get(t) \/ GetExpires(t) \/ GetExpired(t)
  PROVE  Timed'
<1>1. PICK p : p = Top(t).p
  OBVIOUS
<1>2. PICK a : a = Top(t).a
  OBVIOUS
<1>3. PICK pc \in {"get", "await", "expired"} : At(t, pc)
  BY DEF Get, GetExpires, GetExpired
<1>4. /\ mActions' = mActions /\ UNCHANGED <<claimed, runs, executing, timers, program, todo>>
      /\ \/ stack' = Becomes(t, <<>>) \/ stack' = Becomes(t, <<Of("await", p, a)>>)
         \/ stack' = Becomes(t, <<Of("expired", p, None)>>)
  BY <1>1, <1>2 DEF Get, GetExpires, GetExpired, promiseVars, actionVars, clientVars
<1>5. SameTimeouts
  BY <1>4, SameLists
<1>6. p \in Promises /\ a \in Actions \cup {None, "timed"}
  BY <1>1, <1>2, <1>3, AtFacts DEF Good, Frame
<1>7. pc \in Aside /\ pc \in Aside \ {"arm"}
  BY DEF Aside, PC
<1>8. CASE stack' = Becomes(t, <<>>)
  <2>1. Moves(stack, stack', t, 1, 0)
    BY <1>3, <1>8, Push0
  <2> QED BY <1>3, <1>5, <1>7, <2>1, Plain0
<1>9. CASE stack' = Becomes(t, <<Of("await", p, a)>>)
  <2>1. PICK f : f = Of("await", p, a)
    OBVIOUS
  <2>2. f \in Frame /\ f.pc = "await" /\ f.a = a
    BY <1>6, <2>1 DEF Of, Frame, PC, Outcome
  <2> QED BY <1>2, <1>3, <1>5, <1>7, <1>9, <2>1, <2>2, PlainPush
<1>10. CASE stack' = Becomes(t, <<Of("expired", p, None)>>)
  <2>1. PICK f : f = Of("expired", p, None)
    OBVIOUS
  <2>2. f \in Frame /\ f.pc = "expired" /\ f.a = None
    BY <1>6, <2>1 DEF Of, Frame, PC, Outcome
  <2> QED BY <1>3, <1>5, <1>7, <1>10, <2>1, <2>2, PlainPush
<1> QED BY <1>4, <1>8, <1>9, <1>10

\* The daemon's callback
LEMMA FireTimed ==
  ASSUME Inv, Timed, NEW t \in Thread, Fire(t)
  PROVE  Timed'
<1>1. PICK p : p = Top(t).p
  OBVIOUS
<1>2. PICK out : out = act(Top(t).a).out
  OBVIOUS
<1>3. /\ At(t, "fire") /\ mActions' = mActions /\ UNCHANGED <<claimed, runs, executing, timers, program, todo>>
      /\ stack' = Becomes(t, <<>>) \/ stack' = Becomes(t, <<With("complete", p, None, out)>>)
  BY <1>1, <1>2 DEF Fire, promiseVars, actionVars, clientVars
<1>4. SameTimeouts
  BY <1>3, SameLists
<1>5. p \in Promises /\ Top(t).a \in DOMAIN Table /\ program \in Programs
  BY <1>1, <1>3, AtFacts DEF Good, Inv, TypeOK
<1>6. out \in Outcome
  BY <1>2, <1>5, ActionFacts DEF Done
<1>7. "fire" \in Aside /\ "fire" \in Aside \ {"arm"}
  BY DEF Aside, PC
<1>8. CASE stack' = Becomes(t, <<>>)
  <2>1. Moves(stack, stack', t, 1, 0)
    BY <1>3, <1>8, Push0
  <2> QED BY <1>3, <1>4, <1>7, <2>1, Plain0
<1>9. CASE stack' = Becomes(t, <<With("complete", p, None, out)>>)
  <2>1. PICK f : f = With("complete", p, None, out)
    OBVIOUS
  <2>2. f \in Frame /\ f.pc = "complete" /\ f.a = None
    BY <1>5, <1>6, <2>1 DEF With, Frame, PC
  <2> QED BY <1>3, <1>4, <1>7, <1>9, <2>1, <2>2, PlainPush
<1> QED BY <1>3, <1>8, <1>9

\* andTree()
LEMMA AndTreeTimed ==
  ASSUME Inv, Timed, NEW t \in Thread, AndTree(t)
  PROVE  Timed'
<1>1. PICK a : a = Top(t).a
  OBVIOUS
<1>2. PICK p : p = act(a).from[1]
  OBVIOUS
<1>3. PICK q : q = act(a).from[2]
  OBVIOUS
<1>4. /\ At(t, "andTree") /\ mActions' = mActions /\ UNCHANGED <<claimed, runs, executing, timers, program, todo>>
      /\ stack' = Becomes(t, <<>>) \/ stack' = Becomes(t, <<Of("then", p, a), Of("then", q, a)>>)
  BY <1>1, <1>2, <1>3 DEF AndTree, actionVars, clientVars
<1>5. SameTimeouts
  BY <1>4, SameLists
<1>6. "andTree" \in Aside
  BY DEF Aside, PC
<1>7. CASE stack' = Becomes(t, <<>>)
  <2>1. Moves(stack, stack', t, 1, 0)
    BY <1>4, <1>7, Push0
  <2> QED BY <1>4, <1>5, <1>6, <2>1, Plain0
<1>8. CASE stack' = Becomes(t, <<Of("then", p, a), Of("then", q, a)>>)
  <2>1. a \in DOMAIN Table /\ act(a).kind = "biRelay" /\ program \in Programs
    BY <1>1, <1>4, AtFacts DEF Good, act, Table, Inv, TypeOK
  <2>2. a \in Actions /\ p \in Promises /\ q \in Promises
    BY <1>2, <1>3, <2>1, ActionFacts
  <2>3. PICK f : f = Of("then", p, a)
    OBVIOUS
  <2>4. PICK g : g = Of("then", q, a)
    OBVIOUS
  <2>5. f \in Frame /\ f.pc = "then" /\ f.a = a
    BY <2>2, <2>3 DEF Of, Frame, PC, Outcome
  <2>6. g \in Frame /\ g.pc = "then" /\ g.a = a
    BY <2>2, <2>4 DEF Of, Frame, PC, Outcome
  <2>7. /\ Moves(stack, stack', t, 1, 2)
        /\ \A i \in 1 .. 2 : (i = 1 /\ stack'[t][i] = f) \/ (i = 2 /\ stack'[t][i] = g)
    BY <1>4, <1>8, <2>3, <2>4, <2>5, <2>6, Push2
  <2>8. Tried(a)
    BY <1>1, <1>4, TopTried
  <2>9. \A i \in 1 .. 2 : stack'[t][i].pc # "arm" /\ (stack'[t][i].a \in Timeouts => Tried(stack'[t][i].a))
    BY <2>5, <2>6, <2>7, <2>8
  <2>10. \A i \in 1 .. 1 : stack[t][i].pc \notin {"then", "addAction", "tryRun", "run"}
    <3>1. stack[t][1].pc = "andTree" /\ \A i \in 1 .. 1 : i = 1
      BY <1>4, AtFacts
    <3> QED BY <3>1
  <2> QED BY <1>5, <2>7, <2>9, <2>10, PlainTimed
<1> QED BY <1>4, <1>7, <1>8

\* What anyOf() skips does not hand on timeouts.
LEMMA SkipTimed ==
  ASSUME Inv, Young, Timed, NEW t \in Thread, NEW pc \in {"anyOf", "anyOfDone"}, At(t, pc),
         stack' = SkipAnyOf(t), SameTimeouts
  PROVE  Timed'
<1>1. stack[t] # <<>> /\ Top(t) = stack[t][1] /\ Top(t).pc = pc /\ Len(stack[t]) \in Nat
  BY AtFacts, LenProperties DEF AllGood
<1>2. PICK d \in 1 .. Len(stack[t]) : Moves(stack, stack', t, d, 0)
  BY <1>1, SkipMoves
<1>3. ASSUME NEW i \in 1 .. d, stack[t][i].a \in Timeouts
      PROVE  stack[t][i].pc \notin {"then", "addAction", "tryRun", "run"}
  <2>1. i \in 1 .. Len(stack[t])
    BY <1>1, <1>2
  <2>2. CASE i = 1
    BY <1>1, <2>2
  <2>3. CASE i # 1
    <3>1. WellFormedFrame(program, stack[t][i])
      BY <1>1, <2>1, <2>3, SkipCalm
    <3>2. program.act[stack[t][i].a].kind = "timeout"
      BY <1>3 DEF Timeouts, Table
    <3> QED BY <3>1, <3>2 DEF WellFormedFrame
  <2> QED BY <2>2, <2>3
<1>4. \A i \in 1 .. 0 : FALSE
  OBVIOUS
<1> QED BY <1>2, <1>3, <1>4, PlainTimed

\* anyOf()
LEMMA AnyOfTimed ==
  ASSUME Inv, Young, Timed, NEW t \in Thread, AnyOf(t) \/ AnyOfDone(t)
  PROVE  Timed'
<1>1. PICK pc \in {"anyOf", "anyOfDone"} : At(t, pc)
  BY DEF AnyOf, AnyOfDone
<1>2. /\ mActions' = mActions /\ UNCHANGED <<claimed, runs, executing, timers, program, todo>>
      /\ stack' = Becomes(t, <<>>) \/ stack' = SkipAnyOf(t)
  BY DEF AnyOf, AnyOfDone, promiseVars, actionVars, clientVars
<1>3. SameTimeouts
  BY <1>2, SameLists
<1>4. pc \in Aside
  BY DEF Aside, PC
<1>5. CASE stack' = Becomes(t, <<>>)
  <2>1. Moves(stack, stack', t, 1, 0)
    BY <1>1, <1>5, Push0
  <2> QED BY <1>1, <1>3, <1>4, <2>1, Plain0
<1>6. CASE stack' = SkipAnyOf(t)
  BY <1>1, <1>3, <1>6, SkipTimed
<1> QED BY <1>2, <1>5, <1>6

\* Removing one action leaves the others in the list.
LEMMA OthersStay ==
  ASSUME NEW S, NEW s \in Seq(S), NEW a, NEW x, x # a
  PROVE  Queued(RemoveFirst(s, a), x) <=> Queued(s, x)
<1>1. CASE ~ \E i \in 1 .. Len(s) : s[i] = a
  BY <1>1 DEF RemoveFirst
<1>2. CASE \E i \in 1 .. Len(s) : s[i] = a
  <2> DEFINE I == {i \in 1 .. Len(s) : s[i] = a}
             m == Min(I)
  <2>1. I \subseteq Nat /\ I # {} /\ Len(s) \in Nat
    BY <1>2, LenProperties
  <2>2. SelectInSeq(s, LAMBDA b : b = a) = m
    BY <2>1 DEF SelectInSeq
  <2>3. m \in 1 .. Len(s) /\ s[m] = a
    BY <2>1, FirstPlace
  <2> HIDE DEF m, I
  <2>4. PICK r : r = RemoveFirst(s, a)
    OBVIOUS
  <2>5. r = RemoveAt(s, m)
    BY <1>2, <2>2, <2>4 DEF RemoveFirst
  <2>6. /\ Len(r) = Len(s) - 1
        /\ \A j \in 1 .. Len(s) - 1 : r[j] = IF j < m THEN s[j] ELSE s[j + 1]
    BY <2>3, <2>5, RemoveAtProperties
  <2>7. ASSUME NEW i \in 1 .. Len(r), r[i] = x PROVE Queued(s, x)
    <3>1. i \in 1 .. Len(s) /\ i + 1 \in 1 .. Len(s)
      BY <2>1, <2>6
    <3>2. r[i] = s[i] \/ r[i] = s[i + 1]
      BY <2>6, <2>7
    <3> QED BY <2>7, <3>1, <3>2 DEF Queued
  <2>8. ASSUME NEW i \in 1 .. Len(s), s[i] = x PROVE Queued(r, x)
    <3>1. i # m
      BY <2>3, <2>8
    <3>2. CASE i < m
      <4>1. i \in 1 .. Len(s) - 1
        BY <2>1, <2>3, <3>2
      <4> QED BY <2>6, <2>8, <3>2, <4>1 DEF Queued
    <3>3. CASE i > m
      <4>1. i - 1 \in 1 .. Len(s) - 1 /\ ~ (i - 1 < m) /\ (i - 1) + 1 = i
        BY <2>1, <2>3, <3>3
      <4>2. r[i - 1] = s[i]
        BY <2>6, <4>1
      <4> QED BY <2>6, <2>8, <4>1, <4>2 DEF Queued
    <3>4. m \in Int /\ i \in Int
      BY <2>3
    <3> QED BY <3>1, <3>2, <3>3, <3>4
  <2> QED BY <2>4, <2>7, <2>8 DEF Queued
<1> QED BY <1>1, <1>2

\* removeAction() is for the actions of anyOf().
LEMMA RemoveActionTimed ==
  ASSUME Inv, Timed, NEW t \in Thread, RemoveAction(t)
  PROVE  Timed'
<1>1. PICK p : p = Top(t).p
  OBVIOUS
<1>2. PICK a : a = Top(t).a
  OBVIOUS
<1>3. /\ At(t, "removeAction") /\ UNCHANGED <<claimed, runs, executing, timers, program, todo>>
      /\ mActions' = [mActions EXCEPT ![p] = RemoveFirst(@, a)]
  BY <1>1, <1>2 DEF RemoveAction, actionVars, clientVars
<1>4. p \in Promises /\ a \notin Timeouts
  BY <1>1, <1>2, <1>3, AtFacts DEF Good, Timeouts
<1>5. mActions \in [Promises -> Seq(Actions)]
  BY DEF Inv, TypeOK
<1>6. mActions'[p] = RemoveFirst(mActions[p], a) /\ \A q \in Promises : q # p => mActions'[q] = mActions[q]
  BY <1>3, <1>4, <1>5
<1>7. ASSUME NEW x \in Timeouts PROVE Queued(mActions'[p], x) <=> Queued(mActions[p], x)
  <2>1. x # a /\ mActions[p] \in Seq(Actions)
    BY <1>4, <1>5
  <2> QED BY <1>6, <2>1, OthersStay
<1>8. SameTimeouts
  BY <1>3, <1>6, <1>7 DEF SameTimeouts
<1>9. "removeAction" \in Aside /\ Moves(stack, stack', t, 1, 0)
  BY RemoveActionUses DEF Aside, PC
<1> QED BY <1>3, <1>8, <1>9, Plain0

\* Steps at the innermost frame, with action a: the other timeouts keep their place.
LEMMA OthersKeep ==
  ASSUME Inv, NEW t \in Thread, NEW pc, At(t, pc), NEW a, a = Top(t).a, NEW x, x # a, x \in Timeouts,
         x \in claimed' <=> x \in claimed, Queued(executing, x) => Queued(executing', x),
         \A p \in Promises : Queued(mActions[p], x) => Queued(mActions'[p], x)
  PROVE  Keeps(t, 1, x)
<1>1. \A i \in 1 .. 1 : stack[t][i].a # x
  <2>1. \A i \in 1 .. 1 : i = 1
    OBVIOUS
  <2> QED BY <2>1, AtFacts
<1> QED BY <1>1, TimeoutFacts DEF Keeps

\* A list that grows.
LEMMA AppendQueued ==
  ASSUME NEW S, NEW s \in Seq(S), NEW a \in S
  PROVE  Queued(Append(s, a), a) /\ \A x : (x # a => (Queued(Append(s, a), x) <=> Queued(s, x)))
<1>1. PICK r : r = Append(s, a)
  OBVIOUS
<1>2. /\ Len(s) \in Nat /\ Len(r) = Len(s) + 1 /\ r[Len(s) + 1] = a
      /\ \A i \in 1 .. Len(s) : r[i] = s[i]
  BY <1>1, AppendProperties, LenProperties
<1>3. /\ Len(s) + 1 \in 1 .. Len(r) /\ \A i \in 1 .. Len(s) : i \in 1 .. Len(r)
      /\ \A i \in 1 .. Len(r) : i \in 1 .. Len(s) \/ i = Len(s) + 1
  BY <1>2
<1>4. Queued(r, a)
  BY <1>2, <1>3 DEF Queued
<1>5. \A x : (x # a => (Queued(r, x) <=> Queued(s, x)))
  BY <1>2, <1>3 DEF Queued
<1> QED BY <1>1, <1>4, <1>5

\* A list without its head.
LEMMA TailQueued ==
  ASSUME NEW S, NEW s \in Seq(S), s # <<>>
  PROVE  /\ Queued(s, Head(s)) /\ \A x : Queued(Tail(s), x) => Queued(s, x)
         /\ \A x : x # Head(s) /\ Queued(s, x) => Queued(Tail(s), x)
<1>1. PICK r : r = Tail(s)
  OBVIOUS
<1>2. Len(s) \in Nat /\ Len(s) >= 1
  BY LenProperties, EmptySeq
<1>3. Head(s) = s[1] /\ Len(r) = Len(s) - 1 /\ \A i \in 1 .. Len(s) - 1 : r[i] = s[i + 1]
  BY <1>1, HeadTailProperties
<1>4. /\ 1 \in 1 .. Len(s) /\ \A i \in 1 .. Len(r) : i \in 1 .. Len(s) - 1 /\ i + 1 \in 1 .. Len(s)
      /\ \A i \in 1 .. Len(s) : i # 1 => i - 1 \in 1 .. Len(s) - 1 /\ i - 1 \in 1 .. Len(r) /\ (i - 1) + 1 = i
  BY <1>2, <1>3
<1>5. Queued(s, Head(s)) /\ \A x : Queued(r, x) => Queued(s, x)
  BY <1>3, <1>4 DEF Queued
<1>6. ASSUME NEW x, x # Head(s), Queued(s, x) PROVE Queued(r, x)
  <2>1. PICK i \in 1 .. Len(s) : s[i] = x
    BY <1>6 DEF Queued
  <2>2. i - 1 \in 1 .. Len(r) /\ r[i - 1] = s[i]
    BY <1>3, <1>4, <1>6, <2>1
  <2> QED BY <2>1, <2>2 DEF Queued
<1> QED BY <1>1, <1>5, <1>6

\* isDone() before a dependent is added
LEMMA ThenTimed ==
  ASSUME Inv, Timed, NEW t \in Thread, Then(t)
  PROVE  Timed'
<1>1. PICK p : p = Top(t).p
  OBVIOUS
<1>2. PICK a : a = Top(t).a
  OBVIOUS
<1>3. /\ At(t, "then") /\ mActions' = mActions /\ UNCHANGED <<claimed, runs, executing, timers, program, todo>>
      /\ stack' = Becomes(t, <<Of("tryRun", None, a)>>) \/ stack' = Becomes(t, <<Of("addAction", p, a)>>)
  BY <1>1, <1>2 DEF Then, promiseVars, actionVars, clientVars
<1>4. p \in Promises /\ a \in DOMAIN Table /\ program \in Programs
  BY <1>1, <1>2, <1>3, AtFacts DEF Good, DependsOn, Inv, TypeOK
<1>5. a \in Actions
  BY <1>4, ActionFacts
<1>6. PICK f \in Frame : f.pc \in {"tryRun", "addAction"} /\ f.a = a /\ stack' = Becomes(t, <<f>>)
  <2>1. CASE stack' = Becomes(t, <<Of("tryRun", None, a)>>)
    <3>1. Of("tryRun", None, a) \in Frame /\ Of("tryRun", None, a).pc = "tryRun" /\ Of("tryRun", None, a).a = a
      BY <1>5 DEF Of, Frame, PC, Outcome
    <3> QED BY <2>1, <3>1
  <2>2. CASE stack' = Becomes(t, <<Of("addAction", p, a)>>)
    <3>1. Of("addAction", p, a) \in Frame /\ Of("addAction", p, a).pc = "addAction" /\ Of("addAction", p, a).a = a
      BY <1>4, <1>5 DEF Of, Frame, PC, Outcome
    <3> QED BY <2>2, <3>1
  <2> QED BY <1>3, <2>1, <2>2
<1>7. Moves(stack, stack', t, 1, 1) /\ \A i \in 1 .. 1 : stack'[t][i] = f /\ i = 1
  BY <1>3, <1>6, Push1
<1>8. Tried(a)
  BY <1>2, <1>3, TopTried
<1>9. ArmedOnce'
  <2>1. \A i \in 1 .. 1 : stack'[t][i].pc # "arm" /\ (stack'[t][i].a \in Timeouts => Tried(stack'[t][i].a))
    BY <1>6, <1>7, <1>8
  <2>2. \A x \in Timeouts : x \in claimed' \/ StoredAction(x)' => Tried(x)
    BY <1>3 DEF Tried, StoredAction
  <2> QED BY <1>3, <1>7, <2>1, <2>2, PassesArmed DEF Timed
<1>10. ASSUME NEW x \in timers PROVE x \in Timeouts /\ (Held(x)' \/ Keeps(t, 1, x))
  <2>1. x \in Timeouts
    BY DEF Timed, Timers
  <2>2. CASE x # a
    BY <1>2, <1>3, <2>1, <2>2, OthersKeep
  <2>3. CASE x = a /\ x \in claimed
    <3>1. \A i \in 1 .. 1 : stack[t][i].pc # "run"
      <4>1. stack[t][1].pc = "then" /\ \A i \in 1 .. 1 : i = 1
        BY <1>3, AtFacts
      <4> QED BY <4>1
    <3> QED BY <1>3, <2>1, <2>3, <3>1 DEF Keeps
  <2>4. CASE x = a /\ x \notin claimed
    <3>1. 1 \in 1 .. 1 /\ stack'[t][1].pc \in {"then", "addAction", "tryRun"} /\ stack'[t][1].a = x
      BY <1>6, <1>7, <2>4
    <3>2. FrameWith(stack', {"then", "addAction", "tryRun"}, x)
      BY <1>7, <3>1, WithNew
    <3> QED BY <1>3, <2>1, <2>4, <3>2 DEF Held
  <2> QED BY <2>1, <2>2, <2>3, <2>4
<1>11. Timers'
  BY <1>3, <1>7, <1>10, TimersStep DEF Timed
<1> QED BY <1>9, <1>11 DEF Timed

\* addAction()
LEMMA AddActionTimed ==
  ASSUME Inv, Timed, NEW t \in Thread, AddAction(t)
  PROVE  Timed'
<1>1. PICK p : p = Top(t).p
  OBVIOUS
<1>2. PICK a : a = Top(t).a
  OBVIOUS
<1>3. /\ At(t, "addAction") /\ UNCHANGED <<claimed, runs, executing, timers, program, todo>>
  BY DEF AddAction, actionVars, clientVars
<1>4. p \in Promises /\ a \in DOMAIN Table /\ program \in Programs /\ DependsOn(Table, a, p)
  BY <1>1, <1>2, <1>3, AtFacts DEF Good, DependsOn, Inv, TypeOK
<1>5. a \in Actions /\ mActions \in [Promises -> Seq(Actions)]
  BY <1>4, ActionFacts DEF Inv, TypeOK
<1>6. Tried(a)
  BY <1>2, <1>3, TopTried
<1>7. \A i \in 1 .. 1 : stack[t][i].pc # "run"
  <2>1. stack[t][1].pc = "addAction" /\ \A i \in 1 .. 1 : i = 1
    BY <1>3, AtFacts
  <2> QED BY <2>1
<1>8. timers \subseteq Timeouts
  BY DEF Timed, Timers
<1>9. CASE stack' = Becomes(t, <<Of("tryRun", None, a), Of("hold", p, None)>>) /\ mActions' = mActions
  <2>1. PICK f : f = Of("tryRun", None, a)
    OBVIOUS
  <2>2. PICK g : g = Of("hold", p, None)
    OBVIOUS
  <2>3. f.pc = "tryRun" /\ f \in Frame /\ f.a = a
    BY <1>5, <2>1 DEF Of, Frame, PC, Outcome
  <2>4. g.pc = "hold" /\ g \in Frame /\ g.a = None
    BY <1>4, <2>2 DEF Of, Frame, PC, Outcome
  <2>5. /\ Moves(stack, stack', t, 1, 2) /\ stack'[t][1] = f
        /\ \A i \in 1 .. 2 : (i = 1 /\ stack'[t][i] = f) \/ (i = 2 /\ stack'[t][i] = g)
    BY <1>3, <1>9, <2>1, <2>2, <2>3, <2>4, Push2
  <2>6. ArmedOnce'
    <3>1. \A i \in 1 .. 2 : stack'[t][i].pc # "arm" /\ (stack'[t][i].a \in Timeouts => Tried(stack'[t][i].a))
      BY <1>6, <2>3, <2>4, <2>5, TimeoutFacts
    <3>2. \A x \in Timeouts : x \in claimed' \/ StoredAction(x)' => Tried(x)
      BY <1>3, <1>9 DEF Tried, StoredAction
    <3> QED BY <1>3, <2>5, <3>1, <3>2, PassesArmed DEF Timed
  <2>7. ASSUME NEW x \in timers PROVE Held(x)' \/ Keeps(t, 1, x)
    <3>1. CASE x # a
      BY <1>2, <1>3, <1>8, <1>9, <3>1, OthersKeep
    <3>2. CASE x = a /\ x \in claimed
      BY <1>3, <1>7, <3>2 DEF Keeps
    <3>3. CASE x = a /\ x \notin claimed
      <4>1. 1 \in 1 .. 2 /\ stack'[t][1].pc \in {"then", "addAction", "tryRun"} /\ stack'[t][1].a = x
        BY <2>3, <2>5, <3>3
      <4>2. FrameWith(stack', {"then", "addAction", "tryRun"}, x)
        BY <2>5, <4>1, WithNew
      <4> QED BY <1>3, <3>3, <4>2 DEF Held
    <3> QED BY <3>1, <3>2, <3>3
  <2>8. Timers'
    BY <1>3, <1>8, <2>5, <2>7, TimersStep DEF Timed
  <2> QED BY <2>6, <2>8 DEF Timed
<1>10. CASE mActions' = [mActions EXCEPT ![p] = Append(@, a)] /\ stack' = Becomes(t, <<>>)
  <2>1. Moves(stack, stack', t, 1, 0)
    BY <1>3, <1>10, Push0
  <2>2. mActions'[p] = Append(mActions[p], a) /\ \A q \in Promises : q # p => mActions'[q] = mActions[q]
    BY <1>4, <1>5, <1>10
  <2>3. /\ Queued(mActions'[p], a)
        /\ \A q \in Promises : \A x : x # a => (Queued(mActions'[q], x) <=> Queued(mActions[q], x))
    <3>1. mActions[p] \in Seq(Actions)
      BY <1>4, <1>5
    <3>2. Queued(mActions'[p], a) /\ \A x : (x # a => (Queued(mActions'[p], x) <=> Queued(mActions[p], x)))
      BY <1>5, <2>2, <3>1, AppendQueued
    <3> QED BY <2>2, <3>2
  <2>4. \A x : StoredAction(x)' => StoredAction(x) \/ x = a
    BY <1>3, <2>3 DEF StoredAction, Queued
  <2>5. ArmedOnce'
    <3>1. \A x \in Timeouts : x \in claimed' \/ StoredAction(x)' => Tried(x)
      BY <1>3, <1>6, <2>4 DEF Tried
    <3>2. \A i \in 1 .. 0 : FALSE
      OBVIOUS
    <3> QED BY <1>3, <2>1, <3>1, <3>2, PassesArmed DEF Timed
  <2>6. ASSUME NEW x \in timers PROVE Held(x)' \/ Keeps(t, 1, x)
    <3>1. CASE x # a
      BY <1>2, <1>3, <1>8, <2>3, <3>1, OthersKeep
    <3>2. CASE x = a /\ x \in claimed
      BY <1>3, <1>7, <3>2 DEF Keeps
    <3>3. CASE x = a /\ x \notin claimed
      <4>1. Table' = Table /\ p = Table[x].from[1]
        BY <1>3, <1>4, <1>8, <3>3, TimeoutFacts DEF Table
      <4>2. Queued(mActions'[Table'[x].from[1]], x) /\ x \notin claimed'
        BY <1>3, <2>3, <3>3, <4>1
      <4> QED BY <4>2 DEF Held
    <3> QED BY <3>1, <3>2, <3>3
  <2>7. Timers'
    BY <1>3, <1>8, <2>1, <2>6, TimersStep DEF Timed
  <2> QED BY <2>5, <2>7 DEF Timed
<1> QED BY <1>1, <1>2, <1>9, <1>10 DEF AddAction

\* The loop of runActions()
LEMMA RunActionsTimed ==
  ASSUME Inv, Timed, NEW t \in Thread, RunActions(t)
  PROVE  Timed'
<1>1. PICK p : p = Top(t).p
  OBVIOUS
<1>2. PICK a : a = Top(t).a
  OBVIOUS
<1>3. At(t, "iterate") /\ UNCHANGED <<claimed, runs, executing, timers, program, todo>>
  BY DEF RunActions, actionVars, clientVars
<1>4. p \in Promises
  BY <1>1, <1>3, AtFacts DEF Good, Finished
<1>5. CASE stack' = Becomes(t, <<>>) /\ mActions' = mActions
  <2>1. "iterate" \in Aside /\ SameTimeouts
    BY <1>3, <1>5, SameLists DEF Aside, PC
  <2>2. Moves(stack, stack', t, 1, 0)
    BY <1>3, <1>5, Push0
  <2> QED BY <1>3, <2>1, <2>2, Plain0
<1>6. CASE /\ Contains(mActions[p], a)
           /\ stack' = Becomes(t, <<Of("tryRun", None, a), Of("iterate", p, Following(mActions[p], a))>>)
           /\ mActions' = [mActions EXCEPT ![p] = RemoveFirst(@, a)]
  <2>1. mActions[p] \in Seq(Actions) /\ mActions \in [Promises -> Seq(Actions)]
    BY <1>4 DEF Inv, TypeOK
  <2>2. a \in Actions /\ Tried(a)
    <3>1. PICK i \in 1 .. Len(mActions[p]) : mActions[p][i] = a
      BY <1>6 DEF Contains
    <3> QED BY <1>4, <2>1, <3>1, ElementOfSeq DEF StoredAction, Tried
  <2>3. PICK b : b = Following(mActions[p], a)
    OBVIOUS
  <2>4. b = None \/ (b \in Actions /\ Tried(b))
    BY <1>4, <1>6, <2>1, <2>3, FollowingPlace DEF StoredAction, Tried
  <2>5. PICK f : f = Of("tryRun", None, a)
    OBVIOUS
  <2>6. PICK g : g = Of("iterate", p, b)
    OBVIOUS
  <2>7. f.pc = "tryRun" /\ f \in Frame /\ f.a = a
    BY <2>2, <2>5 DEF Of, Frame, PC, Outcome
  <2>8. g.pc = "iterate" /\ g \in Frame /\ g.a = b
    BY <1>4, <2>4, <2>6 DEF Of, Frame, PC, Outcome
  <2>9. /\ Moves(stack, stack', t, 1, 2) /\ stack'[t][1] = f
        /\ \A i \in 1 .. 2 : (i = 1 /\ stack'[t][i] = f) \/ (i = 2 /\ stack'[t][i] = g)
    BY <1>3, <1>6, <2>3, <2>5, <2>6, <2>7, <2>8, Push2
  <2>10. mActions'[p] = RemoveFirst(mActions[p], a) /\ \A q \in Promises : q # p => mActions'[q] = mActions[q]
    BY <1>4, <1>6, <2>1
  <2>11. \A x : x # a => \A q \in Promises : Queued(mActions'[q], x) <=> Queued(mActions[q], x)
    BY <2>1, <2>10, OthersStay
  <2>12. ArmedOnce'
    <3>1. \A i \in 1 .. 2 : stack'[t][i].pc # "arm" /\ (stack'[t][i].a \in Timeouts => Tried(stack'[t][i].a))
      BY <2>2, <2>4, <2>7, <2>8, <2>9, TimeoutFacts
    <3>2. \A x : x # a /\ StoredAction(x)' => StoredAction(x)
      BY <1>3, <2>11 DEF StoredAction, Queued
    <3>3. \A x \in Timeouts : x \in claimed' \/ StoredAction(x)' => Tried(x)
      BY <1>3, <2>2, <3>2 DEF Tried
    <3> QED BY <1>3, <2>9, <3>1, <3>3, PassesArmed DEF Timed
  <2>13. timers \subseteq Timeouts
    BY DEF Timed, Timers
  <2>14. ASSUME NEW x \in timers PROVE Held(x)' \/ Keeps(t, 1, x)
    <3>1. CASE x # a
      BY <1>2, <1>3, <2>11, <2>13, <3>1, OthersKeep
    <3>2. CASE x = a /\ x \in claimed
      <4>1. stack[t][1].pc = "iterate" /\ \A i \in 1 .. 1 : i = 1
        BY <1>3, AtFacts
      <4>2. \A i \in 1 .. 1 : stack[t][i].pc # "run"
        BY <4>1
      <4> QED BY <1>3, <3>2, <4>2 DEF Keeps
    <3>3. CASE x = a /\ x \notin claimed
      <4>1. 1 \in 1 .. 2 /\ stack'[t][1].pc \in {"then", "addAction", "tryRun"} /\ stack'[t][1].a = x
        BY <2>7, <2>9, <3>3
      <4>2. FrameWith(stack', {"then", "addAction", "tryRun"}, x)
        BY <2>9, <4>1, WithNew
      <4> QED BY <1>3, <3>3, <4>2 DEF Held
    <3> QED BY <3>1, <3>2, <3>3
  <2>15. Timers'
    BY <1>3, <2>9, <2>13, <2>14, TimersStep DEF Timed
  <2> QED BY <2>12, <2>15 DEF Timed
<1> QED BY <1>1, <1>2, <1>5, <1>6 DEF RunActions

\* claim(), and then run() or Executor::execute()
LEMMA ClaimTimed ==
  ASSUME Inv, Timed, NEW t \in Thread, NEW pc \in {"tryRun", "tryRun2"}, At(t, pc), NEW a \in DOMAIN Table,
         a = Top(t).a, Claim(t, a), UNCHANGED <<promiseVars, clientVars>>
  PROVE  Timed'
<1>1. program \in Programs /\ a \in Actions /\ executing \in Seq(Actions) /\ timers \subseteq Timeouts
  BY ActionFacts DEF Inv, TypeOK, Timed, Timers
<1>2. /\ mActions' = mActions /\ UNCHANGED <<runs, timers, program, todo>>
      /\ claimed' = claimed \cup {a}
  BY DEF Claim, promiseVars, clientVars
<1>3. Tried(a)
  BY TopTried
<1>4. \A i \in 1 .. 1 : stack[t][i].pc # "run"
  <2>1. stack[t][1].pc = pc /\ \A i \in 1 .. 1 : i = 1
    BY AtFacts
  <2> QED BY <2>1
<1>5. ASSUME NEW n, Moves(stack, stack', t, 1, n), \A i \in 1 .. n : stack'[t][i].pc # "arm" /\ stack'[t][i].a = a,
             \A x : (x # a => (Queued(executing', x) <=> Queued(executing, x))),
             a \in claimed => (Queued(executing, a) => Queued(executing', a)),
             a \notin claimed => FrameWith(stack', {"run"}, a) \/ Queued(executing', a)
      PROVE  Timed'
  <2>1. \A x : StoredAction(x)' => StoredAction(x) \/ x = a
    BY <1>2, <1>5 DEF StoredAction
  <2>2. \A x \in Timeouts : x \in claimed' \/ StoredAction(x)' => Tried(x)
    BY <1>2, <1>3, <2>1 DEF Tried
  <2>3. ArmedOnce'
    BY <1>2, <1>3, <1>5, <2>2, PassesArmed DEF Timed
  <2>4. ASSUME NEW x \in timers PROVE Held(x)' \/ Keeps(t, 1, x)
    <3>1. CASE x # a
      BY <1>1, <1>2, <1>5, <3>1, OthersKeep
    <3>2. CASE x = a /\ x \in claimed
      BY <1>2, <1>4, <1>5, <3>2 DEF Keeps
    <3>3. CASE x = a /\ x \notin claimed
      BY <1>2, <1>5, <3>3 DEF Held
    <3> QED BY <3>1, <3>2, <3>3
  <2>5. Timers'
    BY <1>1, <1>2, <1>5, <2>4, TimersStep DEF Timed
  <2> QED BY <2>3, <2>5 DEF Timed
<1>6. \A i \in 1 .. 0 : FALSE
  OBVIOUS
<1>7. CASE a \in claimed /\ executing' = executing /\ stack' = Becomes(t, <<>>)
  <2>1. Moves(stack, stack', t, 1, 0)
    BY <1>7, Push0
  <2> QED BY <1>5, <1>6, <1>7, <2>1
<1>8. CASE a \notin claimed /\ executing' = Append(executing, a) /\ stack' = Becomes(t, <<>>)
  <2>1. Moves(stack, stack', t, 1, 0)
    BY <1>8, Push0
  <2>2. Queued(executing', a) /\ \A x : (x # a => (Queued(executing', x) <=> Queued(executing, x)))
    BY <1>1, <1>8, AppendQueued
  <2> QED BY <1>5, <1>6, <1>8, <2>1, <2>2
<1>9. CASE a \notin claimed /\ executing' = executing /\ stack' = Becomes(t, <<Of("run", None, a)>>)
  <2>1. PICK f : f = Of("run", None, a)
    OBVIOUS
  <2>2. f \in Frame /\ f.pc = "run" /\ f.a = a
    BY <1>1, <2>1 DEF Of, Frame, PC, Outcome
  <2>3. Moves(stack, stack', t, 1, 1) /\ stack'[t][1] = f /\ \A i \in 1 .. 1 : stack'[t][i] = f /\ i = 1
    BY <1>9, <2>1, <2>2, Push1
  <2>4. FrameWith(stack', {"run"}, a)
    <3>1. 1 \in 1 .. 1 /\ stack'[t][1].pc \in {"run"} /\ stack'[t][1].a = a
      BY <2>2, <2>3
    <3> QED BY <2>3, <3>1, WithNew
  <2> QED BY <1>5, <1>9, <2>2, <2>3, <2>4
<1> QED BY <1>7, <1>8, <1>9 DEF Claim

\* tryRun() and its second half
LEMMA TryRunTimed ==
  ASSUME Inv, Timed, NEW t \in Thread, TryRun(t) \/ TryRun2(t)
  PROVE  Timed'
<1>1. PICK a : a = Top(t).a
  OBVIOUS
<1>2. PICK pc \in {"tryRun", "tryRun2"} : At(t, pc)
  BY DEF TryRun, TryRun2
<1>3. UNCHANGED <<promiseVars, clientVars>>
  BY DEF TryRun, TryRun2
<1>4. a \in DOMAIN Table /\ program \in Programs
  BY <1>1, <1>2, AtFacts DEF Good, Inv, TypeOK
<1>5. a \in Actions
  BY <1>4, ActionFacts
<1>6. CASE Claim(t, a)
  BY <1>1, <1>2, <1>3, <1>4, <1>6, ClaimTimed
<1>7. CASE ~Claim(t, a)
  <2>1. /\ act(a).kind = "biRelay" /\ UNCHANGED actionVars
        /\ stack' = Becomes(t, <<>>) \/ stack' = Becomes(t, <<Of("tryRun2", None, a)>>)
    <3>1. CASE TryRun(t)
      BY <1>1, <1>7, <3>1 DEF TryRun
    <3>2. CASE TryRun2(t)
      <4>1. act(a).kind = "biRelay"
        <5>1. At(t, "tryRun2")
          BY <3>2 DEF TryRun2
        <5> QED BY <1>1, <5>1, AtFacts DEF Good, act, Table
      <4> QED BY <1>1, <1>7, <3>2, <4>1 DEF TryRun2
    <3> QED BY <3>1, <3>2
  <2>2. a \notin Timeouts
    BY <2>1 DEF Timeouts, act, Table
  <2>3. SameTimeouts
    <3>1. mActions' = mActions /\ UNCHANGED <<claimed, runs, executing, timers, program, todo>>
      BY <1>3, <2>1 DEF promiseVars, actionVars, clientVars
    <3> QED BY <3>1, SameLists
  <2>4. \A i \in 1 .. 1 : stack[t][i].a \notin Timeouts
    <3>1. stack[t][1].a = a /\ \A i \in 1 .. 1 : i = 1
      BY <1>1, <1>2, AtFacts
    <3> QED BY <2>2, <3>1
  <2>5. CASE stack' = Becomes(t, <<>>)
    <3>1. Moves(stack, stack', t, 1, 0) /\ \A i \in 1 .. 0 : FALSE
      BY <1>2, <2>5, Push0
    <3> QED BY <2>3, <2>4, <3>1, PlainTimed
  <2>6. CASE stack' = Becomes(t, <<Of("tryRun2", None, a)>>)
    <3>1. PICK f : f = Of("tryRun2", None, a)
      OBVIOUS
    <3>2. f \in Frame /\ f.pc = "tryRun2" /\ f.a = a
      BY <1>5, <3>1 DEF Of, Frame, PC, Outcome
    <3>3. Moves(stack, stack', t, 1, 1) /\ \A i \in 1 .. 1 : stack'[t][i] = f /\ i = 1
      BY <1>2, <2>6, <3>1, <3>2, Push1
    <3>4. \A i \in 1 .. 1 : stack'[t][i].pc # "arm" /\ stack'[t][i].a \notin Timeouts
      BY <2>2, <3>2, <3>3
    <3> QED BY <2>3, <2>4, <3>3, <3>4, PlainTimed
  <2> QED BY <2>1, <2>5, <2>6
<1> QED BY <1>6, <1>7

\* The looper takes an action
LEMMA ExecuteTimed ==
  ASSUME Inv, Timed, Execute
  PROVE  Timed'
<1>1. PICK a : a = Head(executing)
  OBVIOUS
<1>2. /\ Looper \in Thread /\ stack[Looper] = <<>> /\ executing # <<>> /\ executing' = Tail(executing)
      /\ stack' = [stack EXCEPT ![Looper] = <<Of("run", None, a)>>]
      /\ mActions' = mActions /\ UNCHANGED <<claimed, runs, timers, program, todo>>
  BY <1>1 DEF Execute, Idle, Thread, clientVars, promiseVars
<1>3. executing \in Seq(Actions) /\ timers \subseteq Timeouts
  BY DEF Inv, TypeOK, Timed, Timers
<1>4. /\ Queued(executing, a) /\ \A x : Queued(executing', x) => Queued(executing, x)
      /\ \A x : x # a /\ Queued(executing, x) => Queued(executing', x)
  BY <1>1, <1>2, <1>3, TailQueued
<1>5. a \in Actions /\ a \in claimed
  <2>1. a \in Actions
    BY <1>1, <1>2, <1>3, HeadTailProperties
  <2> QED BY <1>4, <2>1 DEF Inv, Once
<1>6. PICK f : f = Of("run", None, a)
  OBVIOUS
<1>7. f \in Frame /\ f.pc = "run" /\ f.a = a
  BY <1>5, <1>6 DEF Of, Frame, PC, Outcome
<1>8. Moves(stack, stack', Looper, 0, 1) /\ stack'[Looper][1] = f /\ \A i \in 1 .. 1 : stack'[Looper][i] = f /\ i = 1
  BY <1>2, <1>6, <1>7, Start1
<1>9. ArmedOnce'
  <2>1. \A i \in 1 .. 1 : stack'[Looper][i].pc # "arm" /\ (stack'[Looper][i].a \in Timeouts => Tried(stack'[Looper][i].a))
    BY <1>5, <1>7, <1>8 DEF Tried
  <2>2. \A x : StoredAction(x)' => StoredAction(x)
    BY <1>2, <1>4 DEF StoredAction
  <2>3. \A x \in Timeouts : x \in claimed' \/ StoredAction(x)' => Tried(x)
    BY <1>2, <2>2 DEF Tried
  <2> QED BY <1>2, <1>8, <2>1, <2>3, PassesArmed DEF Timed
<1>10. \A i \in 1 .. 0 : FALSE
  OBVIOUS
<1>11. ASSUME NEW x \in timers PROVE Held(x)' \/ Keeps(Looper, 0, x)
  <2>1. CASE x # a
    BY <1>2, <1>4, <1>10, <2>1 DEF Keeps
  <2>2. CASE x = a
    <3>1. 1 \in 1 .. 1 /\ stack'[Looper][1].pc \in {"run"} /\ stack'[Looper][1].a = a
      BY <1>7, <1>8
    <3>2. FrameWith(stack', {"run"}, a)
      BY <1>8, <3>1, WithNew
    <3> QED BY <1>2, <1>5, <2>2, <3>2 DEF Held
  <2> QED BY <2>1, <2>2
<1>12. Timers'
  BY <1>2, <1>3, <1>8, <1>11, TimersStep DEF Timed
<1> QED BY <1>9, <1>12 DEF Timed

\* The daemon takes a callback
LEMMA DueTimed ==
  ASSUME Inv, Timed, NEW a \in Actions, Due(a)
  PROVE  Timed'
<1>1. PICK p : p = act(a).from[1]
  OBVIOUS
<1>2. /\ Daemon \in Thread /\ stack[Daemon] = <<>> /\ a \in timers /\ timers' = timers \ {a}
      /\ stack' = [stack EXCEPT ![Daemon] = <<Of("fire", p, a)>>]
      /\ mActions' = mActions /\ UNCHANGED <<claimed, runs, executing, program, todo>>
  BY <1>1 DEF Due, Idle, Thread, clientVars, promiseVars
<1>3. timers \subseteq Timeouts /\ a \in DOMAIN Table /\ program \in Programs
  BY <1>2 DEF Timed, Timers, Inv, Stored, TypeOK
<1>4. p \in Promises
  BY <1>1, <1>3, ActionFacts
<1>5. PICK f : f = Of("fire", p, a)
  OBVIOUS
<1>6. f \in Frame /\ f.pc = "fire" /\ f.a = a
  BY <1>4, <1>5 DEF Of, Frame, PC, Outcome
<1>7. Moves(stack, stack', Daemon, 0, 1) /\ \A i \in 1 .. 1 : stack'[Daemon][i] = f /\ i = 1
  BY <1>2, <1>5, <1>6, Start1
<1>8. StoredAction(a) /\ \A x : StoredAction(x)' => StoredAction(x)
  BY <1>2 DEF StoredAction
<1>9. ArmedOnce'
  <2>1. \A i \in 1 .. 1 : stack'[Daemon][i].pc # "arm" /\ (stack'[Daemon][i].a \in Timeouts => Tried(stack'[Daemon][i].a))
    BY <1>6, <1>7, <1>8 DEF Tried
  <2>2. \A x \in Timeouts : x \in claimed' \/ StoredAction(x)' => Tried(x)
    BY <1>2, <1>8 DEF Tried
  <2> QED BY <1>2, <1>7, <2>1, <2>2, PassesArmed DEF Timed
<1>10. \A i \in 1 .. 0 : FALSE
  OBVIOUS
<1>11. \A x \in timers' : x \in timers /\ x \in Timeouts /\ Keeps(Daemon, 0, x)
  BY <1>2, <1>3, <1>10 DEF Keeps
<1>12. Timers'
  BY <1>2, <1>7, <1>11, TimersStep DEF Timed
<1> QED BY <1>9, <1>12 DEF Timed

\* A callback is posted, with an action that will remove it
LEMMA ArmTimed ==
  ASSUME Inv, Timed, NEW t \in Thread, Arm(t)
  PROVE  Timed'
<1>1. PICK p : p = Top(t).p
  OBVIOUS
<1>2. PICK a : a = Top(t).a
  OBVIOUS
<1>3. At(t, "arm") /\ mActions' = mActions /\ UNCHANGED <<claimed, runs, executing, program, todo>>
  BY DEF Arm, promiseVars, clientVars
<1>4. p \in Promises /\ a \in DOMAIN Table /\ program \in Programs
  BY <1>1, <1>2, <1>3, AtFacts DEF Good, DependsOn, Inv, TypeOK
<1>5. CASE stack' = Becomes(t, <<>>) /\ timers' = timers
  <2>1. "arm" \in Aside /\ SameTimeouts
    BY <1>3, <1>5, SameLists DEF Aside, PC
  <2>2. Moves(stack, stack', t, 1, 0)
    BY <1>3, <1>5, Push0
  <2> QED BY <1>3, <2>1, <2>2, Plain0
<1>6. CASE stack' = Becomes(t, <<Of("then", p, a)>>) /\ timers' = timers \cup {a}
  <2>1. a \in Actions
    BY <1>4, ActionFacts
  <2>2. PICK f : f = Of("then", p, a)
    OBVIOUS
  <2>3. f \in Frame /\ f.pc = "then" /\ f.a = a
    BY <1>4, <2>1, <2>2 DEF Of, Frame, PC, Outcome
  <2>4. Moves(stack, stack', t, 1, 1) /\ stack'[t][1] = f /\ \A i \in 1 .. 1 : stack'[t][i] = f /\ i = 1
    BY <1>3, <1>6, <2>2, <2>3, Push1
  <2>5. 1 \in 1 .. Len(stack[t]) /\ stack[t][1].pc = "arm" /\ stack[t][1].a = a
    BY <1>2, <1>3, AtFacts
  <2>6. FrameWith(stack, {"arm"}, a)
    BY <2>5 DEF FrameWith
  <2>7. a \in Timeouts /\ ~Tried(a) /\ ~ToArm(a) /\ ArmedOnce /\ timers \subseteq Timeouts
    BY <2>6 DEF Timed, ArmedOnce, Timers
  <2>8. ~FrameWith(stack', {"arm"}, a)
    <3>1. SUFFICES ASSUME NEW u \in Thread, NEW i \in 1 .. Len(stack'[u]), stack'[u][i].pc = "arm", stack'[u][i].a = a
                   PROVE  FALSE
      BY DEF FrameWith
    <3>2. CASE u = t /\ i <= 1
      <4>1. i \in 1 .. 1
        BY <3>2
      <4> QED BY <2>3, <2>4, <3>1, <3>2, <4>1
    <3>3. CASE ~ (u = t /\ i <= 1)
      <4>1. PICK j \in 1 .. Len(stack[u]) : Alike(stack'[u][i], stack[u][j]) /\ (u = t => j > 1)
        BY <2>4, <3>3, MovesFrom
      <4>2. stack[u][j].pc = "arm" /\ stack[u][j].a = a
        BY <3>1, <4>1 DEF Alike
      <4>3. u = t /\ j = 1
        BY <2>5, <2>7, <4>1, <4>2 DEF ArmedOnce
      <4> QED BY <4>1, <4>3
    <3> QED BY <3>2, <3>3
  <2>9. \A x : ToArm(x)' => ToArm(x)
    <3>1. \A w \in Client : todo'[w] \subseteq todo[w]
      BY <1>3
    <3>2. \A b \in DOMAIN Table : runs'[b] = 0 => runs[b] = 0
      BY <1>3
    <3> QED BY <1>3, <3>1, <3>2, ToArmBack
  <2>10. ArmedOnce'
    <3>1. PICK X : X = {a}
      OBVIOUS
    <3>2. \A x \in Timeouts : Tried(x)' => Tried(x) \/ x \in X
      <4>1. \A i \in 1 .. 1 : stack'[t][i].pc # "arm" /\ stack'[t][i].a \in Timeouts =>
              Tried(stack'[t][i].a) \/ stack'[t][i].a \in X
        BY <2>3, <2>4, <3>1
      <4>2. \A x : StoredAction(x)' => StoredAction(x) \/ x = a
        BY <1>3, <1>6 DEF StoredAction
      <4>3. \A x \in Timeouts : x \in claimed' \/ StoredAction(x)' => Tried(x) \/ x \in X
        BY <1>3, <3>1, <4>2 DEF Tried
      <4> QED BY <1>3, <2>4, <4>1, <4>3, TriedBack
    <3>3. \A x \in Timeouts : Tried(x)' => Tried(x) \/ (~FrameWith(stack', {"arm"}, x) /\ ~ToArm(x)')
      BY <2>7, <2>8, <2>9, <3>1, <3>2
    <3>4. \A i \in 1 .. 1 : stack'[t][i].pc # "arm"
      BY <2>3, <2>4
    <3> QED BY <1>3, <2>4, <2>7, <2>9, <3>3, <3>4, ArmedOnceStep
  <2>11. ASSUME NEW x \in timers' PROVE x \in Timeouts /\ (Held(x)' \/ (x \in timers /\ Keeps(t, 1, x)))
    <3>1. CASE x # a
      BY <1>2, <1>3, <1>6, <2>7, <3>1, OthersKeep
    <3>2. CASE x = a
      <4>1. 1 \in 1 .. 1 /\ stack'[t][1].pc \in {"then", "addAction", "tryRun"} /\ stack'[t][1].a = x
        BY <2>3, <2>4, <3>2
      <4>2. FrameWith(stack', {"then", "addAction", "tryRun"}, x)
        BY <2>4, <4>1, WithNew
      <4>3. x \notin claimed'
        BY <1>3, <2>7, <3>2 DEF Tried
      <4> QED BY <2>7, <3>2, <4>2, <4>3 DEF Held
    <3> QED BY <3>1, <3>2
  <2>12. Timers'
    BY <1>3, <2>4, <2>11, TimersStep DEF Timed
  <2> QED BY <2>10, <2>12 DEF Timed
<1> QED BY <1>1, <1>2, <1>5, <1>6 DEF Arm

\* What run() goes on with is not about timeouts.
NoTimeouts(fs) == fs \in Seq(Frame) /\ \A i \in 1 .. Len(fs) : fs[i].pc # "arm" /\ fs[i].a \notin Timeouts

\* Frames that do not mention timeouts.
LEMMA NoTimeoutsFacts ==
  /\ NoTimeouts(<<>>)
  /\ \A f \in Frame : f.pc # "arm" /\ f.a \notin Timeouts => NoTimeouts(<<f>>)
  /\ \A f, g \in Frame : f.pc # "arm" /\ f.a \notin Timeouts /\ g.pc # "arm" /\ g.a \notin Timeouts
       => NoTimeouts(<<f, g>>)
<1>1. NoTimeouts(<<>>)
  BY DEF NoTimeouts
<1>2. ASSUME NEW f \in Frame, f.pc # "arm", f.a \notin Timeouts PROVE NoTimeouts(<<f>>)
  <2>1. <<f>> \in Seq(Frame) /\ Len(<<f>>) = 1 /\ <<f>>[1] = f /\ \A i \in 1 .. 1 : i = 1
    OBVIOUS
  <2> QED BY <1>2, <2>1 DEF NoTimeouts
<1>3. ASSUME NEW f \in Frame, NEW g \in Frame, f.pc # "arm", f.a \notin Timeouts, g.pc # "arm", g.a \notin Timeouts
      PROVE  NoTimeouts(<<f, g>>)
  <2>1. /\ <<f, g>> \in Seq(Frame) /\ Len(<<f, g>>) = 2 /\ <<f, g>>[1] = f /\ <<f, g>>[2] = g
        /\ \A i \in 1 .. 2 : i = 1 \/ i = 2
    OBVIOUS
  <2> QED BY <1>3, <2>1 DEF NoTimeouts
<1> QED BY <1>1, <1>2, <1>3

\* An action that is no timeout pushes none.
LEMMA RunFramesTimed ==
  ASSUME Inv, NEW a, Ready(Table, Finished, a), act(a).kind # "timeout", NEW fs \in RunFrames(a)
  PROVE  NoTimeouts(fs)
<1>1. TypeOK /\ program \in Programs /\ a \in DOMAIN Table
  BY DEF Inv, TypeOK, Ready
<1>2. PICK o : o = outcome[act(a).from[1]]
  OBVIOUS
<1>3. act(a).to \in Promises /\ act(a).calls \in Promises \cup {None} /\ None \notin Timeouts
  BY <1>1, ActionFacts, TimeoutFacts
<1>4. ASSUME NEW pc \in {"set", "complete"}, NEW p \in Promises, NEW out \in Outcome
      PROVE  With(pc, p, None, out) \in Frame /\ With(pc, p, None, out).pc # "arm" /\ With(pc, p, None, out).a \notin Timeouts
  BY <1>3 DEF With, Frame, PC
<1>5. CASE act(a).kind = "errorRelay" /\ o = Value
  BY <1>2, <1>5, NoTimeoutsFacts DEF RunFrames
<1>6. CASE ~ (act(a).kind = "errorRelay" /\ o = Value)
  <2>1. o \in Outcome /\ Outcomes(a) \subseteq Outcome
    BY <1>1, <1>2, <1>6, RunOutcomes DEF Done
  <2>2. CASE act(a).calls # None
    <3>1. fs = <<With("complete", act(a).calls, None, o), With("set", act(a).to, None, o)>>
      BY <1>2, <1>6, <2>2 DEF RunFrames
    <3> QED BY <1>3, <1>4, <2>1, <2>2, <3>1, NoTimeoutsFacts
  <2>3. CASE act(a).calls = None
    <3>1. PICK out \in Outcomes(a) : fs = <<With("set", act(a).to, None, out)>>
      BY <1>2, <1>6, <2>3 DEF RunFrames
    <3> QED BY <1>3, <1>4, <2>1, <3>1, NoTimeoutsFacts
  <2> QED BY <2>2, <2>3
<1> QED BY <1>5, <1>6

\* Nor does a composition.
LEMMA CompositionFramesTimed ==
  ASSUME Inv, NEW a, Ready(Table, Finished, a), act(a).kind \in {"compose", "biCompose"}, NEW fs \in CompositionFrames(a)
  PROVE  NoTimeouts(fs)
<1>1. TypeOK /\ program \in Programs /\ a \in DOMAIN Table
  BY DEF Inv, TypeOK, Ready
<1>2. PICK b : b = act(a).then
  OBVIOUS
<1>3. act(a).to \in Promises /\ None \notin Timeouts /\ b \in DOMAIN Table /\ b \in Actions /\ act(b).kind = "relay"
  BY <1>1, <1>2, ActionFacts, SecondHalf, TimeoutFacts
<1>4. act(b).from[1] \in Promises /\ b \notin Timeouts
  BY <1>1, <1>3, ActionFacts DEF Timeouts
<1>5. CASE \E out \in Outcomes(a) : fs = <<With("set", act(a).to, None, out)>>
  <2>1. Outcomes(a) \subseteq Outcome
    BY <1>1, RunOutcomes DEF Done
  <2>2. PICK out \in Outcome : fs = <<With("set", act(a).to, None, out)>>
    BY <1>5, <2>1
  <2>3. PICK f : f = With("set", act(a).to, None, out)
    OBVIOUS
  <2>4. f \in Frame /\ f.pc # "arm" /\ f.a \notin Timeouts
    BY <1>3, <2>3 DEF With, Frame, PC
  <2> QED BY <2>2, <2>3, <2>4, NoTimeoutsFacts
<1>6. CASE fs = <<Of("then", act(b).from[1], b)>>
  <2>1. PICK p \in Promises : p = act(b).from[1]
    BY <1>4
  <2>2. PICK f : f = Of("then", p, b)
    OBVIOUS
  <2>3. f \in Frame /\ f.pc = "then" /\ f.a = b
    BY <1>3, <2>2 DEF Of, Frame, PC, Outcome
  <2> QED BY <1>4, <1>6, <2>1, <2>2, <2>3, NoTimeoutsFacts
<1> QED BY <1>2, <1>5, <1>6 DEF CompositionFrames

\* A delay that has not run is all that may arm its timeout.
LEMMA DelayArms ==
  ASSUME Inv, NEW a \in DOMAIN Table, act(a).kind = "delay", NEW b, b = act(a).then
  PROVE  /\ \A d \in DOMAIN Table : Table[d].kind = "delay" /\ Table[d].then = b => d = a
         /\ \A w \in Client : \A c \in todo[w] : \A i \in 1 .. Len(c.frames) : c.frames[i].pc = "arm" => c.frames[i].a # b
<1>1. WellFormed(program) /\ \A w \in Client : todo[w] \subseteq program.ops[w]
  BY MarkerFacts DEF Inv, Stored
<1>2. \A d \in DOMAIN Table : Table[d].kind = "delay" /\ Table[d].then = b => d = a
  <2>1. WellFormedAction(program, a)
    BY <1>1 DEF WellFormed, Table
  <2> QED BY <2>1 DEF WellFormedAction, act, Table
<1>3. ASSUME NEW w \in Client, NEW c \in todo[w], NEW i \in 1 .. Len(c.frames), c.frames[i].pc = "arm"
      PROVE  c.frames[i].a # b
  <2>1. c \in program.ops[w]
    BY <1>1
  <2>2. \A d \in DOMAIN program.act : program.act[d].kind = "delay" => program.act[d].then # c.frames[i].a
    BY <1>1, <1>3, <2>1 DEF WellFormed
  <2> QED BY <2>2 DEF act, Table
<1> QED BY <1>2, <1>3

\* run()
LEMMA RunTimed ==
  ASSUME Inv, Timed, NEW t \in Thread, Run(t)
  PROVE  Timed'
<1>1. PICK a : a = Top(t).a
  OBVIOUS
<1>2. /\ At(t, "run") /\ mActions' = mActions /\ UNCHANGED <<claimed, executing, program, todo>>
      /\ runs' = [runs EXCEPT ![a] = @ + 1]
  BY <1>1 DEF Run, promiseVars, clientVars
<1>3. Ready(Table, Finished, a) /\ a \in DOMAIN Table /\ program \in Programs
  BY <1>1, <1>2, AtFacts DEF Good, Ready, Inv, TypeOK
<1>4. /\ a \in Actions /\ runs \in [Actions -> Nat] /\ DOMAIN Table \subseteq Actions /\ timers \subseteq Timeouts
      /\ stack \in [Thread -> Seq(Frame)] /\ stack[t] # <<>> /\ act(a) = Table[a]
  BY <1>2, <1>3, ActionFacts, AtFacts DEF Inv, TypeOK, Timed, Timers
<1>5. runs[a] = 0
  <2>1. RunsAt(stack[t], 1, a) /\ 1 \in Nat
    BY <1>1, <1>2, AtFacts DEF RunsAt
  <2> QED BY <1>4, <2>1 DEF Inv, Once
<1>6. runs'[a] = 1 /\ \A b \in DOMAIN Table : runs'[b] = 0 => runs[b] = 0
  BY <1>2, <1>4, <1>5
<1>7. \A x : timers' \subseteq timers /\ StoredAction(x)' => StoredAction(x)
  BY <1>2 DEF StoredAction
<1>8. \A x \in Timeouts : (x \in claimed' \/ StoredAction(x)') /\ timers' \subseteq timers => Tried(x)
  BY <1>2, <1>7 DEF Tried
<1>9. ASSUME NEW n, Moves(stack, stack', t, 1, n), timers' \subseteq timers, a \notin timers' PROVE Timers'
  <2>1. \A x \in timers' : x \in Timeouts /\ x \in timers /\ x # a
    BY <1>4, <1>9
  <2>2. ASSUME NEW x \in timers' PROVE Keeps(t, 1, x)
    <3>1. x # a /\ x \in Timeouts
      BY <2>1
    <3> QED BY <1>1, <1>2, <3>1, OthersKeep
  <2> QED BY <1>2, <1>9, <2>1, <2>2, TimersStep DEF Timed
<1>10. CASE act(a).kind = "timeout"
  <2>1. stack' = Becomes(t, <<>>) /\ timers' = timers \ {a}
    BY <1>1, <1>10 DEF Run
  <2>2. Moves(stack, stack', t, 1, 0) /\ timers' \subseteq timers /\ a \notin timers'
    BY <1>2, <2>1, Push0
  <2>3. \A i \in 1 .. 0 : FALSE
    OBVIOUS
  <2>4. ArmedOnce'
    BY <1>2, <1>6, <1>8, <2>2, <2>3, PassesArmed DEF Timed
  <2> QED BY <1>9, <2>2, <2>4 DEF Timed
<1>11. CASE act(a).kind # "timeout"
  <2>1. a \notin Timeouts /\ timers' = timers /\ a \notin timers'
    BY <1>1, <1>4, <1>11 DEF Run, Timeouts
  <2>2. ASSUME NEW fs, NoTimeouts(fs), stack' = Becomes(t, fs) PROVE Timed'
    <3>1. Moves(stack, stack', t, 1, Len(fs)) /\ \A i \in 1 .. Len(fs) : stack'[t][i] = fs[i]
      BY <1>4, <2>2, BecomesMoves DEF NoTimeouts
    <3>2. \A i \in 1 .. Len(fs) : stack'[t][i].pc # "arm" /\ stack'[t][i].a \notin Timeouts
      BY <2>2, <3>1 DEF NoTimeouts
    <3>3. ArmedOnce'
      BY <1>2, <1>6, <1>8, <2>1, <3>1, <3>2, PassesArmed DEF Timed
    <3> QED BY <1>9, <2>1, <3>1, <3>3 DEF Timed
  <2>3. CASE act(a).kind \in {"compose", "biCompose"}
    <3>1. PICK fs \in CompositionFrames(a) : stack' = Becomes(t, fs)
      BY <1>1, <1>11, <2>3 DEF Run
    <3> QED BY <1>3, <2>2, <2>3, <3>1, CompositionFramesTimed
  <2>4. CASE act(a).kind \notin {"compose", "biCompose", "delay"}
    <3>1. PICK fs \in RunFrames(a) : stack' = Becomes(t, fs)
      BY <1>1, <1>11, <2>4 DEF Run
    <3> QED BY <1>3, <1>11, <2>2, <3>1, RunFramesTimed
  <2>5. CASE act(a).kind = "delay"
    <3>1. PICK fs \in DelayAction(a) : stack' = Becomes(t, fs)
      BY <1>1, <1>11, <2>5 DEF Run
    <3>2. CASE fs \in RunFrames(a)
      BY <1>3, <1>11, <2>2, <3>1, <3>2, RunFramesTimed
    <3>3. CASE fs = <<Of("arm", act(a).to, act(a).then)>>
      <4>1. PICK b : b = act(a).then
        OBVIOUS
      <4>2. b \in DOMAIN Table /\ b \in Actions /\ b \in Timeouts /\ act(a).to \in Promises
        BY <1>3, <2>5, <4>1, SecondHalf, ActionFacts DEF Timeouts, act, Table
      <4>3. PICK f : f = Of("arm", act(a).to, b)
        OBVIOUS
      <4>4. f \in Frame /\ f.pc = "arm" /\ f.a = b
        BY <4>2, <4>3 DEF Of, Frame, PC, Outcome
      <4>5. Moves(stack, stack', t, 1, 1) /\ \A i \in 1 .. 1 : stack'[t][i] = f /\ i = 1
        BY <1>2, <3>1, <3>3, <4>1, <4>3, <4>4, Push1
      <4>6. ToArm(b)
        BY <1>3, <1>4, <1>5, <2>5, <4>1 DEF ToArm
      <4>7. ArmedOnce /\ ~Tried(b) /\ ~FrameWith(stack, {"arm"}, b)
        BY <4>2, <4>6 DEF Timed, ArmedOnce
      <4>8. ~ToArm(b)'
        <5>1. Table' = Table
          BY <1>2 DEF Table
        <5>2. \A d \in DOMAIN Table : Table[d].kind = "delay" /\ Table[d].then = b => runs'[d] # 0
          BY <1>3, <1>6, <2>5, <4>1, DelayArms
        <5>3. \A w \in Client : \A c \in todo'[w] : \A i \in 1 .. Len(c.frames) : c.frames[i].pc = "arm" => c.frames[i].a # b
          BY <1>2, <1>3, <2>5, <4>1, DelayArms
        <5> QED BY <5>1, <5>2, <5>3 DEF ToArm
      <4>9. \A x \in Timeouts : Tried(x)' => Tried(x)
        <5>1. PICK X : X = {}
          OBVIOUS
        <5>2. \A i \in 1 .. 1 : stack'[t][i].pc # "arm" /\ stack'[t][i].a \in Timeouts =>
                Tried(stack'[t][i].a) \/ stack'[t][i].a \in X
          BY <4>4, <4>5
        <5>3. \A x \in Timeouts : x \in claimed' \/ StoredAction(x)' => Tried(x) \/ x \in X
          BY <1>8, <2>1
        <5>4. \A x \in Timeouts : Tried(x)' => Tried(x) \/ x \in X
          BY <1>2, <4>5, <5>2, <5>3, TriedBack
        <5> QED BY <5>1, <5>4
      <4>10. \A x \in Timeouts : ToArm(x)' => ToArm(x)
        <5>1. \A w \in Client : todo'[w] \subseteq todo[w]
          BY <1>2
        <5> QED BY <1>2, <1>6, <5>1, ToArmBack
      <4>11. /\ \A i \in 1 .. 1 : stack'[t][i].pc = "arm" =>
                  /\ stack'[t][i].a \in Timeouts /\ ~Tried(stack'[t][i].a)
                  /\ ~FrameWith(stack, {"arm"}, stack'[t][i].a)
                  /\ \A x : x = stack'[t][i].a => ~ToArm(x)'
             /\ \A i, j \in 1 .. 1 : i = j
        <5>1. \A x : x = b => ~ToArm(x)'
          BY <4>8
        <5> QED BY <4>2, <4>4, <4>5, <4>7, <5>1
      <4>12. ArmedOnce'
        BY <1>2, <4>5, <4>7, <4>9, <4>10, <4>11, ArmedOnceStep
      <4> QED BY <1>9, <2>1, <4>5, <4>12 DEF Timed
    <3> QED BY <3>1, <3>2, <3>3 DEF DelayAction
  <2> QED BY <2>3, <2>4, <2>5
<1> QED BY <1>10, <1>11

\* A call begins: what it arms, nobody else will.
LEMMA BeginTimed ==
  ASSUME Inv, Timed, NEW t \in Client, Begin(t)
  PROVE  Timed'
<1>1. PICK c \in todo[t] : stack' = [stack EXCEPT ![t] = c.frames] /\ todo' = [todo EXCEPT ![t] = @ \ {c}]
  BY DEF Begin
<1>2. /\ t \in Thread /\ stack[t] = <<>> /\ stack \in [Thread -> Seq(Frame)] /\ timers \subseteq Timeouts
      /\ mActions' = mActions /\ UNCHANGED <<claimed, runs, executing, timers, program>>
  BY DEF Begin, Idle, Thread, Inv, TypeOK, Timed, Timers, promiseVars, actionVars
<1>3. /\ WellFormed(program) /\ DOMAIN todo = Client
      /\ \A u \in Client : todo[u] \subseteq program.ops[u]
  BY MarkerFacts DEF Inv, Stored
<1>4. PICK s : s = c.frames
  OBVIOUS
<1>5. /\ s \in Seq(Frame) /\ \A i \in 1 .. Len(s) : WellFormedFrame(program, s[i])
      /\ \A i \in 1 .. Len(s) : s[i].pc = "arm" =>
           \A a \in DOMAIN program.act : program.act[a].kind = "delay" => program.act[a].then # s[i].a
      /\ \A u \in Client : \A d \in todo[u] : Separate(program, t, c, u, d)
  BY <1>1, <1>3, <1>4 DEF WellFormed
<1>6. stack'[t] = s /\ stack' \in [Thread -> Seq(Frame)] /\ \A u \in Thread : u # t => stack'[u] = stack[u]
  BY <1>1, <1>2, <1>4, <1>5
<1>7. Moves(stack, stack', t, 0, Len(s))
  <2>1. Len(stack[t]) = 0 /\ Len(s) \in Nat
    BY <1>2, <1>5, LenProperties
  <2>2. Rewrites(stack[t], stack'[t], 0, Len(s))
    BY <1>5, <1>6, <2>1 DEF Rewrites
  <2> QED BY <1>2, <1>6, <2>2 DEF Moves
<1>8. \A u \in Client : todo'[u] \subseteq todo[u] /\ (u = t => c \notin todo'[u])
  BY <1>1, <1>3
<1>9. \A x : ToArm(x)' => ToArm(x)
  <2>1. \A w \in Client : todo'[w] \subseteq todo[w]
    BY <1>8
  <2>2. \A a \in DOMAIN Table : runs'[a] = 0 => runs[a] = 0
    BY <1>2
  <2> QED BY <1>2, <2>1, <2>2, ToArmBack
<1>10. \A i \in 1 .. Len(s) : s[i].pc # "arm" => s[i].a \notin Timeouts
  <2>1. ASSUME NEW i \in 1 .. Len(s), s[i].pc # "arm", s[i].a \in Timeouts PROVE FALSE
    <3>1. WellFormedFrame(program, s[i])
      BY <1>5
    <3>2. program.act[s[i].a].kind = "timeout" /\ s[i].a \notin {None, "timed"}
      BY <2>1, TimeoutFacts DEF Timeouts, Table
    <3> QED BY <2>1, <3>1, <3>2 DEF WellFormedFrame
  <2> QED BY <2>1
<1>11. ASSUME NEW i \in 1 .. Len(s), s[i].pc = "arm", NEW x, x = s[i].a
       PROVE  x \in Timeouts /\ ~Tried(x) /\ ~FrameWith(stack, {"arm"}, x) /\ ~ToArm(x)'
  <2>1. x \in Timeouts
    <3>1. WellFormedFrame(program, s[i])
      BY <1>5
    <3> QED BY <1>11, <3>1 DEF WellFormedFrame, Timeouts, Table
  <2>2. ToArm(x)
    BY <1>1, <1>4, <1>11 DEF ToArm
  <2>3. ~Tried(x) /\ ~FrameWith(stack, {"arm"}, x)
    BY <2>1, <2>2 DEF Timed, ArmedOnce
  <2>4. ASSUME NEW w \in Client, NEW d \in todo'[w], NEW j \in 1 .. Len(d.frames), d.frames[j].pc = "arm"
        PROVE  d.frames[j].a # x
    <3>1. d \in todo[w] /\ ~ (w = t /\ d = c)
      BY <1>8
    <3>2. Separate(program, t, c, w, d)
      BY <1>5, <3>1
    <3> QED BY <1>4, <1>11, <2>4, <3>1, <3>2 DEF Separate
  <2>5. \A a \in DOMAIN Table : Table[a].kind = "delay" => Table[a].then # x
    BY <1>5, <1>11 DEF Table
  <2>6. Table' = Table
    BY <1>2 DEF Table
  <2>7. ~ToArm(x)'
    BY <2>4, <2>5, <2>6 DEF ToArm
  <2> QED BY <2>1, <2>3, <2>7
<1>12. ASSUME NEW i \in 1 .. Len(s), NEW j \in 1 .. Len(s), s[i].pc = "arm", s[j].pc = "arm", s[i].a = s[j].a
       PROVE  i = j
  <2>1. Separate(program, t, c, t, c)
    BY <1>5
  <2> QED BY <1>4, <1>12, <2>1 DEF Separate
<1>13. \A x \in Timeouts : Tried(x)' => Tried(x)
  <2>1. PICK X : X = {}
    OBVIOUS
  <2>2. \A i \in 1 .. Len(s) : stack'[t][i].pc # "arm" /\ stack'[t][i].a \in Timeouts =>
          Tried(stack'[t][i].a) \/ stack'[t][i].a \in X
    BY <1>6, <1>10
  <2>3. \A x \in Timeouts : x \in claimed' \/ StoredAction(x)' => Tried(x) \/ x \in X
    BY <1>2 DEF Tried, StoredAction
  <2>4. \A x \in Timeouts : Tried(x)' => Tried(x) \/ x \in X
    BY <1>2, <1>7, <2>2, <2>3, TriedBack
  <2> QED BY <2>1, <2>4
<1>14. ArmedOnce'
  <2>1. \A i \in 1 .. Len(s) : stack'[t][i].pc = "arm" =>
          /\ stack'[t][i].a \in Timeouts /\ ~Tried(stack'[t][i].a)
          /\ ~FrameWith(stack, {"arm"}, stack'[t][i].a)
          /\ \A x : x = stack'[t][i].a => ~ToArm(x)'
    BY <1>6, <1>11
  <2>2. \A i, j \in 1 .. Len(s) :
          stack'[t][i].pc = "arm" /\ stack'[t][j].pc = "arm" /\ stack'[t][i].a = stack'[t][j].a => i = j
    BY <1>6, <1>12
  <2> QED BY <1>2, <1>7, <1>9, <1>13, <2>1, <2>2, ArmedOnceStep DEF Timed
<1>15. \A x \in timers' : x \in Timeouts /\ x \in timers /\ Keeps(t, 0, x)
  <2>1. \A i \in 1 .. 0 : FALSE
    OBVIOUS
  <2> QED BY <1>2, <2>1 DEF Keeps
<1>16. Timers'
  BY <1>2, <1>7, <1>15, TimersStep DEF Timed
<1> QED BY <1>14, <1>16 DEF Timed

\* At the start there are no timers.
LEMMA InitTimed == Init => Timed
<1> SUFFICES ASSUME Init PROVE Timed
  OBVIOUS
<1>1. /\ \A u \in Thread : Len(stack[u]) = 0 /\ \A i \in 1 .. Len(stack[u]) : FALSE
      /\ Len(executing) = 0 /\ \A i \in 1 .. Len(executing) : FALSE
      /\ \A p \in Promises : mActions[p] = <<>> /\ \A i \in 1 .. Len(mActions[p]) : FALSE
      /\ claimed = {} /\ timers = {}
  BY DEF Init
<1>2. \A pcs, x : ~FrameWith(stack, pcs, x)
  BY <1>1 DEF FrameWith
<1>3. \A x : ~Tried(x)
  BY <1>1, <1>2 DEF Tried, StoredAction, Queued
<1>4. ArmedOnce
  BY <1>1, <1>2, <1>3 DEF ArmedOnce
<1> QED BY <1>1, <1>4 DEF Timed, Timers

\* Every step keeps Timed.
LEMMA NextTimed == Inv /\ Young /\ Timed /\ [Next]_vars => Timed'
<1> SUFFICES ASSUME Inv, Young, Timed, [Next]_vars PROVE Timed'
  OBVIOUS
<1>1. CASE UNCHANGED vars
  <2>1. UNCHANGED <<mActions, claimed, runs, executing, timers, stack, todo, program>>
    BY <1>1 DEF vars, promiseVars, actionVars, clientVars
  <2>2. Table' = Table /\ Timeouts' = Timeouts
    BY <2>1 DEF Timeouts, Table
  <2>3. \A x : (Tried(x)' <=> Tried(x)) /\ (ToArm(x)' <=> ToArm(x)) /\ (Held(x)' <=> Held(x))
    BY <2>1, <2>2 DEF Tried, StoredAction, ToArm, Held
  <2>4. ArmedOnce'
    BY <2>1, <2>2, <2>3 DEF Timed, ArmedOnce
  <2>5. Timers'
    BY <2>1, <2>2, <2>3 DEF Timed, Timers
  <2> QED BY <2>4, <2>5 DEF Timed
<1>2. CASE \E t \in Client : Begin(t)
  BY <1>2, BeginTimed
<1>3. ASSUME NEW t \in Thread, Step(t)
      PROVE  Timed'
  <2>1. CASE Return(t) \/ Unlock(t)
    BY <2>1, ReturnTimed
  <2>2. CASE Complete(t) \/ OnComplete(t)
    BY <2>2, CompleteTimed
  <2>3. CASE RunActions(t)
    BY <2>3, RunActionsTimed
  <2>4. CASE TryRun(t) \/ TryRun2(t)
    BY <2>4, TryRunTimed
  <2>5. CASE Run(t)
    BY <2>5, RunTimed
  <2>6. CASE SetResult(t)
    BY <2>6, SetResultTimed
  <2>7. CASE Then(t)
    BY <2>7, ThenTimed
  <2>8. CASE AddAction(t)
    BY <2>8, AddActionTimed
  <2>9. CASE RemoveAction(t)
    BY <2>9, RemoveActionTimed
  <2>10. CASE AndTree(t)
    BY <2>10, AndTreeTimed
  <2>11. CASE AnyOf(t) \/ AnyOfDone(t)
    BY <2>11, AnyOfTimed
  <2>12. CASE Arm(t)
    BY <2>12, ArmTimed
  <2>13. CASE Fire(t)
    BY <2>13, FireTimed
  <2>14. CASE Get(t) \/ GetExpires(t) \/ GetExpired(t)
    BY <2>14, GetTimed
  <2> QED BY <1>3, <2>1, <2>2, <2>3, <2>4, <2>5, <2>6, <2>7, <2>8, <2>9, <2>10, <2>11,
             <2>12, <2>13, <2>14 DEF Step
<1>4. CASE \E a \in Actions : Due(a)
  BY <1>4, DueTimed
<1>5. CASE Execute
  BY <1>5, ExecuteTimed
<1> QED BY <1>1, <1>2, <1>3, <1>4, <1>5 DEF Next

\* What Timed says of timers.
LEMMA TimedMeaning ==
  ASSUME Inv, Timed
  PROVE  NoTimerLeak
<1>1. SUFFICES ASSUME NEW x \in timers
               PROVE  \/ Contains(mActions[act(x).from[1]], x) \/ Contains(executing, x)
                      \/ \E t \in Thread : \E i \in DOMAIN stack[t] : stack[t][i].a = x
  BY DEF NoTimerLeak
<1>2. \A t \in Thread : DOMAIN stack[t] = 1 .. Len(stack[t])
  BY LenProperties DEF Inv, TypeOK
<1>3. \A pcs : FrameWith(stack, pcs, x) => \E t \in Thread : \E i \in DOMAIN stack[t] : stack[t][i].a = x
  BY <1>2 DEF FrameWith
<1>4. Table[x].from[1] = act(x).from[1] /\ \A q : Queued(q, x) => Contains(q, x)
  BY DEF act, Table, Queued, Contains
<1>5. Held(x)
  BY <1>1 DEF Timed, Timers
<1> QED BY <1>3, <1>4, <1>5 DEF Held

\* As long as the callback of orTimeout(), completeOnTimeout() or a delay is
\* with the daemon, the action that removes it waits for the promise or is on
\* its way to run: a completion never leaves a timeout behind for good.
THEOREM NoTimerLeakHolds == Spec => []NoTimerLeak
<1>1. Init => Inv /\ Young /\ Timed
  BY InitInv, InitYoung, InitTimed
<1>2. Inv /\ Young /\ Timed /\ [Next]_vars => (Inv /\ Young /\ Timed)'
  BY NextInv, NextYoung, NextTimed
<1>3. Inv /\ Timed => NoTimerLeak
  BY TimedMeaning
<1> QED BY <1>1, <1>2, <1>3, PTL DEF Spec
=============================================================================
