---------------------------- MODULE ObjectProofs ----------------------------
(***************************************************************************)
(* Reference counting is safe for any number of threads, and no object is  *)
(* left behind.  The counters are explained by counting references and     *)
(* threads: a strong counter may lag behind by the initial value, which    *)
(* exactly one thread has to take away, and the weak one includes every    *)
(* thread in the middle of an operation.                                   *)
(***************************************************************************)
EXTENDS Object, FiniteSetTheorems, TLAPS

\* Threads that have counted their strong reference and do not have it yet.
Adding == {"first", "tryFirst"}

\* Threads whose operation accounts for one in the weak counter.
Counted == PC \ {"idle", "lastWeak"}

\* Threads whose operation may end with one more strong reference.
Begun == {"incStrong", "first", "tryLoad", "tryCas", "tryFlags", "tryInitial", "tryFirst"}

\* How many threads are at a place of X, p being pc.
NumAt(p, X) == Cardinality({t \in Thread : p[t] \in X})

\* The strong references, as far as they are counted.
Strong == Sum(sps) + NumAt(pc, Adding)

\* Thread t has to take the initial value away.
Taker(t) == pc[t] = "first" \/ (pc[t] = "tryFirst" /\ count[t] = INITIAL)

\* Thread t has dropped the last strong reference and will say so or delete.
Ending(t) == pc[t] \in {"last", "delete"}

\* Thread t has nothing to do with the object.
Unrelated(t) == pc[t] = "idle" /\ sps[t] = 0 /\ wps[t] = 0

\* A thread that begins to take a reference has room for it.
RoomKept ==
  \A t \in Thread : /\ sps[t] + wps[t] <= MaxRefs
                    /\ pc[t] \in Begun => sps[t] + wps[t] < MaxRefs

\* The weak counter counts all references and the operations under way.
WeakCount == mWeak = Sum(sps) + Sum(wps) + NumAt(pc, Counted)

\* The strong counter counts the strong references, plus the initial value until
\* the first reference; if there is one, one thread is to take that value away.
StrongCount ==
  /\ mStrong = Strong \/ mStrong = Strong + INITIAL
  /\ \A t \in Thread : Taker(t) => mStrong = Strong + INITIAL
  /\ \A t, u \in Thread : Taker(t) /\ Taker(u) => t = u
  /\ mStrong = Strong + INITIAL /\ Strong > 0 => \E t \in Thread : Taker(t)

\* Until the object is shared only its maker knows it, and cannot lose it.
Construction ==
  phase # "shared" =>
    /\ object /\ reference
    /\ \A t \in Thread \ {Maker} : Unrelated(t)
    /\ pc[Maker] \in {"idle", "incStrong", "first", "last", "decWeak"}
    /\ pc[Maker] \in {"last", "decWeak"} => wps[Maker] > 0
    /\ phase \in {"attaching", "attached"} => mFlags = "weak"
    /\ phase # "attaching" => pc[Maker] = "idle" /\ sps[Maker] = 0 /\ mStrong = INITIAL

\* incStrongReference() is called for an object that somebody keeps.
Increments ==
  \A t \in Thread : pc[t] = "incStrong" =>
    \/ sps[t] > 0
    \/ t = Maker /\ phase = "attaching"
    \/ /\ t = Maker /\ sps[t] = 0 /\ mStrong = INITIAL
       /\ \A u \in Thread \ {t} : Unrelated(u)

\* The object is there as long as it has to be, and one thread at most deletes it.
Lives ==
  /\ /\ phase # "shared" \/ mWeak > 0
     /\ mFlags = "weak" \/ mStrong > 0 \/ \E t \in Thread : Ending(t)
     => object
  /\ mFlags = "strong" =>
       /\ mStrong = 0 /\ (\A t \in Thread : ~ Ending(t)) => ~ object
       /\ \A t \in Thread : Ending(t) => mStrong = 0
       /\ \A t, u \in Thread : Ending(t) /\ Ending(u) => t = u
  /\ \A t \in Thread : pc[t] = "delete" => mFlags = "strong"

\* The counters are there as long as they have to be, and one thread deletes them.
Ends ==
  /\ phase = "shared" /\ mWeak = 0 /\ (\A t \in Thread : pc[t] # "lastWeak")
       => ~ object /\ ~ reference
  /\ mWeak > 0 \/ (\E t \in Thread : pc[t] = "lastWeak") => reference
  /\ \A t \in Thread : pc[t] = "lastWeak" => phase = "shared" /\ mWeak = 0
  /\ \A t, u \in Thread : pc[t] = "lastWeak" /\ pc[u] = "lastWeak" => t = u

\* A thread that has seen a strong counter of 0 has seen the end, and a lifetime
\* that it has seen is the lifetime for good.
Stale ==
  \A t \in Thread :
    /\ pc[t] \in {"tryCas", "tryFlags", "tryInitial"} /\ count[t] = 0 /\ mFlags = "strong"
         => mStrong = 0
    /\ pc[t] = "tryInitial" => mFlags = "strong"

\* The inductive invariant.
Inv ==
  /\ TypeOK /\ RoomKept /\ WeakCount /\ StrongCount
  /\ Construction /\ Increments /\ Lives /\ Ends /\ Stale

(***************************************************************************)
(* Counting.                                                               *)
(***************************************************************************)
Refs(f) == {r \in Thread \X (1 .. MaxRefs) : r[2] <= f[r[1]]}

\* The references and the threads at a place are finitely many.
LEMMA CountTypes ==
  /\ \A f : IsFiniteSet(Refs(f)) /\ Sum(f) = Cardinality(Refs(f)) /\ Sum(f) \in Nat
  /\ \A p, X : NumAt(p, X) \in Nat /\ IsFiniteSet({t \in Thread : p[t] \in X})
<1>1. IsFiniteSet(1 .. MaxRefs) /\ IsFiniteSet(Thread)
  BY FS_Interval, ObjectAssumption
<1>2. IsFiniteSet(Thread \X (1 .. MaxRefs))
  BY <1>1, FS_Product
<1>3. \A f : Refs(f) \subseteq Thread \X (1 .. MaxRefs)
  BY DEF Refs
<1>4. \A f : IsFiniteSet(Refs(f)) /\ Cardinality(Refs(f)) \in Nat
  BY <1>2, <1>3, FS_Subset, FS_CardinalityType
<1>5. \A p, X : IsFiniteSet({t \in Thread : p[t] \in X})
  <2> TAKE p, X
  <2>1. {t \in Thread : p[t] \in X} \subseteq Thread
    OBVIOUS
  <2> QED BY <1>1, <2>1, FS_Subset
<1>6. \A p, X : NumAt(p, X) \in Nat
  BY <1>5, FS_CardinalityType DEF NumAt
<1> QED BY <1>4, <1>5, <1>6 DEF Sum, Refs

\* One more reference of a thread is one more in all.
LEMMA SumMore ==
  ASSUME NEW f \in [Thread -> 0 .. MaxRefs], NEW t \in Thread, f[t] < MaxRefs
  PROVE  /\ More(f, t) \in [Thread -> 0 .. MaxRefs] /\ Sum(More(f, t)) = Sum(f) + 1
         /\ \A u \in Thread : More(f, t)[u] = IF u = t THEN f[t] + 1 ELSE f[u]
<1>1. MaxRefs \in Nat /\ f[t] + 1 \in 1 .. MaxRefs
  BY ObjectAssumption
<1>2. More(f, t) = [f EXCEPT ![t] = f[t] + 1] /\ More(f, t) \in [Thread -> 0 .. MaxRefs]
  BY <1>1 DEF More
<1>3. Refs(More(f, t)) = Refs(f) \cup {<<t, f[t] + 1>>} /\ <<t, f[t] + 1>> \notin Refs(f)
  BY <1>1, <1>2 DEF Refs
<1>4. Cardinality(Refs(f) \cup {<<t, f[t] + 1>>}) = Cardinality(Refs(f)) + 1
  BY <1>3, CountTypes, FS_AddElement
<1>5. \A u \in Thread : More(f, t)[u] = IF u = t THEN f[t] + 1 ELSE f[u]
  BY <1>2
<1> QED BY <1>2, <1>3, <1>4, <1>5, CountTypes

\* One fewer of a thread is one fewer in all.
LEMMA SumLess ==
  ASSUME NEW f \in [Thread -> 0 .. MaxRefs], NEW t \in Thread, f[t] > 0
  PROVE  /\ Less(f, t) \in [Thread -> 0 .. MaxRefs] /\ Sum(Less(f, t)) = Sum(f) - 1
         /\ \A u \in Thread : Less(f, t)[u] = IF u = t THEN f[t] - 1 ELSE f[u]
<1>1. MaxRefs \in Nat /\ f[t] - 1 \in 0 .. MaxRefs /\ f[t] - 1 < MaxRefs
  BY ObjectAssumption
<1>2. Less(f, t) = [f EXCEPT ![t] = f[t] - 1] /\ Less(f, t) \in [Thread -> 0 .. MaxRefs]
  BY <1>1 DEF Less
<1>3. Less(f, t)[t] < MaxRefs
  BY <1>1, <1>2
<1>4. More(Less(f, t), t) = f
  <2>1. More(Less(f, t), t) \in [Thread -> 0 .. MaxRefs]
    BY <1>2, <1>3, SumMore
  <2>2. \A u \in Thread : More(Less(f, t), t)[u] = f[u]
    BY <1>1, <1>2 DEF More
  <2> QED BY <2>1, <2>2
<1>5. Sum(f) = Sum(Less(f, t)) + 1
  BY <1>2, <1>3, <1>4, SumMore
<1>6. \A u \in Thread : Less(f, t)[u] = IF u = t THEN f[t] - 1 ELSE f[u]
  BY <1>2
<1> QED BY <1>2, <1>5, <1>6, CountTypes

\* The sum is 0 if and only if no thread has a reference.
LEMMA SumZero ==
  ASSUME NEW f \in [Thread -> 0 .. MaxRefs]
  PROVE  Sum(f) = 0 <=> \A t \in Thread : f[t] = 0
<1>1. MaxRefs \in Nat
  BY ObjectAssumption
<1>2. ASSUME NEW t \in Thread, f[t] # 0 PROVE Refs(f) # {}
  <2>1. f[t] \in 0 .. MaxRefs
    OBVIOUS
  <2>2. <<t, 1>> \in Refs(f)
    BY <1>1, <1>2, <2>1 DEF Refs
  <2> QED BY <2>2
<1>3. ASSUME \A t \in Thread : f[t] = 0 PROVE Refs(f) = {}
  BY <1>1, <1>3 DEF Refs
<1> QED BY <1>2, <1>3, CountTypes, FS_EmptySet

\* How a step of one thread changes the number of threads at a place.
LEMMA NumAtGoto ==
  ASSUME NEW p, NEW q, NEW t \in Thread, NEW X, \A u \in Thread : u # t => q[u] = p[u]
  PROVE  NumAt(q, X) + (IF p[t] \in X THEN 1 ELSE 0) = NumAt(p, X) + (IF q[t] \in X THEN 1 ELSE 0)
<1> DEFINE P == {u \in Thread : p[u] \in X}
           R == {u \in Thread : u # t /\ p[u] \in X}
           Q == {u \in Thread : q[u] \in X}
<1>2. /\ P = IF p[t] \in X THEN R \cup {t} ELSE R
      /\ Q = IF q[t] \in X THEN R \cup {t} ELSE R
  OBVIOUS
<1>3. NumAt(p, X) = Cardinality(P) /\ NumAt(q, X) = Cardinality(Q)
  BY DEF NumAt
<1>4. IsFiniteSet(P) /\ R \subseteq P
  BY CountTypes
<1>5. IsFiniteSet(R) /\ t \notin R
  BY <1>4, FS_Subset
<1> HIDE DEF P, Q, R
<1>6. Cardinality(R \cup {t}) = Cardinality(R) + 1 /\ Cardinality(R) \in Nat
  BY <1>5, FS_AddElement, FS_CardinalityType
<1>7. /\ Cardinality(P) = Cardinality(R) + (IF p[t] \in X THEN 1 ELSE 0)
      /\ Cardinality(Q) = Cardinality(R) + (IF q[t] \in X THEN 1 ELSE 0)
  BY <1>2, <1>6
<1> QED BY <1>3, <1>6, <1>7

\* The number is 0 if and only if no thread is there.
LEMMA NumAtZero ==
  ASSUME NEW p, NEW X
  PROVE  NumAt(p, X) = 0 <=> \A t \in Thread : p[t] \notin X
<1> DEFINE P == {t \in Thread : p[t] \in X}
<1>1. IsFiniteSet(P) /\ NumAt(p, X) = Cardinality(P)
  BY CountTypes DEF NumAt
<1>2. P = {} <=> \A t \in Thread : p[t] \notin X
  OBVIOUS
<1> HIDE DEF P
<1> QED BY <1>1, <1>2, FS_EmptySet

\* The initial value is out of reach of the strong references.
LEMMA StrongBound ==
  ASSUME TypeOK
  PROVE  Strong \in Nat /\ Strong < INITIAL
<1> DEFINE A == {t \in Thread : pc[t] \in Adding}
           B == A \X {0}
           U == Thread \X (0 .. MaxRefs)
<1>1. /\ IsFiniteSet(Thread) /\ Cardinality(Thread) \in Nat /\ MaxRefs \in Nat
      /\ INITIAL \in Nat /\ INITIAL > Cardinality(Thread) * (MaxRefs + 1)
  BY ObjectAssumption, FS_CardinalityType
<1>2. IsFiniteSet(0 .. MaxRefs) /\ Cardinality(0 .. MaxRefs) = MaxRefs + 1
  <2>1. 0 \in Int /\ MaxRefs \in Int /\ ~ (0 > MaxRefs)
    BY <1>1
  <2>2. /\ IsFiniteSet(0 .. MaxRefs)
        /\ Cardinality(0 .. MaxRefs) = IF 0 > MaxRefs THEN 0 ELSE MaxRefs - 0 + 1
    BY <2>1, FS_Interval
  <2> QED BY <1>1, <2>2
<1>3. IsFiniteSet(U) /\ Cardinality(U) = Cardinality(Thread) * (MaxRefs + 1)
  BY <1>1, <1>2, FS_Product
<1>4. IsFiniteSet(A) /\ NumAt(pc, Adding) = Cardinality(A) /\ Cardinality(A) \in Nat
  BY CountTypes, FS_CardinalityType DEF NumAt
<1>5. IsFiniteSet({0}) /\ Cardinality({0}) = 1
  BY FS_Singleton
<1>6. IsFiniteSet(B) /\ Cardinality(B) = Cardinality(A)
  <2> HIDE DEF A
  <2>1. IsFiniteSet(A \X {0}) /\ Cardinality(A \X {0}) = Cardinality(A) * Cardinality({0})
    BY <1>4, <1>5, FS_Product
  <2>2. Cardinality(A) * Cardinality({0}) = Cardinality(A)
    BY <1>4, <1>5
  <2> QED BY <2>1, <2>2
<1>7. Refs(sps) \cap B = {} /\ Refs(sps) \cup B \subseteq U
  BY <1>1 DEF Refs
<1>8. IsFiniteSet(Refs(sps)) /\ Sum(sps) = Cardinality(Refs(sps)) /\ Sum(sps) \in Nat
  BY CountTypes
<1>9. Cardinality(Refs(sps) \cup B) <= Cardinality(U)
  <2> HIDE DEF U, B
  <2> QED BY <1>3, <1>7, FS_Subset
<1>10. Cardinality(Refs(sps) \cup B) = Cardinality(Refs(sps)) + Cardinality(B)
  <2> HIDE DEF B
  <2>1. Cardinality(Refs(sps) \cap B) = 0
    BY <1>7, FS_EmptySet
  <2>2. Cardinality(Refs(sps) \cup B)
          = Cardinality(Refs(sps)) + Cardinality(B) - Cardinality(Refs(sps) \cap B)
    BY <1>6, <1>8, FS_Union
  <2> HIDE DEF A
  <2> QED BY <1>4, <1>6, <1>8, <2>1, <2>2
<1>11. Strong = Cardinality(Refs(sps)) + Cardinality(A) /\ Strong \in Nat
  BY <1>4, <1>8 DEF Strong
<1>12. Strong <= Cardinality(U) /\ Cardinality(U) < INITIAL /\ Cardinality(U) \in Nat
  <2>1. Cardinality(U) \in Nat
    BY <1>3, FS_CardinalityType
  <2> HIDE DEF U, A, B
  <2>2. Strong <= Cardinality(U)
    BY <1>6, <1>9, <1>10, <1>11
  <2> QED BY <1>1, <1>3, <2>1, <2>2
<1> QED BY <1>1, <1>11, <1>12

\* What the counts say of single threads.
LEMMA CountFacts ==
  ASSUME Inv
  PROVE  /\ Sum(sps) \in Nat /\ Sum(wps) \in Nat /\ INITIAL \in Nat
         /\ NumAt(pc, Adding) \in Nat /\ NumAt(pc, Counted) \in Nat
         /\ mStrong \in Nat /\ mWeak \in Nat /\ Strong \in Nat /\ Strong < INITIAL
         /\ Strong = Sum(sps) + NumAt(pc, Adding)
         /\ mWeak = Sum(sps) + Sum(wps) + NumAt(pc, Counted)
         /\ mStrong = INITIAL => Strong = 0 /\ mStrong = Strong + INITIAL
         /\ \A t \in Thread :
              /\ sps[t] > 0 => Sum(sps) > 0 /\ Strong > 0 /\ mWeak > 0 /\ mStrong > 0
              /\ wps[t] > 0 => Sum(wps) > 0 /\ mWeak > 0
              /\ pc[t] \in Adding => NumAt(pc, Adding) > 0 /\ Strong > 0 /\ mStrong > 0
              /\ pc[t] \in Counted => NumAt(pc, Counted) > 0 /\ mWeak > 0
              /\ mWeak = 0 => /\ sps[t] = 0 /\ wps[t] = 0
                              /\ pc[t] = "idle" \/ pc[t] = "lastWeak"
              /\ sps[t] \in 0 .. MaxRefs /\ wps[t] \in 0 .. MaxRefs
<1>1. /\ sps \in [Thread -> 0 .. MaxRefs] /\ wps \in [Thread -> 0 .. MaxRefs]
      /\ MaxRefs \in Nat /\ INITIAL \in Nat /\ pc \in [Thread -> PC]
      /\ mStrong \in Nat /\ mWeak \in Nat /\ TypeOK
  BY ObjectAssumption DEF Inv, TypeOK
<1>2. /\ Sum(sps) \in Nat /\ Sum(wps) \in Nat
      /\ NumAt(pc, Adding) \in Nat /\ NumAt(pc, Counted) \in Nat
      /\ Strong \in Nat /\ Strong < INITIAL /\ Strong = Sum(sps) + NumAt(pc, Adding)
      /\ mWeak = Sum(sps) + Sum(wps) + NumAt(pc, Counted)
  BY <1>1, CountTypes, StrongBound DEF Inv, WeakCount, Strong
<1>3. mStrong = Strong \/ mStrong = Strong + INITIAL
  BY DEF Inv, StrongCount
<1>4. mStrong = INITIAL => Strong = 0 /\ mStrong = Strong + INITIAL
  BY <1>1, <1>2, <1>3
<1>5. ASSUME NEW t \in Thread
      PROVE  /\ sps[t] > 0 => Sum(sps) # 0
             /\ wps[t] > 0 => Sum(wps) # 0
             /\ pc[t] \in Adding => NumAt(pc, Adding) # 0
             /\ pc[t] \in Counted => NumAt(pc, Counted) # 0
             /\ sps[t] \in 0 .. MaxRefs /\ wps[t] \in 0 .. MaxRefs
             /\ pc[t] \notin Counted => pc[t] = "idle" \/ pc[t] = "lastWeak"
  BY <1>1, SumZero, NumAtZero DEF Counted
<1> HIDE DEF Strong, Sum, NumAt, Adding, Counted
<1>6. ASSUME NEW t \in Thread
      PROVE  /\ sps[t] > 0 => Sum(sps) > 0 /\ Strong > 0 /\ mWeak > 0 /\ mStrong > 0
             /\ wps[t] > 0 => Sum(wps) > 0 /\ mWeak > 0
             /\ pc[t] \in Adding => NumAt(pc, Adding) > 0 /\ Strong > 0 /\ mStrong > 0
             /\ pc[t] \in Counted => NumAt(pc, Counted) > 0 /\ mWeak > 0
             /\ mWeak = 0 => /\ sps[t] = 0 /\ wps[t] = 0 /\ pc[t] \notin Counted
  BY <1>1, <1>2, <1>3, <1>5
<1> QED BY <1>1, <1>2, <1>4, <1>5, <1>6

\* A step of thread t to place l.
LEMMA GotoFacts ==
  ASSUME Inv, NEW t \in Thread, NEW l \in PC, Goto(t, l)
  PROVE  /\ pc' \in [Thread -> PC] /\ \A u \in Thread : pc'[u] = IF u = t THEN l ELSE pc[u]
         /\ NumAt(pc', Adding) \in Nat /\ NumAt(pc', Counted) \in Nat
         /\ NumAt(pc', Adding) + (IF pc[t] \in Adding THEN 1 ELSE 0)
              = NumAt(pc, Adding) + (IF l \in Adding THEN 1 ELSE 0)
         /\ NumAt(pc', Counted) + (IF pc[t] \in Counted THEN 1 ELSE 0)
              = NumAt(pc, Counted) + (IF l \in Counted THEN 1 ELSE 0)
<1>1. pc \in [Thread -> PC] /\ pc' = [pc EXCEPT ![t] = l]
  BY DEF Inv, TypeOK, Goto
<1>2. pc' \in [Thread -> PC] /\ \A u \in Thread : pc'[u] = IF u = t THEN l ELSE pc[u]
  BY <1>1
<1>3. pc'[t] = l /\ \A u \in Thread : u # t => pc'[u] = pc[u]
  BY <1>2
<1>4. NumAt(pc', Adding) + (IF pc[t] \in Adding THEN 1 ELSE 0)
        = NumAt(pc, Adding) + (IF pc'[t] \in Adding THEN 1 ELSE 0)
  BY <1>3, NumAtGoto
<1>5. NumAt(pc', Counted) + (IF pc[t] \in Counted THEN 1 ELSE 0)
        = NumAt(pc, Counted) + (IF pc'[t] \in Counted THEN 1 ELSE 0)
  BY <1>3, NumAtGoto
<1> HIDE DEF NumAt, Adding, Counted
<1> QED BY <1>2, <1>3, <1>4, <1>5, CountTypes

\* The counts after a step.
LEMMA CountsAfter ==
  /\ Strong' = Sum(sps') + NumAt(pc', Adding)
  /\ WeakCount' <=> mWeak' = Sum(sps') + Sum(wps') + NumAt(pc', Counted)
BY DEF Strong, WeakCount

\* The second half of incStrongReference().
LEMMA AddStrongStep ==
  ASSUME Inv, NEW t \in Thread, AddStrong(t)
  PROVE  Inv'
<1>1. /\ pc[t] = "incStrong" /\ mStrong' = mStrong + 1
      /\ mWeak' = mWeak /\ mFlags' = mFlags /\ object' = object /\ reference' = reference
      /\ phase' = phase /\ count' = count /\ wps' = wps
  BY DEF AddStrong, life
<1>2. TypeOK /\ INITIAL \in Nat /\ MaxRefs \in Nat
  BY ObjectAssumption DEF Inv
<1>3. sps[t] + wps[t] < MaxRefs /\ RoomKept
  BY <1>1 DEF Inv, RoomKept, Begun
<1>4. \A u \in Thread : /\ sps[u] \in 0 .. MaxRefs /\ wps[u] \in 0 .. MaxRefs
                        /\ count[u] \in Nat /\ pc[u] \in PC
  BY <1>2 DEF TypeOK
<1>5. \/ sps[t] > 0 \/ (t = Maker /\ phase = "attaching") \/ mStrong = INITIAL
  BY <1>1 DEF Inv, Increments
<1>6. phase # "shared" => t = Maker /\ phase = "attaching" /\ mFlags = "weak"
  BY <1>1 DEF Inv, Construction, Unrelated
<1> HIDE DEF Strong, Sum, NumAt
<1>7. mWeak > 0 /\ (mStrong > 0 \/ mFlags = "weak") /\ object
  <2>1. mWeak > 0 /\ (mStrong > 0 \/ mFlags = "weak")
    BY <1>1, <1>5, <1>6, CountFacts DEF Counted, PC
  <2> QED BY <1>6, <2>1 DEF Inv, Lives
<1>8. CASE mStrong = INITIAL
  <2>1. Goto(t, "first") /\ sps' = sps
    BY <1>8 DEF AddStrong
  <2>2. /\ pc' \in [Thread -> PC] /\ \A u \in Thread : pc'[u] = IF u = t THEN "first" ELSE pc[u]
        /\ NumAt(pc', Adding) = NumAt(pc, Adding) + 1
        /\ NumAt(pc', Counted) = NumAt(pc, Counted)
    BY <1>1, <2>1, GotoFacts, CountFacts DEF Adding, Counted, PC
  <2>3. Strong = 0 /\ Strong' = 1 /\ mStrong' = Strong' + INITIAL
    BY <1>1, <1>8, <2>1, <2>2, CountFacts, CountsAfter
  <2>4. \A u \in Thread : pc[u] \notin Adding /\ sps[u] = 0
    BY <2>3, CountFacts, <1>4
  <2>5. TypeOK'
    BY <1>1, <1>2, <2>1, <2>2 DEF TypeOK
  <2>6. RoomKept'
    BY <1>1, <1>3, <2>1, <2>2 DEF RoomKept, Begun
  <2>7. WeakCount'
    BY <1>1, <2>1, <2>2, CountFacts, CountsAfter
  <2>8. StrongCount'
    BY <1>2, <2>2, <2>3, <2>4 DEF StrongCount, Taker, Adding
  <2>9. Construction'
    BY <1>1, <1>6, <2>1, <2>2 DEF Inv, Construction, Unrelated
  <2>10. Increments'
    BY <1>1, <1>4, <1>6, <2>1, <2>2, <2>4 DEF Inv, Increments, Construction, Unrelated
  <2>11. Lives'
    BY <1>1, <1>2, <1>7, <1>8, <2>2, CountFacts DEF Inv, Lives, Ending
  <2>12. Ends'
    BY <1>1, <1>7, <2>2 DEF Inv, Ends
  <2>13. Stale'
    BY <1>1, <1>7, <1>8, <2>2, CountFacts DEF Inv, Stale
  <2> QED BY <2>5, <2>6, <2>7, <2>8, <2>9, <2>10, <2>11, <2>12, <2>13 DEF Inv
<1>9. CASE mStrong # INITIAL
  <2>1. Goto(t, "idle") /\ sps' = More(sps, t)
    BY <1>9 DEF AddStrong
  <2>2. /\ pc' \in [Thread -> PC] /\ \A u \in Thread : pc'[u] = IF u = t THEN "idle" ELSE pc[u]
        /\ NumAt(pc', Adding) = NumAt(pc, Adding)
        /\ NumAt(pc', Counted) = NumAt(pc, Counted) - 1
    BY <1>1, <2>1, GotoFacts, CountFacts DEF Adding, Counted, PC
  <2>3. /\ sps' \in [Thread -> 0 .. MaxRefs] /\ Sum(sps') = Sum(sps) + 1
        /\ \A u \in Thread : sps'[u] = IF u = t THEN sps[t] + 1 ELSE sps[u]
    <3>1. sps \in [Thread -> 0 .. MaxRefs] /\ sps[t] < MaxRefs
      BY <1>2, <1>3, <1>4 DEF TypeOK
    <3> QED BY <2>1, <3>1, SumMore
  <2>4. Strong' = Strong + 1
    BY <2>2, <2>3, CountFacts, CountsAfter
  <2>5. TypeOK'
    BY <1>1, <1>2, <2>2, <2>3 DEF TypeOK
  <2>6. RoomKept'
    BY <1>1, <1>2, <1>3, <1>4, <2>2, <2>3 DEF RoomKept, Begun
  <2>7. WeakCount'
    BY <1>1, <2>2, <2>3, CountFacts, CountsAfter
  <2>8. StrongCount'
    BY <1>1, <1>9, <2>2, <2>4, CountFacts DEF Inv, StrongCount, Taker
  <2>9. Construction'
    BY <1>1, <1>6, <2>2, <2>3 DEF Inv, Construction, Unrelated
  <2>10. Increments'
    BY <1>1, <1>4, <2>2, <2>3 DEF Inv, Increments, Construction, Unrelated
  <2>11. Lives'
    BY <1>1, <1>7, <2>2, CountFacts DEF Inv, Lives, Ending
  <2>12. Ends'
    BY <1>1, <1>7, <2>2 DEF Inv, Ends
  <2>13. Stale'
    BY <1>1, <1>7, <2>2, CountFacts DEF Inv, Stale
  <2> QED BY <2>5, <2>6, <2>7, <2>8, <2>9, <2>10, <2>11, <2>12, <2>13 DEF Inv
<1> QED BY <1>8, <1>9

\* The kinds of the values.
LEMMA Kinds ==
  ASSUME Inv
  PROVE  /\ TypeOK /\ RoomKept /\ INITIAL \in Nat /\ INITIAL > 0 /\ MaxRefs \in Nat /\ Maker \in Thread
         /\ \A u \in Thread : /\ sps[u] \in 0 .. MaxRefs /\ wps[u] \in 0 .. MaxRefs
                              /\ count[u] \in Nat /\ pc[u] \in PC
<1>1. Strong \in Nat /\ Strong < INITIAL
  BY CountFacts
<1>2. INITIAL > 0
  BY <1>1, ObjectAssumption
<1> QED BY <1>2, ObjectAssumption DEF Inv, TypeOK

\* The first half of incStrongReference().
LEMMA IncStrongStep ==
  ASSUME Inv, NEW t \in Thread, IncStrong(t)
  PROVE  Inv'
<1>1. /\ pc[t] = "idle" /\ (phase # "shared" => t = Maker) /\ sps[t] + wps[t] < MaxRefs
      /\ Goto(t, "incStrong") /\ mWeak' = mWeak + 1
      /\ phase' = IF phase = "raw" THEN "shared" ELSE phase
      /\ sps[t] > 0 \/ (t = Maker /\ phase \in {"attaching", "raw"})
      /\ mStrong' = mStrong /\ mFlags' = mFlags /\ object' = object /\ reference' = reference
      /\ count' = count /\ sps' = sps /\ wps' = wps
  BY DEF IncStrong, Free, Has, Room, Shared, life, refs
<1> HIDE DEF Strong, Sum, NumAt
<1>2. phase \in {"attaching", "raw"} \/ (phase = "shared" /\ sps[t] > 0)
  BY <1>1, Kinds DEF Inv, Construction, TypeOK
<1>3. object /\ reference /\ \A u \in Thread : pc[u] # "lastWeak"
  BY <1>2, CountFacts DEF Inv, Construction, Lives, Ends
<1>4. /\ pc' \in [Thread -> PC] /\ \A u \in Thread : pc'[u] = IF u = t THEN "incStrong" ELSE pc[u]
      /\ NumAt(pc', Adding) = NumAt(pc, Adding)
      /\ NumAt(pc', Counted) = NumAt(pc, Counted) + 1
  BY <1>1, GotoFacts, CountFacts DEF Adding, Counted, PC
<1>5. Strong' = Strong
  BY <1>1, <1>4, CountFacts, CountsAfter
<1>6. TypeOK'
  BY <1>1, <1>4, Kinds DEF TypeOK
<1>7. RoomKept'
  BY <1>1, <1>4, Kinds DEF RoomKept, Begun
<1>8. WeakCount'
  BY <1>1, <1>4, CountFacts, CountsAfter
<1>9. StrongCount'
  BY <1>1, <1>4, <1>5 DEF Inv, StrongCount, Taker
<1>10. Construction'
  BY <1>1, <1>2, <1>4 DEF Inv, Construction, Unrelated
<1>11. Increments'
  <2>1. ASSUME NEW u \in Thread, u # t, pc[u] = "incStrong"
        PROVE  phase = "shared" /\ sps[u] > 0
    BY <1>1, <1>2, <2>1, Kinds DEF Inv, Increments, Construction, Unrelated
  <2>2. phase = "raw" => /\ t = Maker /\ sps[t] = 0 /\ mStrong = INITIAL
                         /\ \A u \in Thread \ {t} : Unrelated(u)
    BY <1>1 DEF Inv, Construction
  <2> QED BY <1>1, <1>2, <1>4, <2>1, <2>2 DEF Increments, Unrelated
<1>12. Lives'
  BY <1>1, <1>3, <1>4 DEF Inv, Lives, Ending
<1>13. Ends'
  BY <1>1, <1>3, <1>4, CountFacts DEF Ends
<1>14. Stale'
  BY <1>1, <1>4 DEF Inv, Stale
<1> QED BY <1>6, <1>7, <1>8, <1>9, <1>10, <1>11, <1>12, <1>13, <1>14 DEF Inv

\* The first strong reference takes the initial value away.
LEMMA FirstStep ==
  ASSUME Inv, NEW t \in Thread, First(t)
  PROVE  Inv'
<1>1. /\ pc[t] = "first" /\ mStrong' = mStrong - INITIAL
      /\ Goto(t, "idle") /\ sps' = More(sps, t)
      /\ mWeak' = mWeak /\ mFlags' = mFlags /\ object' = object /\ reference' = reference
      /\ phase' = phase /\ count' = count /\ wps' = wps
  BY DEF First, life
<1> HIDE DEF Strong, Sum, NumAt
<1>2. sps[t] + wps[t] < MaxRefs
  BY <1>1, Kinds DEF RoomKept, Begun
<1>3. /\ phase # "shared" => t = Maker /\ phase = "attaching"
      /\ mStrong = Strong + INITIAL /\ \A u \in Thread : Taker(u) => u = t
  BY <1>1 DEF Inv, Construction, Unrelated, StrongCount, Taker
<1>4. mWeak > 0 /\ mStrong > 0 /\ Strong > 0 /\ object
  <2>1. mWeak > 0 /\ mStrong > 0 /\ Strong > 0
    BY <1>1, CountFacts DEF Adding, Counted, PC
  <2> QED BY <2>1 DEF Inv, Lives
<1>5. /\ pc' \in [Thread -> PC] /\ \A u \in Thread : pc'[u] = IF u = t THEN "idle" ELSE pc[u]
      /\ NumAt(pc', Adding) = NumAt(pc, Adding) - 1
      /\ NumAt(pc', Counted) = NumAt(pc, Counted) - 1
  BY <1>1, GotoFacts, CountFacts DEF Adding, Counted, PC
<1>6. /\ sps' \in [Thread -> 0 .. MaxRefs] /\ Sum(sps') = Sum(sps) + 1
      /\ \A u \in Thread : sps'[u] = IF u = t THEN sps[t] + 1 ELSE sps[u]
  <2>1. sps \in [Thread -> 0 .. MaxRefs] /\ sps[t] < MaxRefs
    BY <1>2, Kinds DEF TypeOK
  <2> QED BY <1>1, <2>1, SumMore
<1>7. Strong' = Strong /\ mStrong' = Strong'
  BY <1>1, <1>3, <1>5, <1>6, CountFacts, CountsAfter
<1>8. TypeOK'
  BY <1>1, <1>3, <1>5, <1>6, <1>7, Kinds, CountFacts DEF TypeOK
<1>9. RoomKept'
  BY <1>1, <1>2, <1>5, <1>6, Kinds DEF RoomKept, Begun
<1>10. WeakCount'
  BY <1>1, <1>5, <1>6, CountFacts, CountsAfter
<1>11. StrongCount'
  <2>1. \A u \in Thread : ~ Taker(u)'
    BY <1>1, <1>3, <1>5 DEF Taker
  <2> QED BY <1>7, <2>1, Kinds, CountFacts DEF StrongCount
<1>12. Construction'
  BY <1>1, <1>3, <1>5, <1>6 DEF Inv, Construction, Unrelated
<1>13. Increments'
  BY <1>1, <1>4, <1>5, <1>6, Kinds, CountFacts DEF Inv, Increments
<1>14. Lives'
  BY <1>1, <1>4, <1>5, <1>7 DEF Inv, Lives, Ending
<1>15. Ends'
  BY <1>1, <1>4, <1>5 DEF Inv, Ends
<1>16. Stale'
  BY <1>1, <1>4, <1>5 DEF Inv, Stale
<1> QED BY <1>8, <1>9, <1>10, <1>11, <1>12, <1>13, <1>14, <1>15, <1>16 DEF Inv

\* decStrongReference() decrements the strong counter.
LEMMA DecStrongStep ==
  ASSUME Inv, NEW t \in Thread, DecStrong(t)
  PROVE  Inv'
<1>1. PICK l \in {"last", "decWeak"} :
        /\ l = (IF mStrong = 1 THEN "last" ELSE "decWeak") /\ Goto(t, l)
        /\ pc[t] = "idle" /\ (phase # "shared" => t = Maker) /\ sps[t] > 0
        /\ phase = "attaching" => wps[t] > 0
        /\ sps' = Less(sps, t) /\ mStrong' = mStrong - 1
        /\ mWeak' = mWeak /\ mFlags' = mFlags /\ object' = object /\ reference' = reference
        /\ phase' = phase /\ count' = count /\ wps' = wps
  BY DEF DecStrong, Free, life
<1> HIDE DEF Strong, Sum, NumAt
<1>2. phase # "shared" => t = Maker /\ phase = "attaching" /\ wps[t] > 0
  BY <1>1, Kinds DEF Inv, Construction
<1>3. mWeak > 0 /\ mStrong > 0 /\ Strong > 0 /\ object
  <2>1. mWeak > 0 /\ mStrong > 0 /\ Strong > 0
    BY <1>1, CountFacts
  <2> QED BY <2>1 DEF Inv, Lives
<1>4. /\ pc' \in [Thread -> PC] /\ \A u \in Thread : pc'[u] = IF u = t THEN l ELSE pc[u]
      /\ NumAt(pc', Adding) = NumAt(pc, Adding)
      /\ NumAt(pc', Counted) = NumAt(pc, Counted) + 1
  <2>1. l \in PC /\ l \notin Adding /\ l \in Counted /\ pc[t] \notin Adding /\ pc[t] \notin Counted
    BY <1>1 DEF Adding, Counted, PC
  <2> QED BY <1>1, <2>1, GotoFacts, CountFacts
<1>5. /\ sps' \in [Thread -> 0 .. MaxRefs] /\ Sum(sps') = Sum(sps) - 1
      /\ \A u \in Thread : sps'[u] = IF u = t THEN sps[t] - 1 ELSE sps[u]
  BY <1>1, Kinds, SumLess DEF TypeOK
<1>6. Strong' = Strong - 1
  BY <1>4, <1>5, CountFacts, CountsAfter
<1>7. TypeOK'
  BY <1>1, <1>3, <1>4, <1>5, Kinds, CountFacts DEF TypeOK
<1>8. RoomKept'
  BY <1>1, <1>4, <1>5, Kinds DEF RoomKept, Begun
<1>9. WeakCount'
  BY <1>1, <1>4, <1>5, CountFacts, CountsAfter
<1>10. StrongCount'
  <2>1. \A u \in Thread : Taker(u)' <=> Taker(u)
    BY <1>1, <1>4 DEF Taker
  <2> QED BY <1>1, <1>3, <1>6, <2>1, Kinds, CountFacts DEF Inv, StrongCount
<1>11. Construction'
  BY <1>1, <1>2, <1>4, <1>5 DEF Inv, Construction, Unrelated
<1>12. Increments'
  BY <1>1, <1>4, <1>5, Kinds DEF Inv, Increments, Unrelated
<1>13. Lives'
  <2>1. mFlags = "strong" => \A u \in Thread : ~ Ending(u)
    BY <1>3 DEF Inv, Lives
  <2>2. \A u \in Thread : Ending(u)' <=> IF u = t THEN mStrong = 1 ELSE Ending(u)
    BY <1>1, <1>4 DEF Ending
  <2>3. \A u \in Thread : pc'[u] = "delete" <=> pc[u] = "delete"
    BY <1>1, <1>4
  <2>4. mStrong' = 0 <=> mStrong = 1
    BY <1>1, CountFacts
  <2> QED BY <1>1, <1>3, <2>1, <2>2, <2>3, <2>4 DEF Inv, Lives
<1>14. Ends'
  BY <1>1, <1>3, <1>4 DEF Inv, Ends
<1>15. Stale'
  BY <1>1, <1>3, <1>4 DEF Inv, Stale
<1> QED BY <1>7, <1>8, <1>9, <1>10, <1>11, <1>12, <1>13, <1>14, <1>15 DEF Inv

\* The last strong reference is gone.
LEMMA LastStrongStep ==
  ASSUME Inv, NEW t \in Thread, LastStrong(t)
  PROVE  Inv'
<1>1. PICK l \in {"delete", "decWeak"} :
        /\ l = (IF mFlags = "strong" THEN "delete" ELSE "decWeak") /\ Goto(t, l)
        /\ pc[t] = "last" /\ sps' = sps /\ mStrong' = mStrong
        /\ mWeak' = mWeak /\ mFlags' = mFlags /\ object' = object /\ reference' = reference
        /\ phase' = phase /\ count' = count /\ wps' = wps
  BY DEF LastStrong, life, counters, refs
<1> HIDE DEF Strong, Sum, NumAt
<1>2. phase # "shared" => t = Maker /\ phase = "attaching" /\ mFlags = "weak" /\ l = "decWeak"
  BY <1>1 DEF Inv, Construction, Unrelated
<1>3. /\ pc' \in [Thread -> PC] /\ \A u \in Thread : pc'[u] = IF u = t THEN l ELSE pc[u]
      /\ NumAt(pc', Adding) = NumAt(pc, Adding)
      /\ NumAt(pc', Counted) = NumAt(pc, Counted)
  <2>1. l \in PC /\ l \notin Adding /\ l \in Counted /\ pc[t] \notin Adding /\ pc[t] \in Counted
    BY <1>1 DEF Adding, Counted, PC
  <2> QED BY <1>1, <2>1, GotoFacts, CountFacts
<1>4. Strong' = Strong
  BY <1>1, <1>3, CountFacts, CountsAfter
<1>5. TypeOK'
  BY <1>1, <1>3, Kinds DEF TypeOK
<1>6. RoomKept'
  BY <1>1, <1>3, Kinds DEF RoomKept, Begun
<1>7. WeakCount'
  BY <1>1, <1>3, CountFacts, CountsAfter
<1>8. StrongCount'
  BY <1>1, <1>3, <1>4 DEF Inv, StrongCount, Taker
<1>9. Construction'
  BY <1>1, <1>2, <1>3 DEF Inv, Construction, Unrelated
<1>10. Increments'
  BY <1>1, <1>3 DEF Inv, Increments, Unrelated
<1>11. Lives'
  <2>1. CASE mFlags = "strong"
    <3>1. \A u \in Thread : Ending(u)' <=> Ending(u)
      BY <1>1, <1>3, <2>1 DEF Ending
    <3> QED BY <1>1, <1>3, <2>1, <3>1 DEF Inv, Lives
  <2>2. CASE mFlags # "strong"
    BY <1>1, <1>3, <2>2, Kinds DEF Inv, Lives, TypeOK
  <2> QED BY <2>1, <2>2
<1>12. Ends'
  BY <1>1, <1>3 DEF Inv, Ends
<1>13. Stale'
  BY <1>1, <1>3 DEF Inv, Stale
<1> QED BY <1>5, <1>6, <1>7, <1>8, <1>9, <1>10, <1>11, <1>12, <1>13 DEF Inv

\* The object is deleted; whoever holds a weak reference needs its counters.
LEMMA DeleteStep ==
  ASSUME Inv, NEW t \in Thread, Delete(t)
  PROVE  Inv'
<1> HIDE DEF Strong, Sum, NumAt
<1>1. /\ pc[t] = "delete" /\ object' = FALSE /\ Goto(t, "decWeak")
      /\ reference' = (reference /\ ~ TakesCounters)
      /\ sps' = sps /\ mStrong' = mStrong
      /\ mWeak' = mWeak /\ mFlags' = mFlags
      /\ phase' = phase /\ count' = count /\ wps' = wps
  BY DEF Delete, counters, refs
<1>2. /\ phase = "shared" /\ mFlags = "strong" /\ mStrong = 0
      /\ \A u \in Thread : Ending(u) => u = t
  BY <1>1 DEF Inv, Construction, Unrelated, Lives, Ending
<1>3. ~ TakesCounters /\ reference' = reference
  <2>1. ~ TakesCounters
    BY <1>2, Kinds DEF TakesCounters
  <2> QED BY <1>1, <2>1, Kinds DEF TypeOK
<1>4. /\ pc' \in [Thread -> PC] /\ \A u \in Thread : pc'[u] = IF u = t THEN "decWeak" ELSE pc[u]
      /\ NumAt(pc', Adding) = NumAt(pc, Adding)
      /\ NumAt(pc', Counted) = NumAt(pc, Counted)
  BY <1>1, GotoFacts, CountFacts DEF Adding, Counted, PC
<1>5. Strong' = Strong
  BY <1>1, <1>4, CountFacts, CountsAfter
<1>6. mWeak > 0
  BY <1>1, CountFacts DEF Counted, PC
<1>7. TypeOK'
  BY <1>1, <1>3, <1>4, Kinds DEF TypeOK
<1>8. RoomKept'
  BY <1>1, <1>4, Kinds DEF RoomKept, Begun
<1>9. WeakCount'
  BY <1>1, <1>4, CountFacts, CountsAfter
<1>10. StrongCount'
  BY <1>1, <1>4, <1>5 DEF Inv, StrongCount, Taker
<1>11. Construction'
  BY <1>1, <1>2 DEF Construction
<1>12. Increments'
  BY <1>1, <1>4 DEF Inv, Increments, Unrelated
<1>13. Lives'
  <2>1. \A u \in Thread : ~ Ending(u)'
    BY <1>1, <1>2, <1>4 DEF Ending
  <2>2. \A u \in Thread : pc'[u] = "delete" => mFlags = "strong"
    BY <1>2
  <2> QED BY <1>1, <1>2, <2>1, <2>2 DEF Lives
<1>14. Ends'
  BY <1>1, <1>3, <1>4, <1>6 DEF Inv, Ends
<1>15. Stale'
  BY <1>1, <1>4 DEF Inv, Stale
<1> QED BY <1>7, <1>8, <1>9, <1>10, <1>11, <1>12, <1>13, <1>14, <1>15 DEF Inv

\* incWeakReference().
LEMMA IncWeakStep ==
  ASSUME Inv, NEW t \in Thread, IncWeak(t)
  PROVE  Inv'
<1>1. /\ pc[t] = "idle" /\ (phase # "shared" => t = Maker) /\ sps[t] + wps[t] < MaxRefs
      /\ mWeak' = mWeak + 1 /\ wps' = More(wps, t)
      /\ phase' = IF phase = "raw" THEN "shared" ELSE phase
      /\ sps[t] > 0 \/ (t = Maker /\ phase \in {"attaching", "raw"}) \/ wps[t] > 0
      /\ mStrong' = mStrong /\ mFlags' = mFlags /\ object' = object /\ reference' = reference
      /\ count' = count /\ sps' = sps /\ pc' = pc
  BY DEF IncWeak, Free, Has, Room, Shared, life
<1> HIDE DEF Strong, Sum, NumAt
<1>2. phase # "shared" \/ (phase = "shared" /\ (sps[t] > 0 \/ wps[t] > 0))
  BY <1>1
<1>3. /\ phase = "shared" => mWeak > 0
      /\ reference /\ \A u \in Thread : pc[u] # "lastWeak"
  <2>1. phase = "shared" => mWeak > 0
    BY <1>1, CountFacts
  <2> QED BY <2>1, CountFacts DEF Inv, Construction, Ends
<1>4. /\ wps' \in [Thread -> 0 .. MaxRefs] /\ Sum(wps') = Sum(wps) + 1
      /\ \A u \in Thread : wps'[u] = IF u = t THEN wps[t] + 1 ELSE wps[u]
  <2>1. wps \in [Thread -> 0 .. MaxRefs] /\ wps[t] < MaxRefs
    BY <1>1, Kinds DEF TypeOK
  <2> QED BY <1>1, <2>1, SumMore
<1>5. Strong' = Strong
  BY <1>1, CountFacts, CountsAfter
<1>6. TypeOK'
  BY <1>1, <1>4, Kinds DEF TypeOK
<1>7. RoomKept'
  BY <1>1, <1>4, Kinds DEF RoomKept, Begun
<1>8. WeakCount'
  BY <1>1, <1>4, CountFacts, CountsAfter
<1>9. StrongCount'
  BY <1>1, <1>5 DEF Inv, StrongCount, Taker
<1>10. Construction'
  BY <1>1, <1>4, Kinds DEF Inv, Construction, Unrelated
<1>11. Increments'
  BY <1>1, <1>4, Kinds DEF Inv, Increments, Construction, Unrelated
<1>12. Lives'
  BY <1>1, <1>3 DEF Inv, Lives, Ending
<1>13. Ends'
  BY <1>1, <1>3, CountFacts DEF Ends
<1>14. Stale'
  BY <1>1 DEF Inv, Stale
<1> QED BY <1>6, <1>7, <1>8, <1>9, <1>10, <1>11, <1>12, <1>13, <1>14 DEF Inv

\* A weak reference ends.
LEMMA DropWeakStep ==
  ASSUME Inv, NEW t \in Thread, DropWeak(t)
  PROVE  Inv'
<1>1. /\ pc[t] = "idle" /\ wps[t] > 0 /\ phase = "shared"
      /\ wps' = Less(wps, t) /\ Goto(t, "decWeak")
      /\ mStrong' = mStrong /\ mWeak' = mWeak /\ mFlags' = mFlags
      /\ object' = object /\ reference' = reference
      /\ phase' = phase /\ count' = count /\ sps' = sps
  BY DEF DropWeak, Free, life, counters
<1> HIDE DEF Strong, Sum, NumAt
<1>2. mWeak > 0
  BY <1>1, CountFacts
<1>3. /\ pc' \in [Thread -> PC] /\ \A u \in Thread : pc'[u] = IF u = t THEN "decWeak" ELSE pc[u]
      /\ NumAt(pc', Adding) = NumAt(pc, Adding)
      /\ NumAt(pc', Counted) = NumAt(pc, Counted) + 1
  BY <1>1, GotoFacts, CountFacts DEF Adding, Counted, PC
<1>4. /\ wps' \in [Thread -> 0 .. MaxRefs] /\ Sum(wps') = Sum(wps) - 1
      /\ \A u \in Thread : wps'[u] = IF u = t THEN wps[t] - 1 ELSE wps[u]
  BY <1>1, Kinds, SumLess DEF TypeOK
<1>5. Strong' = Strong
  BY <1>1, <1>3, CountFacts, CountsAfter
<1>6. TypeOK'
  BY <1>1, <1>3, <1>4, Kinds DEF TypeOK
<1>7. RoomKept'
  BY <1>1, <1>3, <1>4, Kinds DEF RoomKept, Begun
<1>8. WeakCount'
  BY <1>1, <1>3, <1>4, CountFacts, CountsAfter
<1>9. StrongCount'
  BY <1>1, <1>3, <1>5 DEF Inv, StrongCount, Taker
<1>10. Construction'
  BY <1>1 DEF Construction
<1>11. Increments'
  BY <1>1, <1>3, <1>4, Kinds DEF Inv, Increments, Unrelated
<1>12. Lives'
  BY <1>1, <1>3 DEF Inv, Lives, Ending
<1>13. Ends'
  BY <1>1, <1>2, <1>3 DEF Inv, Ends
<1>14. Stale'
  BY <1>1, <1>3 DEF Inv, Stale
<1> QED BY <1>6, <1>7, <1>8, <1>9, <1>10, <1>11, <1>12, <1>13, <1>14 DEF Inv

\* decWeakReference() decrements the weak counter.
LEMMA DecWeakStep ==
  ASSUME Inv, NEW t \in Thread, DecWeak(t)
  PROVE  Inv'
<1>1. PICK l \in {"lastWeak", "idle"} :
        /\ l = (IF mWeak = 1 THEN "lastWeak" ELSE "idle") /\ Goto(t, l)
        /\ pc[t] = "decWeak" /\ mWeak' = mWeak - 1
        /\ mStrong' = mStrong /\ mFlags' = mFlags
        /\ object' = object /\ reference' = reference
        /\ phase' = phase /\ count' = count /\ sps' = sps /\ wps' = wps
  BY DEF DecWeak, life, refs
<1> HIDE DEF Strong, Sum, NumAt
<1>2. mWeak > 0 /\ NumAt(pc, Counted) > 0
  BY <1>1, CountFacts DEF Counted, PC
<1>3. phase # "shared" => t = Maker /\ phase = "attaching" /\ mWeak > 1
  <2>1. phase # "shared" => t = Maker /\ phase = "attaching" /\ wps[t] > 0
    BY <1>1 DEF Inv, Construction, Unrelated
  <2> QED BY <1>2, <2>1, CountFacts
<1>4. /\ pc' \in [Thread -> PC] /\ \A u \in Thread : pc'[u] = IF u = t THEN l ELSE pc[u]
      /\ NumAt(pc', Adding) = NumAt(pc, Adding)
      /\ NumAt(pc', Counted) = NumAt(pc, Counted) - 1
  <2>1. l \in PC /\ l \notin Adding /\ l \notin Counted /\ pc[t] \notin Adding /\ pc[t] \in Counted
    BY <1>1 DEF Adding, Counted, PC
  <2>2. /\ pc' \in [Thread -> PC] /\ \A u \in Thread : pc'[u] = IF u = t THEN l ELSE pc[u]
        /\ NumAt(pc', Adding) = NumAt(pc, Adding) /\ NumAt(pc', Counted) + 1 = NumAt(pc, Counted)
        /\ NumAt(pc', Counted) \in Nat
    BY <1>1, <2>1, GotoFacts, CountFacts
  <2> QED BY <2>2, CountFacts
<1>5. Strong' = Strong
  BY <1>1, <1>4, CountFacts, CountsAfter
<1>6. TypeOK'
  BY <1>1, <1>2, <1>4, Kinds, CountFacts DEF TypeOK
<1>7. RoomKept'
  BY <1>1, <1>4, Kinds DEF RoomKept, Begun
<1>8. WeakCount'
  BY <1>1, <1>4, CountFacts, CountsAfter
<1>9. StrongCount'
  BY <1>1, <1>4, <1>5 DEF Inv, StrongCount, Taker
<1>10. Construction'
  BY <1>1, <1>3, <1>4 DEF Inv, Construction, Unrelated
<1>11. Increments'
  BY <1>1, <1>4 DEF Inv, Increments, Unrelated
<1>12. Lives'
  <2>1. \A u \in Thread : Ending(u)' <=> Ending(u)
    BY <1>1, <1>4 DEF Ending
  <2>2. \A u \in Thread : pc'[u] = "delete" <=> pc[u] = "delete"
    BY <1>1, <1>4
  <2> QED BY <1>1, <1>2, <2>1, <2>2 DEF Inv, Lives
<1>13. Ends'
  <2>1. reference /\ \A u \in Thread : pc[u] # "lastWeak"
    BY <1>2 DEF Inv, Ends
  <2>2. \A u \in Thread : pc'[u] = "lastWeak" <=> u = t /\ mWeak = 1
    BY <1>1, <1>4, <2>1
  <2>3. mWeak' = 0 <=> mWeak = 1
    BY <1>1, CountFacts
  <2>4. mWeak = 1 => phase = "shared"
    BY <1>3
  <2> QED BY <1>1, <2>1, <2>2, <2>3, <2>4 DEF Ends
<1>14. Stale'
  BY <1>1, <1>4 DEF Inv, Stale
<1> QED BY <1>6, <1>7, <1>8, <1>9, <1>10, <1>11, <1>12, <1>13, <1>14 DEF Inv

\* The last reference is gone: the counters go, and the object if it is there.
LEMMA LastWeakStep ==
  ASSUME Inv, NEW t \in Thread, LastWeak(t)
  PROVE  Inv'
<1> HIDE DEF Strong, Sum, NumAt
<1>1. /\ pc[t] = "lastWeak" /\ Goto(t, "idle")
      /\ mStrong' = mStrong /\ mWeak' = mWeak /\ mFlags' = mFlags
      /\ phase' = phase /\ count' = count /\ sps' = sps /\ wps' = wps
      /\ IF mFlags = "strong" /\ mStrong # INITIAL
           THEN reference' = FALSE /\ object' = object
           ELSE object' = FALSE /\ reference' = (reference /\ ~ TakesCounters)
  BY DEF LastWeak, counters, refs
<1>2. phase = "shared" /\ mWeak = 0 /\ \A u \in Thread : pc[u] = "lastWeak" => u = t
  BY <1>1 DEF Inv, Ends
<1>3. \A u \in Thread : /\ sps[u] = 0 /\ wps[u] = 0 /\ (u # t => pc[u] = "idle")
                        /\ ~ Ending(u) /\ ~ Taker(u) /\ pc[u] \notin Adding
  <2>1. \A u \in Thread : sps[u] = 0 /\ wps[u] = 0 /\ (u # t => pc[u] = "idle")
    BY <1>2, CountFacts
  <2> QED BY <1>1, <2>1 DEF Ending, Taker, Adding
<1>4. ~ object' /\ ~ reference'
  <2>1. CASE mFlags = "strong" /\ mStrong # INITIAL
    <3>1. Strong = 0
      <4>1. sps \in [Thread -> 0 .. MaxRefs]
        BY Kinds DEF TypeOK
      <4>2. Sum(sps) = 0 /\ NumAt(pc, Adding) = 0
        BY <1>3, <4>1, SumZero, NumAtZero
      <4> QED BY <4>2, CountFacts
    <3>2. mStrong = 0
      BY <2>1, <3>1, CountFacts DEF Inv, StrongCount
    <3> QED BY <1>1, <1>3, <2>1, <3>2 DEF Inv, Lives
  <2>2. CASE ~ (mFlags = "strong" /\ mStrong # INITIAL)
    BY <1>1, <1>2, <2>2, Kinds DEF TakesCounters, TypeOK
  <2> QED BY <2>1, <2>2
<1>5. /\ pc' \in [Thread -> PC] /\ \A u \in Thread : pc'[u] = "idle"
      /\ NumAt(pc', Adding) = NumAt(pc, Adding)
      /\ NumAt(pc', Counted) = NumAt(pc, Counted)
  BY <1>1, <1>3, GotoFacts, CountFacts DEF Adding, Counted, PC
<1>6. Strong' = Strong
  BY <1>1, <1>5, CountFacts, CountsAfter
<1>7. TypeOK'
  BY <1>1, <1>4, <1>5, Kinds DEF TypeOK
<1>8. RoomKept'
  BY <1>1, <1>5, Kinds DEF RoomKept, Begun
<1>9. WeakCount'
  BY <1>1, <1>5, CountFacts, CountsAfter
<1>10. StrongCount'
  BY <1>1, <1>3, <1>5, <1>6 DEF Inv, StrongCount, Taker
<1>11. Construction'
  BY <1>1, <1>2 DEF Construction
<1>12. Increments'
  BY <1>5 DEF Increments
<1>13. Lives'
  <2>1. \A u \in Thread : ~ Ending(u)'
    BY <1>5 DEF Ending
  <2> QED BY <1>1, <1>2, <1>4, <1>5, <2>1 DEF Lives
<1>14. Ends'
  BY <1>1, <1>2, <1>4, <1>5 DEF Ends
<1>15. Stale'
  BY <1>5 DEF Stale
<1> QED BY <1>7, <1>8, <1>9, <1>10, <1>11, <1>12, <1>13, <1>14, <1>15 DEF Inv

\* tryIncStrongReference() begins.
LEMMA TryIncStep ==
  ASSUME Inv, NEW t \in Thread, TryInc(t)
  PROVE  Inv'
<1>1. /\ pc[t] = "idle" /\ wps[t] > 0 /\ sps[t] + wps[t] < MaxRefs /\ phase = "shared"
      /\ mWeak' = mWeak + 1 /\ Goto(t, "tryLoad")
      /\ mStrong' = mStrong /\ mFlags' = mFlags /\ object' = object /\ reference' = reference
      /\ phase' = phase /\ count' = count /\ sps' = sps /\ wps' = wps
  BY DEF TryInc, Free, Room, life, refs
<1> HIDE DEF Strong, Sum, NumAt
<1>2. mWeak > 0 /\ reference /\ \A u \in Thread : pc[u] # "lastWeak"
  BY <1>1, CountFacts DEF Inv, Ends
<1>3. /\ pc' \in [Thread -> PC] /\ \A u \in Thread : pc'[u] = IF u = t THEN "tryLoad" ELSE pc[u]
      /\ NumAt(pc', Adding) = NumAt(pc, Adding)
      /\ NumAt(pc', Counted) = NumAt(pc, Counted) + 1
  BY <1>1, GotoFacts, CountFacts DEF Adding, Counted, PC
<1>4. Strong' = Strong
  BY <1>1, <1>3, CountFacts, CountsAfter
<1>5. TypeOK'
  BY <1>1, <1>3, Kinds DEF TypeOK
<1>6. RoomKept'
  BY <1>1, <1>3, Kinds DEF RoomKept, Begun
<1>7. WeakCount'
  BY <1>1, <1>3, CountFacts, CountsAfter
<1>8. StrongCount'
  BY <1>1, <1>3, <1>4 DEF Inv, StrongCount, Taker
<1>9. Construction'
  BY <1>1 DEF Construction
<1>10. Increments'
  BY <1>1, <1>3, Kinds DEF Inv, Increments, Unrelated
<1>11. Lives'
  BY <1>1, <1>2, <1>3 DEF Inv, Lives, Ending
<1>12. Ends'
  BY <1>1, <1>2, <1>3, CountFacts DEF Ends
<1>13. Stale'
  BY <1>1, <1>3 DEF Inv, Stale
<1> QED BY <1>5, <1>6, <1>7, <1>8, <1>9, <1>10, <1>11, <1>12, <1>13 DEF Inv

\* A step of an attempt that changes nothing but the thread's own place and
\* local variable.
LEMMA TryGoesOn ==
  ASSUME Inv, NEW t \in Thread, NEW l \in {"tryCas", "tryFlags", "tryInitial", "decWeak"},
         NEW n \in Nat, pc[t] \in {"tryLoad", "tryCas", "tryFlags", "tryInitial"},
         Goto(t, l), count' = [count EXCEPT ![t] = n],
         l # "decWeak" /\ n = 0 /\ mFlags = "strong" => mStrong = 0,
         l = "tryInitial" => mFlags = "strong",
         UNCHANGED <<mStrong, mWeak, mFlags, object, reference, phase, sps, wps>>
  PROVE  Inv'
<1> HIDE DEF Strong, Sum, NumAt
<1>1. /\ mStrong' = mStrong /\ mWeak' = mWeak /\ mFlags' = mFlags
      /\ object' = object /\ reference' = reference
      /\ phase' = phase /\ sps' = sps /\ wps' = wps
  OBVIOUS
<1>2. phase = "shared"
  BY DEF Inv, Construction, Unrelated
<1>3. /\ pc' \in [Thread -> PC] /\ \A u \in Thread : pc'[u] = IF u = t THEN l ELSE pc[u]
      /\ NumAt(pc', Adding) = NumAt(pc, Adding)
      /\ NumAt(pc', Counted) = NumAt(pc, Counted)
  <2>1. l \in PC /\ l \notin Adding /\ l \in Counted /\ pc[t] \notin Adding /\ pc[t] \in Counted
    BY DEF Adding, Counted, PC
  <2> QED BY <2>1, GotoFacts, CountFacts
<1>4. /\ count' \in [Thread -> Nat]
      /\ \A u \in Thread : count'[u] = IF u = t THEN n ELSE count[u]
  BY Kinds DEF TypeOK
<1>5. Strong' = Strong
  BY <1>1, <1>3, CountFacts, CountsAfter
<1>6. TypeOK'
  BY <1>1, <1>3, <1>4, Kinds DEF TypeOK
<1>7. RoomKept'
  BY <1>1, <1>3, Kinds DEF RoomKept, Begun
<1>8. WeakCount'
  BY <1>1, <1>3, CountFacts, CountsAfter
<1>9. StrongCount'
  BY <1>1, <1>3, <1>4, <1>5 DEF Inv, StrongCount, Taker
<1>10. Construction'
  BY <1>1, <1>2 DEF Construction
<1>11. Increments'
  BY <1>1, <1>3 DEF Inv, Increments, Unrelated
<1>12. Lives'
  BY <1>1, <1>3 DEF Inv, Lives, Ending
<1>13. Ends'
  BY <1>1, <1>3 DEF Inv, Ends
<1>14. Stale'
  BY <1>1, <1>3, <1>4 DEF Inv, Stale
<1> QED BY <1>6, <1>7, <1>8, <1>9, <1>10, <1>11, <1>12, <1>13, <1>14 DEF Inv

\* An attempt increments the strong counter of an object that is still there.
LEMMA TryPromotes ==
  ASSUME Inv, NEW t \in Thread, pc[t] \in {"tryCas", "tryFlags", "tryInitial"},
         mStrong' = mStrong + 1, Goto(t, "tryFirst"), count' = [count EXCEPT ![t] = mStrong],
         mFlags = "weak" \/ mStrong > 0,
         UNCHANGED <<mWeak, mFlags, object, reference, phase, sps, wps>>
  PROVE  Inv'
<1> HIDE DEF Strong, Sum, NumAt
<1>1. /\ mWeak' = mWeak /\ mFlags' = mFlags
      /\ object' = object /\ reference' = reference
      /\ phase' = phase /\ sps' = sps /\ wps' = wps
  OBVIOUS
<1>2. phase = "shared"
  BY DEF Inv, Construction, Unrelated
<1>3. /\ pc' \in [Thread -> PC] /\ \A u \in Thread : pc'[u] = IF u = t THEN "tryFirst" ELSE pc[u]
      /\ NumAt(pc', Adding) = NumAt(pc, Adding) + 1
      /\ NumAt(pc', Counted) = NumAt(pc, Counted)
  BY GotoFacts, CountFacts DEF Adding, Counted, PC
<1>4. /\ count' \in [Thread -> Nat]
      /\ \A u \in Thread : count'[u] = IF u = t THEN mStrong ELSE count[u]
  BY Kinds DEF TypeOK
<1>5. Strong' = Strong + 1
  BY <1>1, <1>3, CountFacts, CountsAfter
<1>6. mWeak > 0 /\ object
  <2>1. mWeak > 0
    BY CountFacts DEF Counted, PC
  <2> QED BY <2>1 DEF Inv, Lives
<1>7. TypeOK'
  BY <1>1, <1>3, <1>4, Kinds DEF TypeOK
<1>8. RoomKept'
  BY <1>1, <1>3, Kinds DEF RoomKept, Begun
<1>9. WeakCount'
  BY <1>1, <1>3, CountFacts, CountsAfter
<1>10. StrongCount'
  <2>1. \A u \in Thread : Taker(u)' <=> IF u = t THEN mStrong = INITIAL ELSE Taker(u)
    BY <1>3, <1>4 DEF Taker
  <2>2. ~ Taker(t)
    BY DEF Taker
  <2>3. CASE mStrong = INITIAL
    <3>1. \A u \in Thread : ~ Taker(u)
      BY <2>3, CountFacts DEF Taker, Adding
    <3>2. \A u \in Thread : Taker(u)' <=> u = t
      BY <2>1, <2>3, <3>1
    <3> QED BY <1>5, <2>3, <3>2, CountFacts DEF StrongCount
  <2>4. CASE mStrong # INITIAL
    <3>1. \A u \in Thread : Taker(u)' <=> Taker(u)
      BY <2>1, <2>2, <2>4
    <3> QED BY <1>5, <2>4, <3>1, CountFacts DEF Inv, StrongCount
  <2> QED BY <2>3, <2>4
<1>11. Construction'
  BY <1>1, <1>2 DEF Construction
<1>12. Increments'
  BY <1>1, <1>3 DEF Inv, Increments, Unrelated
<1>13. Lives'
  <2>1. mStrong' # 0
    BY CountFacts
  <2> QED BY <1>1, <1>3, <1>6, <2>1 DEF Inv, Lives, Ending
<1>14. Ends'
  BY <1>1, <1>3, <1>6 DEF Inv, Ends
<1>15. Stale'
  BY <1>1, <1>3, <1>4 DEF Inv, Stale
<1> QED BY <1>7, <1>8, <1>9, <1>10, <1>11, <1>12, <1>13, <1>14, <1>15 DEF Inv

\* tryIncStrongReference() from its first look at the strong counter to the
\* increment or to the failure.
LEMMA TryStep ==
  ASSUME Inv, NEW t \in Thread, TryLoad(t) \/ TryCas(t) \/ TryFlags(t) \/ TryInitial(t)
  PROVE  Inv'
<1>1. /\ mStrong \in Nat /\ count[t] \in Nat /\ count = [count EXCEPT ![t] = count[t]]
      /\ pc[t] \in {"tryCas", "tryFlags", "tryInitial"} /\ count[t] = 0 /\ mFlags = "strong"
           => mStrong = 0
      /\ pc[t] = "tryInitial" => mFlags = "strong"
  BY Kinds DEF Inv, TypeOK, Stale
<1>2. CASE TryLoad(t)
  <2>1. /\ pc[t] = "tryLoad" /\ count' = [count EXCEPT ![t] = mStrong] /\ Goto(t, "tryCas")
        /\ UNCHANGED <<mStrong, mWeak, mFlags, object, reference, phase, sps, wps>>
    BY <1>2 DEF TryLoad, Sets, counters, life, refs
  <2> QED BY <1>1, <2>1, TryGoesOn
<1>3. ASSUME pc[t] \in {"tryCas", "tryInitial"}, count[t] > 0, Exchange(t, pc[t]),
             UNCHANGED <<mWeak, mFlags, object, reference, phase, sps, wps>>
      PROVE  Inv'
  <2>1. CASE mStrong = count[t] /\ mStrong' = mStrong + 1 /\ Goto(t, "tryFirst") /\ count' = count
    <3>1. count' = [count EXCEPT ![t] = mStrong] /\ mStrong > 0
      BY <1>1, <1>3, <2>1
    <3> QED BY <1>3, <2>1, <3>1, TryPromotes
  <2>2. CASE Sets(t, mStrong) /\ Goto(t, pc[t]) /\ mStrong' = mStrong
    <3>1. count' = [count EXCEPT ![t] = mStrong]
      BY <2>2 DEF Sets
    <3> QED BY <1>1, <1>3, <2>2, <3>1, TryGoesOn
  <2> QED BY <1>3, <2>1, <2>2 DEF Exchange
<1>4. ASSUME pc[t] \in {"tryFlags", "tryInitial"}, Unpromoted(t),
             UNCHANGED <<mWeak, mFlags, object, reference, phase, sps, wps>>
      PROVE  Inv'
  <2>1. count' = [count EXCEPT ![t] = 0] /\ Goto(t, "decWeak") /\ mStrong' = mStrong
    BY <1>4 DEF Unpromoted, Sets
  <2> QED BY <1>4, <2>1, TryGoesOn
<1>5. CASE TryCas(t)
  <2>1. /\ pc[t] = "tryCas"
        /\ UNCHANGED <<mWeak, mFlags, object, reference, phase, sps, wps>>
    BY <1>5 DEF TryCas, life, refs
  <2>2. CASE count[t] > 0 /\ Exchange(t, "tryCas")
    BY <1>3, <2>1, <2>2
  <2>3. CASE Goto(t, "tryFlags") /\ mStrong' = mStrong /\ count' = count
    <3>1. count' = [count EXCEPT ![t] = count[t]]
      BY <1>1, <2>3
    <3> QED BY <1>1, <2>1, <2>3, <3>1, TryGoesOn
  <2> QED BY <1>5, <2>2, <2>3 DEF TryCas
<1>6. CASE TryFlags(t)
  <2>1. /\ pc[t] = "tryFlags"
        /\ UNCHANGED <<mWeak, mFlags, object, reference, phase, sps, wps>>
    BY <1>6 DEF TryFlags, life, refs
  <2>2. CASE Unpromoted(t)
    BY <1>4, <2>1, <2>2
  <2>3. CASE mFlags = "strong" /\ Goto(t, "tryInitial") /\ mStrong' = mStrong /\ count' = count
    <3>1. count' = [count EXCEPT ![t] = count[t]]
      BY <1>1, <2>3
    <3> QED BY <1>1, <2>1, <2>3, <3>1, TryGoesOn
  <2>4. CASE mFlags = "weak" /\ mStrong' = mStrong + 1 /\ Sets(t, mStrong) /\ Goto(t, "tryFirst")
    <3>1. count' = [count EXCEPT ![t] = mStrong]
      BY <2>4 DEF Sets
    <3> QED BY <2>1, <2>4, <3>1, TryPromotes
  <2> QED BY <1>6, <2>2, <2>3, <2>4 DEF TryFlags
<1>7. CASE TryInitial(t)
  <2>1. /\ pc[t] = "tryInitial"
        /\ UNCHANGED <<mWeak, mFlags, object, reference, phase, sps, wps>>
    BY <1>7 DEF TryInitial, life, refs
  <2>2. CASE count[t] > 0 /\ Exchange(t, "tryInitial")
    BY <1>3, <2>1, <2>2
  <2>3. CASE Unpromoted(t)
    BY <1>4, <2>1, <2>3
  <2> QED BY <1>7, <2>2, <2>3 DEF TryInitial
<1> QED BY <1>2, <1>5, <1>6, <1>7

\* tryIncStrongReference() ends with a strong reference.
LEMMA TryFirstStep ==
  ASSUME Inv, NEW t \in Thread, TryFirst(t)
  PROVE  Inv'
<1>1. /\ pc[t] = "tryFirst" /\ mStrong' = mStrong - TakenAway(count[t])
      /\ Goto(t, "idle") /\ sps' = More(sps, t) /\ count' = [count EXCEPT ![t] = 0]
      /\ mWeak' = mWeak /\ mFlags' = mFlags /\ object' = object /\ reference' = reference
      /\ phase' = phase /\ wps' = wps
  BY DEF TryFirst, Sets, life
<1> HIDE DEF Strong, Sum, NumAt
<1>2. sps[t] + wps[t] < MaxRefs /\ phase = "shared"
  BY <1>1, Kinds DEF Inv, RoomKept, Begun, Construction, Unrelated
<1>3. mWeak > 0 /\ mStrong > 0 /\ Strong > 0 /\ object
  <2>1. mWeak > 0 /\ mStrong > 0 /\ Strong > 0
    BY <1>1, CountFacts DEF Adding, Counted, PC
  <2> QED BY <2>1 DEF Inv, Lives
<1>4. /\ pc' \in [Thread -> PC] /\ \A u \in Thread : pc'[u] = IF u = t THEN "idle" ELSE pc[u]
      /\ NumAt(pc', Adding) = NumAt(pc, Adding) - 1
      /\ NumAt(pc', Counted) = NumAt(pc, Counted) - 1
  BY <1>1, GotoFacts, CountFacts DEF Adding, Counted, PC
<1>5. /\ sps' \in [Thread -> 0 .. MaxRefs] /\ Sum(sps') = Sum(sps) + 1
      /\ \A u \in Thread : sps'[u] = IF u = t THEN sps[t] + 1 ELSE sps[u]
  <2>1. sps \in [Thread -> 0 .. MaxRefs] /\ sps[t] < MaxRefs
    BY <1>2, Kinds DEF TypeOK
  <2> QED BY <1>1, <2>1, SumMore
<1>6. /\ count' \in [Thread -> Nat]
      /\ \A u \in Thread : count'[u] = IF u = t THEN 0 ELSE count[u]
  BY <1>1, Kinds DEF TypeOK
<1>7. Strong' = Strong
  BY <1>4, <1>5, CountFacts, CountsAfter
<1>8. /\ mStrong' = (IF Taker(t) THEN Strong' ELSE mStrong)
      /\ Taker(t) => mStrong = Strong + INITIAL /\ \A u \in Thread : Taker(u) => u = t
      /\ \A u \in Thread : Taker(u)' <=> u # t /\ Taker(u)
  <2>1. Taker(t) <=> count[t] = INITIAL
    BY <1>1 DEF Taker
  <2>2. Taker(t) => mStrong = Strong + INITIAL /\ \A u \in Thread : Taker(u) => u = t
    BY DEF Inv, StrongCount
  <2>3. mStrong' = IF Taker(t) THEN Strong' ELSE mStrong
    BY <1>1, <1>7, <2>1, <2>2, CountFacts DEF TakenAway
  <2>4. \A u \in Thread : Taker(u)' <=> u # t /\ Taker(u)
    BY <1>4, <1>6 DEF Taker
  <2> QED BY <2>2, <2>3, <2>4
<1>9. TypeOK'
  <2>1. mStrong' \in Nat
    BY <1>7, <1>8, CountFacts
  <2> QED BY <1>1, <1>4, <1>5, <1>6, <2>1, Kinds DEF TypeOK
<1>10. RoomKept'
  BY <1>1, <1>2, <1>4, <1>5, Kinds DEF RoomKept, Begun
<1>11. WeakCount'
  BY <1>1, <1>4, <1>5, CountFacts, CountsAfter
<1>12. StrongCount'
  <2>1. CASE Taker(t)
    <3>1. \A u \in Thread : ~ Taker(u)'
      BY <1>8, <2>1
    <3> QED BY <1>7, <1>8, <2>1, <3>1, Kinds, CountFacts DEF StrongCount
  <2>2. CASE ~ Taker(t)
    <3>1. \A u \in Thread : Taker(u)' <=> Taker(u)
      BY <1>8, <2>2
    <3> QED BY <1>7, <1>8, <2>2, <3>1 DEF Inv, StrongCount
  <2> QED BY <2>1, <2>2
<1>13. Construction'
  BY <1>1, <1>2 DEF Construction
<1>14. Increments'
  BY <1>1, <1>2, <1>4, <1>5, Kinds DEF Inv, Increments, Unrelated
<1>15. Lives'
  <2>1. mStrong' # 0 /\ mStrong # 0
    BY <1>3, <1>7, <1>8, CountFacts
  <2> QED BY <1>1, <1>3, <1>4, <2>1 DEF Inv, Lives, Ending
<1>16. Ends'
  BY <1>1, <1>3, <1>4 DEF Inv, Ends
<1>17. Stale'
  BY <1>1, <1>3, <1>4, <1>6 DEF Inv, Stale
<1> QED BY <1>9, <1>10, <1>11, <1>12, <1>13, <1>14, <1>15, <1>16, <1>17 DEF Inv

\* A reference moves to another thread.
LEMMA MoveStep ==
  ASSUME Inv, NEW t \in Thread, NEW u \in Thread, Move(t, u)
  PROVE  Inv'
<1>1. /\ pc[t] = "idle" /\ pc[u] = "idle" /\ phase = "shared" /\ t # u
      /\ sps[u] + wps[u] < MaxRefs
      /\ mStrong' = mStrong /\ mWeak' = mWeak /\ mFlags' = mFlags
      /\ object' = object /\ reference' = reference
      /\ phase' = phase /\ count' = count /\ pc' = pc
  BY DEF Move, Free, Room, life, counters
<1> HIDE DEF Strong, Sum, NumAt
<1>2. ASSUME NEW f \in [Thread -> 0 .. MaxRefs], f[t] > 0, f[u] < MaxRefs
      PROVE  /\ More(Less(f, t), u) \in [Thread -> 0 .. MaxRefs]
             /\ Sum(More(Less(f, t), u)) = Sum(f)
             /\ \A v \in Thread : More(Less(f, t), u)[v] =
                  IF v = u THEN f[u] + 1 ELSE IF v = t THEN f[t] - 1 ELSE f[v]
  <2>1. /\ Less(f, t) \in [Thread -> 0 .. MaxRefs] /\ Sum(Less(f, t)) = Sum(f) - 1
        /\ \A v \in Thread : Less(f, t)[v] = IF v = t THEN f[t] - 1 ELSE f[v]
    BY <1>2, SumLess
  <2>2. Less(f, t)[u] = f[u] /\ Less(f, t)[u] < MaxRefs
    BY <1>1, <1>2, <2>1
  <2>3. /\ More(Less(f, t), u) \in [Thread -> 0 .. MaxRefs]
        /\ Sum(More(Less(f, t), u)) = Sum(Less(f, t)) + 1
        /\ \A v \in Thread : More(Less(f, t), u)[v] = IF v = u THEN Less(f, t)[u] + 1 ELSE Less(f, t)[v]
    BY <2>1, <2>2, SumMore
  <2>4. Sum(f) \in Nat
    BY CountTypes
  <2>5. Sum(More(Less(f, t), u)) = Sum(f)
    BY <2>1, <2>3, <2>4
  <2> QED BY <2>1, <2>2, <2>3, <2>5
<1>3. /\ sps' \in [Thread -> 0 .. MaxRefs] /\ wps' \in [Thread -> 0 .. MaxRefs]
      /\ Sum(sps') = Sum(sps) /\ Sum(wps') = Sum(wps)
      /\ sps[t] > 0 \/ wps[t] > 0
      /\ sps'[t] + wps'[t] <= MaxRefs /\ sps'[u] + wps'[u] <= MaxRefs
      /\ \A v \in Thread \ {t, u} : sps'[v] = sps[v] /\ wps'[v] = wps[v]
  <2>1. sps \in [Thread -> 0 .. MaxRefs] /\ wps \in [Thread -> 0 .. MaxRefs]
    BY Kinds DEF TypeOK
  <2>2. sps[u] < MaxRefs /\ wps[u] < MaxRefs /\ sps[t] + wps[t] <= MaxRefs
    BY <1>1, Kinds DEF RoomKept
  <2>3. CASE sps[t] > 0 /\ sps' = More(Less(sps, t), u) /\ wps' = wps
    <3>1. /\ sps' \in [Thread -> 0 .. MaxRefs] /\ Sum(sps') = Sum(sps)
          /\ \A v \in Thread : sps'[v] = IF v = u THEN sps[u] + 1 ELSE IF v = t THEN sps[t] - 1 ELSE sps[v]
      BY <1>2, <2>1, <2>2, <2>3
    <3> QED BY <1>1, <2>1, <2>2, <2>3, <3>1, Kinds
  <2>4. CASE wps[t] > 0 /\ wps' = More(Less(wps, t), u) /\ sps' = sps
    <3>1. /\ wps' \in [Thread -> 0 .. MaxRefs] /\ Sum(wps') = Sum(wps)
          /\ \A v \in Thread : wps'[v] = IF v = u THEN wps[u] + 1 ELSE IF v = t THEN wps[t] - 1 ELSE wps[v]
      BY <1>2, <2>1, <2>2, <2>4
    <3> QED BY <1>1, <2>1, <2>2, <2>4, <3>1, Kinds
  <2> QED BY <2>3, <2>4 DEF Move
<1>4. Strong' = Strong
  BY <1>1, <1>3, CountFacts, CountsAfter
<1>5. TypeOK'
  BY <1>1, <1>3, Kinds DEF TypeOK
<1>6. RoomKept'
  BY <1>1, <1>3, Kinds DEF RoomKept, Begun
<1>7. WeakCount'
  BY <1>1, <1>3, CountFacts, CountsAfter
<1>8. StrongCount'
  BY <1>1, <1>4 DEF Inv, StrongCount, Taker
<1>9. Construction'
  BY <1>1 DEF Construction
<1>10. Increments'
  BY <1>1, <1>3, Kinds DEF Inv, Increments, Unrelated
<1>11. Lives'
  BY <1>1 DEF Inv, Lives, Ending
<1>12. Ends'
  BY <1>1 DEF Inv, Ends
<1>13. Stale'
  BY <1>1 DEF Inv, Stale
<1> QED BY <1>5, <1>6, <1>7, <1>8, <1>9, <1>10, <1>11, <1>12, <1>13 DEF Inv

\* The constructor, and attachInterface() of Binder.
LEMMA ConstructionStep ==
  ASSUME Inv, Construct \/ Attach \/ ResetCounter \/ Attached
  PROVE  Inv'
<1> HIDE DEF Strong, Sum, NumAt
<1>1. /\ mWeak' = mWeak /\ object' = object /\ reference' = reference
      /\ pc' = pc /\ count' = count /\ sps' = sps /\ wps' = wps
      /\ phase # "shared" /\ phase' # "shared" /\ phase' \in {"new", "attaching", "attached", "raw", "shared"}
      /\ mFlags' \in {"strong", "weak"}
      /\ phase' \in {"attaching", "attached"} => mFlags' = "weak"
  BY Kinds DEF Construct, Attach, ResetCounter, Attached, life, refs, Inv, Construction, TypeOK
<1>2. \A u \in Thread : pc[u] = "idle" /\ (u # Maker => Unrelated(u))
  BY Kinds DEF Inv, Construction, Unrelated, Construct, Attach, ResetCounter, Attached
<1>3. \A u \in Thread : sps[u] = 0
  <2>1. sps[Maker] = 0
    BY DEF Inv, Construction, Construct, Attach, ResetCounter, Attached
  <2> QED BY <1>2, <2>1 DEF Unrelated
<1>4. Strong = 0 /\ Strong' = 0
  <2>1. Sum(sps) = 0 /\ NumAt(pc, Adding) = 0
    <3>1. sps \in [Thread -> 0 .. MaxRefs]
      BY Kinds DEF TypeOK
    <3> QED BY <1>2, <1>3, <3>1, SumZero, NumAtZero DEF Adding
  <2> QED BY <1>1, <2>1, CountFacts, CountsAfter
<1>5. mStrong' = INITIAL /\ mStrong' \in Nat
  <2>1. mStrong = 0 \/ mStrong = INITIAL
    BY <1>4, CountFacts DEF Inv, StrongCount
  <2>2. phase # "attaching" => mStrong = INITIAL
    BY <1>1 DEF Inv, Construction
  <2> QED BY <2>1, <2>2, Kinds DEF Construct, Attach, ResetCounter, Attached
<1>6. object /\ reference
  BY <1>1 DEF Inv, Construction
<1>7. TypeOK'
  BY <1>1, <1>5, Kinds DEF TypeOK
<1>8. RoomKept'
  BY <1>1, Kinds DEF RoomKept
<1>9. WeakCount'
  BY <1>1, CountFacts, CountsAfter
<1>10. StrongCount'
  BY <1>1, <1>2, <1>4, <1>5, Kinds DEF StrongCount, Taker
<1>11. Construction'
  BY <1>1, <1>2, <1>3, <1>5, <1>6, Kinds DEF Construction, Unrelated
<1>12. Increments'
  BY <1>1, <1>2 DEF Increments
<1>13. Lives'
  BY <1>1, <1>2, <1>5, <1>6, Kinds DEF Lives, Ending
<1>14. Ends'
  BY <1>1, <1>2, <1>6 DEF Ends
<1>15. Stale'
  BY <1>1, <1>2 DEF Stale
<1> QED BY <1>7, <1>8, <1>9, <1>10, <1>11, <1>12, <1>13, <1>14, <1>15 DEF Inv

(***************************************************************************)
(* The theorems.                                                           *)
(***************************************************************************)
\* The invariant holds at first.
LEMMA InitInv == Init => Inv
<1> SUFFICES ASSUME Init PROVE Inv
  OBVIOUS
<1> HIDE DEF Strong, Sum, NumAt
<1>1. /\ INITIAL \in Nat /\ MaxRefs \in Nat \ {0} /\ Maker \in Thread
      /\ \A t \in Thread : pc[t] = "idle" /\ sps[t] = 0 /\ wps[t] = 0 /\ count[t] = 0
  BY ObjectAssumption DEF Init
<1>2. TypeOK
  BY <1>1 DEF Init, TypeOK, PC
<1>3. Sum(sps) = 0 /\ Sum(wps) = 0 /\ NumAt(pc, Adding) = 0 /\ NumAt(pc, Counted) = 0
  BY <1>1, <1>2, SumZero, NumAtZero DEF TypeOK, Adding, Counted, PC
<1>4. Strong = 0 /\ INITIAL > 0
  BY <1>1, <1>2, <1>3, StrongBound DEF Strong
<1>5. RoomKept /\ WeakCount
  BY <1>1, <1>3 DEF RoomKept, Begun, WeakCount, Init
<1>6. StrongCount
  BY <1>1, <1>4 DEF Init, StrongCount, Taker
<1>7. Construction /\ Increments
  BY <1>1 DEF Init, Construction, Increments, Unrelated
<1>8. Lives /\ Ends /\ Stale
  BY <1>1, <1>4 DEF Init, Lives, Ends, Stale, Ending
<1> QED BY <1>2, <1>5, <1>6, <1>7, <1>8 DEF Inv

\* Every step keeps the invariant.
LEMMA NextInv == Inv /\ [Next]_vars => Inv'
<1> SUFFICES ASSUME Inv, [Next]_vars PROVE Inv'
  OBVIOUS
<1>1. CASE Construct \/ Attach \/ ResetCounter \/ Attached
  BY <1>1, ConstructionStep
<1>2. ASSUME NEW t \in Thread, Step(t) PROVE Inv'
  <2>1. CASE TryLoad(t) \/ TryCas(t) \/ TryFlags(t) \/ TryInitial(t)
    BY <2>1, TryStep
  <2>2. CASE IncStrong(t) \/ AddStrong(t) \/ First(t) \/ DecStrong(t) \/ LastStrong(t) \/ Delete(t)
    BY <2>2, IncStrongStep, AddStrongStep, FirstStep, DecStrongStep, LastStrongStep, DeleteStep
  <2>3. CASE \/ IncWeak(t) \/ DropWeak(t) \/ DecWeak(t) \/ LastWeak(t) \/ TryInc(t) \/ TryFirst(t)
    BY <2>3, IncWeakStep, DropWeakStep, DecWeakStep, LastWeakStep, TryIncStep, TryFirstStep
  <2> QED BY <1>2, <2>1, <2>2, <2>3 DEF Step
<1>3. ASSUME NEW t \in Thread, NEW u \in Thread, Move(t, u) PROVE Inv'
  BY <1>3, MoveStep
<1>4. CASE UNCHANGED vars
  <2>1. /\ mStrong' = mStrong /\ mWeak' = mWeak /\ mFlags' = mFlags
        /\ object' = object /\ reference' = reference
        /\ phase' = phase /\ pc' = pc /\ count' = count /\ sps' = sps /\ wps' = wps
    BY <1>4 DEF vars, counters, life, refs
  <2> QED BY <2>1 DEF Inv, TypeOK, RoomKept, WeakCount, StrongCount, Strong, Sum, NumAt, Taker,
                      Construction, Unrelated, Increments, Lives, Ending, Ends, Stale
<1> QED BY <1>1, <1>2, <1>3, <1>4 DEF Next

\* The counters of an object are accounted for by references and by threads in
\* the middle of an operation, in every reachable state of any number of threads.
THEOREM Invariance == Spec => []Inv
<1> QED BY InitInv, NextInv, PTL DEF Spec

\* Every variable holds a value of its kind; the counters never go below 0.
THEOREM TypeCorrect == Spec => []TypeOK
<1>1. Inv => TypeOK
  BY DEF Inv
<1> QED BY <1>1, Invariance, PTL

\* No thread uses the object or its counters after delete, whichever way
\* incStrongReference(), decStrongReference(), the two for weak references and
\* tryIncStrongReference() of any number of threads interleave.
THEOREM NoUseAfterFreeHolds == Spec => []NoUseAfterFree
<1> HIDE DEF Strong, Sum, NumAt
<1>1. ASSUME Inv PROVE NoUseAfterFree
  <2>1. ASSUME NEW t \in Thread, pc[t] # "idle" PROVE reference
    BY <1>1, <2>1, CountFacts, Kinds DEF Inv, Ends, Counted
  <2>2. ASSUME NEW t \in Thread, pc[t] \in {"incStrong", "first", "last", "delete"}
        PROVE  object
    <3>1. mWeak > 0
      BY <1>1, <2>2, CountFacts DEF Counted, PC
    <3>2. phase = "attaching" \/ mStrong > 0 \/ Ending(t)
      BY <1>1, <2>2, CountFacts, Kinds DEF Inv, Increments, Ending, Adding
    <3> QED BY <1>1, <3>1, <3>2 DEF Inv, Lives, Construction
  <2>3. ASSUME NEW t \in Thread, pc[t] = "lastWeak"
        PROVE  /\ TakesCounters \/ ~ object
               /\ \A u \in Thread \ {t} : pc[u] = "idle" /\ sps[u] + wps[u] = 0
    <3>1. mWeak = 0 /\ \A u \in Thread : pc[u] = "lastWeak" => u = t
      BY <1>1, <2>3 DEF Inv, Ends
    <3>2. \A u \in Thread : sps[u] = 0 /\ wps[u] = 0 /\ (u # t => pc[u] = "idle")
      BY <1>1, <3>1, CountFacts
    <3>3. \A u \in Thread : ~ Ending(u) /\ pc[u] \notin Adding
      BY <2>3, <3>2 DEF Ending, Adding
    <3>4. Strong = 0
      <4>1. sps \in [Thread -> 0 .. MaxRefs]
        BY <1>1 DEF Inv, TypeOK
      <4>2. Sum(sps) = 0 /\ NumAt(pc, Adding) = 0
        BY <3>2, <3>3, <4>1, SumZero, NumAtZero
      <4> QED BY <1>1, <4>2, CountFacts
    <3>5. mStrong = 0 \/ mStrong = INITIAL
      BY <1>1, <3>4, CountFacts DEF Inv, StrongCount
    <3>6. TakesCounters \/ ~ object
      BY <1>1, <3>1, <3>3, <3>5 DEF Inv, Lives, TakesCounters, TypeOK
    <3> QED BY <3>2, <3>6
  <2>4. Cardinality({t \in Thread : pc[t] = "delete"}) <= 1
    <3> DEFINE D == {t \in Thread : pc[t] = "delete"}
    <3>1. \A t, u \in D : t = u
      BY <1>1 DEF Inv, Lives, Ending
    <3>2. CASE D = {}
      BY <3>2, FS_EmptySet
    <3>3. CASE D # {}
      <4>1. PICK t \in D : TRUE
        BY <3>3
      <4>2. D = {t}
        BY <3>1, <4>1
      <4> QED BY <4>2, FS_Singleton
    <3> QED BY <3>2, <3>3
  <2>5. ASSUME NEW t \in Thread, Has(t) PROVE object
    <3>1. phase # "shared" \/ (mWeak > 0 /\ mStrong > 0)
      BY <1>1, <2>5, CountFacts DEF Has
    <3> QED BY <1>1, <3>1 DEF Inv, Lives, Construction
  <2>6. ASSUME NEW t \in Thread, sps[t] + wps[t] > 0 PROVE reference
    <3>1. sps[t] > 0 \/ wps[t] > 0
      BY <1>1, <2>6, Kinds
    <3> QED BY <1>1, <3>1, CountFacts DEF Inv, Ends
  <2>7. mFlags = "weak" /\ Sum(sps) + Sum(wps) > 0 => object
    BY <1>1, CountFacts DEF Inv, Lives
  <2> QED BY <2>1, <2>2, <2>3, <2>4, <2>5, <2>6, <2>7 DEF NoUseAfterFree
<1> QED BY <1>1, Invariance, PTL

\* Between operations the counters are the numbers of references, and an object
\* without references, or without strong ones under a strong lifetime, is gone.
THEOREM CountsMatchHolds == Spec => []CountsMatch
<1> HIDE DEF Strong, Sum, NumAt
<1>1. ASSUME Inv PROVE CountsMatch
  <2> SUFFICES ASSUME Idle
               PROVE  /\ reference =>
                           /\ mWeak = Sum(sps) + Sum(wps)
                           /\ mStrong = Sum(sps) \/ (mStrong = INITIAL /\ Sum(sps) = 0 /\ object)
                      /\ phase = "shared" =>
                           /\ Sum(sps) + Sum(wps) = 0 => ~ object /\ ~ reference
                           /\ Sum(sps) = 0 /\ mFlags = "strong" /\ object => mStrong = INITIAL
    BY DEF CountsMatch
  <2>1. \A t \in Thread : pc[t] = "idle" /\ ~ Taker(t) /\ ~ Ending(t)
    BY DEF Idle, Taker, Ending
  <2>2. NumAt(pc, Adding) = 0 /\ NumAt(pc, Counted) = 0
    BY <2>1, NumAtZero DEF Adding, Counted
  <2>3. mWeak = Sum(sps) + Sum(wps) /\ Strong = Sum(sps)
    BY <1>1, <2>2, CountFacts
  <2>4. mStrong = Sum(sps) \/ (mStrong = INITIAL /\ Sum(sps) = 0)
    BY <1>1, <2>1, <2>3, CountFacts DEF Inv, StrongCount
  <2>5. phase = "shared" /\ mWeak = 0 => ~ object /\ ~ reference
    BY <1>1, <2>1 DEF Inv, Ends
  <2>6. mStrong = INITIAL /\ reference => object
    <3>1. mStrong > 0 \/ mStrong # INITIAL
      BY <1>1, Kinds
    <3>2. mWeak > 0 \/ mWeak = 0
      BY <1>1, CountFacts
    <3> QED BY <1>1, <2>5, <3>1, <3>2 DEF Inv, Lives
  <2>7. mFlags = "strong" /\ object => mStrong # 0
    BY <1>1, <2>1 DEF Inv, Lives
  <2> QED BY <2>3, <2>4, <2>5, <2>6, <2>7
<1> QED BY <1>1, Invariance, PTL

\* A step in which wp::get() fails: the strong counter is 0 for good.
LEMMA MissingAtTheEnd ==
  ASSUME Inv, Next, NEW t \in Thread, Missing(t)
  PROVE  Sum(sps) = 0 /\ mFlags = "strong" /\ mStrong = 0
<1> HIDE DEF Strong, Sum, NumAt
<1>1. pc \in [Thread -> PC] /\ count[t] \in Nat
  BY DEF Inv, TypeOK
<1>2. pc[t] \in {"tryCas", "tryFlags", "tryInitial"} /\ pc'[t] = "decWeak"
  BY DEF Missing
<1>3. Step(t)
  <2>1. ASSUME NEW u \in Thread, u # t PROVE ~ Step(u)
    BY <1>1, <1>2, <2>1 DEF Step, IncStrong, AddStrong, First, DecStrong, LastStrong, Delete,
       IncWeak, DropWeak, DecWeak, LastWeak, TryInc, TryLoad, TryCas, TryFlags, TryInitial,
       TryFirst, Exchange, Unpromoted, Goto
  <2>2. ~ (Construct \/ Attach \/ ResetCounter \/ Attached)
    BY <1>1, <1>2 DEF Construct, Attach, ResetCounter, Attached
  <2>3. ASSUME NEW u \in Thread, NEW v \in Thread PROVE ~ Move(u, v)
    BY <1>1, <1>2 DEF Move
  <2> QED BY <2>1, <2>2, <2>3 DEF Next
<1>4. TryCas(t) \/ TryFlags(t) \/ TryInitial(t)
  BY <1>2, <1>3 DEF Step, IncStrong, AddStrong, First, DecStrong, LastStrong, Delete,
     IncWeak, DropWeak, DecWeak, LastWeak, TryInc, TryLoad, TryFirst, Free
<1>5. mFlags = "strong" /\ count[t] = 0
  <2>1. CASE TryCas(t)
    BY <1>1, <1>2, <2>1 DEF TryCas, Exchange, Goto
  <2>2. CASE TryFlags(t)
    BY <1>1, <1>2, <2>2 DEF TryFlags, Goto
  <2>3. CASE TryInitial(t)
    BY <1>1, <1>2, <2>3 DEF TryInitial, Exchange, Goto, Inv, Stale
  <2> QED BY <1>4, <2>1, <2>2, <2>3
<1>6. mStrong = 0
  BY <1>2, <1>5 DEF Inv, Stale
<1>7. Sum(sps) = 0
  BY <1>6, CountFacts DEF Inv, StrongCount
<1> QED BY <1>5, <1>6, <1>7

\* wp::get() never misses an object that somebody keeps: whenever an attempt
\* fails, the last strong reference is gone and the object will not come back.
THEOREM FailsOnlyAtTheEndHolds == Spec => FailsOnlyAtTheEnd
<1>1. Inv /\ [Next]_vars
        => [\A t \in Thread : Missing(t) => Sum(sps) = 0 /\ mFlags = "strong" /\ mStrong = 0]_vars
  BY MissingAtTheEnd
<1> QED BY <1>1, Invariance, PTL DEF Spec, FailsOnlyAtTheEnd
=============================================================================
