---------------------- MODULE ThreadPoolExecutorProofs ----------------------
(***************************************************************************)
(* What ThreadPoolExecutor promises, for every number of workers and every *)
(* set of runnables: no submission is lost or run twice, no wakeup is      *)
(* lost, and there is a null runnable for every worker still to end.       *)
(***************************************************************************)
EXTENDS ThreadPoolExecutor, ListLemmas

\* What a worker holds between take() and run(), and where the loops of
\* shutdown() can be.
Stages ==
  /\ \A w \in Worker : pc[w] # "taken" => item[w] = Nullptr
  /\ shutdown = "idle" => next = 1
  /\ shutdown = "put" => next <= mSize

Inv == TypeOK /\ Stages /\ NoLostWakeup /\ Accounted /\ EnoughNulls

Item == Runnable \cup {Nullptr}
Holders(r) == {w \in Worker : item[w] = r}
Owing == {w \in Live : pc[w] # "taken" \/ item[w] # Nullptr}

\* Any set of workers is finite.
LEMMA WorkersFinite ==
  ASSUME NEW W \in SUBSET Worker
  PROVE  IsFiniteSet(W) /\ Cardinality(W) \in Nat
<1>1. IsFiniteSet(Worker)
  BY ThreadPoolAssumption, FS_Interval DEF Worker
<1> QED BY <1>1, FS_Subset, FS_CardinalityType

\* The counts the invariants are about are natural numbers.
LEMMA Counts ==
  ASSUME TypeOK
  PROVE  /\ \A r : Cardinality(Places(r)) \in Nat /\ IsFiniteSet(Places(r))
         /\ \A r : Cardinality(Holders(r)) \in Nat /\ IsFiniteSet(Holders(r))
         /\ Cardinality(Owing) \in Nat /\ IsFiniteSet(Owing)
         /\ Cardinality(Takers) \in Nat /\ IsFiniteSet(Takers)
         /\ Len(queue) \in Nat
<1>1. \A r : Places(r) = PlacesOf(queue, {r})
  BY DEF Places, PlacesOf
<1>2. \A r : Cardinality(Places(r)) \in Nat /\ IsFiniteSet(Places(r))
  BY <1>1, PlacesFinite DEF TypeOK
<1>3. \A r : Holders(r) \in SUBSET Worker
  BY DEF Holders
<1>4. Owing \in SUBSET Worker /\ Takers \in SUBSET Worker
  BY DEF Owing, Live, Takers
<1>5. Len(queue) \in Nat
  BY LenProperties DEF TypeOK
<1> QED BY <1>2, <1>3, <1>4, <1>5, WorkersFinite

\* Initially the queue is empty, every worker is at its loop's test and shutdown()
\* has all null runnables to put.
LEMMA InitInv == Init => Inv
<1> SUFFICES ASSUME Init PROVE Inv
  OBVIOUS
<1>1. TypeOK /\ Stages
  BY ThreadPoolAssumption DEF Init, TypeOK, Stages, Worker
<1>2. Waiting = {}
  BY DEF Init, Waiting
<1>3. \A r \in Runnable : Places(r) = {} /\ Holders(r) = {}
  BY ThreadPoolAssumption DEF Init, Places, Holders
<1>4. Accounted
  <2> SUFFICES ASSUME NEW r \in Runnable
               PROVE  puts[r] = started[r] + cancelled[r] + Cardinality(Places(r))
                                + Cardinality(Holders(r))
    BY DEF Accounted, Holders
  <2>1. Cardinality(Places(r)) = 0 /\ Cardinality(Holders(r)) = 0
    BY <1>3, FS_EmptySet
  <2>2. puts[r] = 0 /\ started[r] = 0 /\ cancelled[r] = 0
    BY DEF Init
  <2> QED BY <2>1, <2>2
<1>5. Owing = Worker
  BY DEF Init, Owing, Live
<1>6. Places(Nullptr) = {}
  BY DEF Init, Places
<1>7. Cardinality(Worker) = mSize
  BY ThreadPoolAssumption, FS_Interval DEF Worker
<1>8. Cardinality(Places(Nullptr)) + NullsToPut = mSize
  BY <1>6, FS_EmptySet, ThreadPoolAssumption DEF Init, NullsToPut
<1>9. EnoughNulls
  BY <1>5, <1>7, <1>8, ThreadPoolAssumption DEF EnoughNulls, Owing
<1> QED BY <1>1, <1>2, <1>4, <1>9 DEF Inv, NoLostWakeup

\* put() adds a place of what is put, and gives it a worker if one sleeps.
LEMMA PutFacts ==
  ASSUME TypeOK, NoLostWakeup, NEW x \in Item, Put(x), UNCHANGED item
  PROVE  /\ queue' \in Seq(Item)
         /\ pc' \in [Worker -> {"check", "take", "waiting", "taken", "done"}]
         /\ \A w \in Worker : pc'[w] # pc[w] => pc[w] = "waiting" /\ pc'[w] = "take"
         /\ NoLostWakeup'
         /\ \A r : Cardinality(Places(r)') = Cardinality(Places(r)) + (IF r = x THEN 1 ELSE 0)
         /\ Owing' = Owing
<1>1. queue \in Seq(Item) /\ queue' = Append(queue, x)
  BY DEF TypeOK, Item, Put
<1>2. /\ queue' \in Seq(Item) /\ Len(queue') = Len(queue) + 1
  BY <1>1, AppendProperties
<1>3. ASSUME NEW r
      PROVE  Cardinality(Places(r)') = Cardinality(Places(r)) + (IF r = x THEN 1 ELSE 0)
  <2>1. Places(r) = PlacesOf(queue, {r}) /\ Places(r)' = PlacesOf(queue', {r})
    BY DEF Places, PlacesOf
  <2>2. Cardinality(PlacesOf(Append(queue, x), {r}))
          = Cardinality(PlacesOf(queue, {r})) + (IF x \in {r} THEN 1 ELSE 0)
    BY <1>1, AppendPlaces
  <2> QED BY <1>1, <2>1, <2>2
<1>4. CASE Waiting = {} /\ UNCHANGED pc
  BY <1>2, <1>3, <1>4 DEF TypeOK, NoLostWakeup, Waiting, Owing, Live
<1>5. CASE \E w \in Waiting : pc' = [pc EXCEPT ![w] = "take"]
  <2>1. PICK w \in Waiting : pc' = [pc EXCEPT ![w] = "take"]
    BY <1>5
  <2>2. w \in Worker /\ pc[w] = "waiting"
    BY DEF Waiting
  <2>3. pc' \in [Worker -> {"check", "take", "waiting", "taken", "done"}]
    BY <2>1, <2>2 DEF TypeOK
  <2>4. \A v \in Worker : pc'[v] = IF v = w THEN "take" ELSE pc[v]
    BY <2>1, <2>2 DEF TypeOK
  <2>5. Takers' = Takers \cup {w} /\ w \notin Takers
    BY <2>2, <2>4 DEF Takers
  <2>6. Cardinality(Takers') = Cardinality(Takers) + 1
    BY <2>5, Counts, FS_AddElement
  <2>7. Len(queue) <= Cardinality(Takers)
    BY <2>1 DEF NoLostWakeup
  <2>8. NoLostWakeup'
    BY <1>2, <2>6, <2>7, Counts DEF NoLostWakeup
  <2>9. Owing' = Owing
    BY <2>2, <2>4 DEF Owing, Live
  <2> QED BY <1>2, <1>3, <2>2, <2>3, <2>4, <2>8, <2>9
<1> QED BY <1>4, <1>5 DEF Put

\* execute() accounts for the submission in the queue.
LEMMA ExecuteInv ==
  ASSUME Inv, NEW r \in Runnable, Execute(r)
  PROVE  Inv'
<1> USE DEF Inv
<1>1. Put(r) /\ r \in Item /\ UNCHANGED item
  BY DEF Execute, Item
<1>2. /\ queue' \in Seq(Item)
      /\ pc' \in [Worker -> {"check", "take", "waiting", "taken", "done"}]
      /\ \A w \in Worker : pc'[w] # pc[w] => pc[w] = "waiting" /\ pc'[w] = "take"
      /\ NoLostWakeup'
      /\ \A x : Cardinality(Places(x)') = Cardinality(Places(x)) + (IF x = r THEN 1 ELSE 0)
      /\ Owing' = Owing
  BY <1>1, PutFacts
<1>3. TypeOK'
  BY <1>2 DEF TypeOK, Execute, Item
<1>4. Stages'
  BY <1>2 DEF Stages, Execute, TypeOK
<1>5. Accounted'
  <2> SUFFICES ASSUME NEW x \in Runnable
               PROVE  puts'[x] = started'[x] + cancelled'[x] + Cardinality(Places(x)')
                                 + Cardinality(Holders(x)')
    BY DEF Accounted, Holders
  <2>1. puts[x] = started[x] + cancelled[x] + Cardinality(Places(x)) + Cardinality(Holders(x))
    BY DEF Accounted, Holders
  <2>2. Holders(x)' = Holders(x) /\ started' = started /\ cancelled' = cancelled
    BY DEF Execute, Holders
  <2>3. puts'[x] = IF x = r THEN puts[x] + 1 ELSE puts[x]
    BY DEF Execute, TypeOK
  <2>4. /\ puts[x] \in Nat /\ started[x] \in Nat /\ cancelled[x] \in Nat
        /\ Cardinality(Places(x)) \in Nat /\ Cardinality(Holders(x)) \in Nat
    BY Counts DEF TypeOK
  <2> QED BY <1>2, <2>1, <2>2, <2>3, <2>4
<1>6. EnoughNulls'
  <2>1. Cardinality(Places(Nullptr)') = Cardinality(Places(Nullptr))
    BY <1>2, Counts, ThreadPoolAssumption
  <2>2. NullsToPut' = NullsToPut
    BY DEF Execute, NullsToPut
  <2> QED BY <1>2, <2>1, <2>2 DEF EnoughNulls, Owing
<1> QED BY <1>2, <1>3, <1>4, <1>5, <1>6

\* The places that remove() keeps are numbered in order: every k up to their number
\* has exactly one of them as its k-th.
LEMMA NthProperties ==
  ASSUME NEW n \in Nat, NEW P \in SUBSET (1 .. n)
  PROVE  /\ IsFiniteSet(P) /\ Cardinality(P) \in Nat
         /\ \A k \in 1 .. Cardinality(P) :
              Nth(P, k) \in P /\ Cardinality({j \in P : j <= Nth(P, k)}) = k
         /\ \A i \in P : \E k \in 1 .. Cardinality(P) : Nth(P, k) = i
<1> DEFINE c == Cardinality(P)
           B(i) == {j \in P : j <= i}
           rank == [i \in P |-> Cardinality(B(i))]
<1>1. IsFiniteSet(P) /\ c \in Nat
  <2>1. IsFiniteSet(1 .. n)
    BY FS_Interval
  <2> QED BY <2>1, FS_Subset, FS_CardinalityType
<1>2. \A i : IsFiniteSet(B(i)) /\ Cardinality(B(i)) \in Nat /\ Cardinality(B(i)) <= c
  <2> SUFFICES ASSUME NEW i
               PROVE  IsFiniteSet(B(i)) /\ Cardinality(B(i)) \in Nat /\ Cardinality(B(i)) <= c
    OBVIOUS
  <2>1. B(i) \in SUBSET P
    OBVIOUS
  <2> QED BY <1>1, <2>1, FS_Subset, FS_CardinalityType
<1>3. \A i \in P : Cardinality(B(i)) > 0
  <2> SUFFICES ASSUME NEW i \in P PROVE Cardinality(B(i)) > 0
    OBVIOUS
  <2>1. i \in B(i)
    OBVIOUS
  <2>2. B(i) # {}
    BY <2>1
  <2> HIDE DEF B
  <2> QED BY <1>2, <2>2, FS_EmptySet
<1>4. \A i, j \in P : i < j => Cardinality(B(i)) # Cardinality(B(j))
  <2> SUFFICES ASSUME NEW i \in P, NEW j \in P, i < j, Cardinality(B(i)) = Cardinality(B(j))
               PROVE  FALSE
    OBVIOUS
  <2>1. B(i) \in SUBSET B(j)
    <3>1. \A x \in P : x <= i => x <= j
      OBVIOUS
    <3> QED BY <3>1
  <2>2. j \in B(j) /\ j \notin B(i)
    OBVIOUS
  <2> HIDE DEF B
  <2> QED BY <1>2, <2>1, <2>2, FS_Subset
<1>5. rank \in [P -> 1 .. c]
  <2> HIDE DEF B
  <2> QED BY <1>1, <1>2, <1>3
<1>6. \A i, j \in P : rank[i] = rank[j] => i = j
  <2> HIDE DEF B
  <2>1. \A i, j \in P : i # j => i < j \/ j < i
    OBVIOUS
  <2> QED BY <1>4, <2>1
<1>7. rank \in Injection(P, 1 .. c)
  <2> HIDE DEF rank
  <2> QED BY <1>5, <1>6 DEF Injection, IsInjective
<1>8. IsFiniteSet(1 .. c) /\ Cardinality(1 .. c) = c
  BY <1>1, FS_Interval
<1>9. rank \in Surjection(P, 1 .. c)
  <2> HIDE DEF rank
  <2> QED BY <1>7, <1>8, FS_Injection
<1>10. \A k \in 1 .. c : \E i \in P : Cardinality(B(i)) = k
  <2>1. \A k \in 1 .. c : \E i \in P : rank[i] = k
    <3> HIDE DEF rank
    <3> QED BY <1>9 DEF Surjection
  <2> HIDE DEF B
  <2> QED BY <2>1
<1>11. \A k \in 1 .. c : Nth(P, k) \in P /\ Cardinality(B(Nth(P, k))) = k
  BY <1>10 DEF Nth
<1>12. ASSUME NEW i \in P PROVE \E k \in 1 .. c : Nth(P, k) = i
  <2>1. rank[i] \in 1 .. c
    BY <1>5
  <2>2. Nth(P, rank[i]) \in P /\ rank[Nth(P, rank[i])] = rank[i]
    <3> HIDE DEF B
    <3> QED BY <1>11, <2>1
  <2> HIDE DEF rank
  <2> QED BY <1>6, <2>1, <2>2
<1> QED BY <1>1, <1>11, <1>12

\* remove() keeps every place that does not hold r, and drops all that do.
LEMMA RemoveFacts ==
  ASSUME TypeOK, NEW r \in Runnable, RemoveItem(r)
  PROVE  /\ queue' \in Seq(Item)
         /\ Len(queue') <= Len(queue) /\ Len(queue') \in Nat
         /\ Cardinality(Places(r)') = 0
         /\ \A x \in Item \ {r} : Cardinality(Places(x)') = Cardinality(Places(x))
<1> DEFINE P == Others(r)
           c == Cardinality(P)
<1>1. queue \in Seq(Item) /\ Len(queue) \in Nat
  BY LenProperties DEF TypeOK, Item
<1>2. P \in SUBSET (1 .. Len(queue)) /\ \A i \in P : queue[i] \in Item \ {r}
  BY <1>1, ElementOfSeq DEF Others, Places
<1>3. \A i \in 1 .. Len(queue) : queue[i] # r => i \in P
  BY DEF Others, Places
<1>4. queue' = [k \in 1 .. c |-> queue[Nth(P, k)]]
  BY DEF RemoveItem
<1> HIDE DEF P
<1>5. /\ IsFiniteSet(P) /\ c \in Nat
      /\ \A k \in 1 .. c : Nth(P, k) \in P /\ Cardinality({j \in P : j <= Nth(P, k)}) = k
      /\ \A i \in P : \E k \in 1 .. c : Nth(P, k) = i
  BY <1>1, <1>2, NthProperties
<1>6. c <= Len(queue)
  <2>1. IsFiniteSet(1 .. Len(queue)) /\ Cardinality(1 .. Len(queue)) = Len(queue)
    BY <1>1, FS_Interval
  <2> QED BY <1>2, <2>1, FS_Subset
<1> HIDE DEF c
<1>7. queue' \in Seq(Item) /\ Len(queue') = c
  <2>1. \A k \in 1 .. c : queue[Nth(P, k)] \in Item
    BY <1>2, <1>5
  <2> QED BY <1>4, <1>5, <2>1, IsASeq, LenProperties
<1>8. \A k \in 1 .. c : queue'[k] = queue[Nth(P, k)]
  BY <1>4
<1>9. Places(r)' = {}
  <2>1. \A k \in 1 .. c : queue'[k] # r
    BY <1>2, <1>5, <1>8
  <2>2. Places(r)' = {k \in 1 .. c : queue'[k] = r}
    BY <1>7 DEF Places
  <2> QED BY <2>1, <2>2
<1>10. ASSUME NEW x \in Item \ {r}
       PROVE  Cardinality(Places(x)') = Cardinality(Places(x))
  <2> DEFINE Q == Places(x)'
             R == Places(x)
             f == [k \in Q |-> Nth(P, k)]
  <2>1. Q = {k \in 1 .. c : queue[Nth(P, k)] = x}
    BY <1>7, <1>8 DEF Places
  <2>2. R = {i \in P : queue[i] = x}
    BY <1>2, <1>3 DEF Places
  <2>3. IsFiniteSet(R)
    BY Counts
  <2> HIDE DEF Q, R
  <2>4. f \in [Q -> R]
    BY <1>5, <2>1, <2>2
  <2>5. ASSUME NEW k \in Q, NEW m \in Q, f[k] = f[m] PROVE k = m
    <3>1. k \in 1 .. c /\ m \in 1 .. c /\ Nth(P, k) = Nth(P, m)
      BY <2>1, <2>5
    <3>2. /\ Cardinality({j \in P : j <= Nth(P, k)}) = k
          /\ Cardinality({j \in P : j <= Nth(P, m)}) = m
      BY <1>5, <3>1
    <3> QED BY <3>1, <3>2
  <2>6. \A i \in R : \E k \in Q : f[k] = i
    BY <1>5, <2>1, <2>2
  <2> HIDE DEF f
  <2>7. f \in Injection(Q, R) /\ f \in Surjection(Q, R)
    BY <2>4, <2>5, <2>6 DEF Injection, Surjection, IsInjective
  <2>8. Cardinality(Q) = Cardinality(R)
    BY <2>3, <2>7, FS_Injection
  <2> QED BY <2>8 DEF Q, R
<1>11. Cardinality(Places(r)') = 0
  BY <1>9, FS_EmptySet
<1> QED BY <1>5, <1>6, <1>7, <1>10, <1>11

\* cancel() moves every queued submission of r to the cancelled ones, and takes no
\* null runnable with it.
LEMMA CancelInv ==
  ASSUME Inv, NEW r \in Runnable, Cancel(r)
  PROVE  Inv'
<1> USE DEF Inv
<1>1. RemoveItem(r) /\ UNCHANGED <<pc, item, interrupted, shutdown, next, puts, started>>
  BY DEF Cancel
<1>2. cancelled' = [cancelled EXCEPT ![r] = @ + Cardinality(Places(r))]
  BY <1>1 DEF RemoveItem
<1>3. /\ queue' \in Seq(Item)
      /\ Len(queue') <= Len(queue) /\ Len(queue') \in Nat
      /\ Cardinality(Places(r)') = 0
      /\ \A x \in Item \ {r} : Cardinality(Places(x)') = Cardinality(Places(x))
  BY <1>1, RemoveFacts
<1>4. TypeOK'
  <2>1. cancelled' \in [Runnable -> Nat]
    BY <1>2, Counts DEF TypeOK
  <2> QED BY <1>1, <1>3, <2>1 DEF TypeOK, Item
<1>5. Stages'
  BY <1>1 DEF Stages
<1>6. NoLostWakeup'
  <2>1. Waiting' = Waiting /\ Takers' = Takers
    BY <1>1 DEF Waiting, Takers
  <2> QED BY <1>3, <2>1, Counts DEF NoLostWakeup
<1>7. Accounted'
  <2> SUFFICES ASSUME NEW x \in Runnable
               PROVE  puts'[x] = started'[x] + cancelled'[x] + Cardinality(Places(x)')
                                 + Cardinality(Holders(x)')
    BY DEF Accounted, Holders
  <2>1. puts[x] = started[x] + cancelled[x] + Cardinality(Places(x)) + Cardinality(Holders(x))
    BY DEF Accounted, Holders
  <2>2. Holders(x)' = Holders(x) /\ started' = started /\ puts' = puts
    BY <1>1 DEF Holders
  <2>3. cancelled'[x] = IF x = r THEN cancelled[x] + Cardinality(Places(x)) ELSE cancelled[x]
    BY <1>2 DEF TypeOK
  <2>4. /\ puts[x] \in Nat /\ started[x] \in Nat /\ cancelled[x] \in Nat
        /\ Cardinality(Places(x)) \in Nat /\ Cardinality(Holders(x)) \in Nat
    BY Counts DEF TypeOK
  <2>5. Cardinality(Places(x)') = IF x = r THEN 0 ELSE Cardinality(Places(x))
    BY <1>3 DEF Item
  <2> QED BY <2>1, <2>2, <2>3, <2>4, <2>5
<1>8. EnoughNulls'
  <2>1. Cardinality(Places(Nullptr)') = Cardinality(Places(Nullptr))
    BY <1>3, ThreadPoolAssumption DEF Item
  <2>2. NullsToPut' = NullsToPut /\ Owing' = Owing
    BY <1>1 DEF NullsToPut, Owing, Live
  <2> QED BY <2>1, <2>2 DEF EnoughNulls, Owing
<1> QED BY <1>4, <1>5, <1>6, <1>7, <1>8

\* A worker that only moves along its loop, neither taking nor starting anything,
\* and neither falling asleep nor leaving take() with work in the queue.
LEMMA MoveInv ==
  ASSUME Inv, NEW w \in Worker, NEW to \in {"take", "waiting", "done"},
         pc[w] \in {"check", "take", "waiting"}, pc[w] = "take" => queue = <<>>,
         to = "waiting" => queue = <<>>,
         pc' = [pc EXCEPT ![w] = to],
         UNCHANGED <<queue, item, interrupted, shutdown, next, history>>
  PROVE  Inv'
<1> USE DEF Inv
<1>1. TypeOK'
  BY DEF TypeOK, history
<1>2. \A v \in Worker : pc'[v] = IF v = w THEN to ELSE pc[v]
  BY DEF TypeOK
<1>3. item[w] = Nullptr
  BY DEF Stages
<1>4. Stages'
  BY <1>2, <1>3 DEF Stages
<1>5. NoLostWakeup'
  <2>1. CASE queue = <<>>
    <3>1. Len(queue') = 0
      BY <2>1, EmptySeq
    <3>2. Cardinality(Takers') \in Nat
      BY <1>1, WorkersFinite DEF Takers
    <3> QED BY <3>1, <3>2 DEF NoLostWakeup
  <2>2. CASE queue # <<>>
    <3>1. Waiting' \subseteq Waiting
      BY <1>2, <2>2 DEF Waiting
    <3>2. Takers' = Takers \/ Takers' = Takers \cup {w}
      BY <1>2, <2>2 DEF Takers
    <3>3. Cardinality(Takers') >= Cardinality(Takers)
      <4>1. Cardinality(Takers \cup {w}) = IF w \in Takers THEN Cardinality(Takers)
                                          ELSE Cardinality(Takers) + 1
        BY Counts, FS_AddElement
      <4>2. Cardinality(Takers) \in Nat
        BY Counts
      <4>3. CASE Takers' = Takers
        BY <4>2, <4>3
      <4>4. CASE Takers' = Takers \cup {w}
        BY <4>1, <4>2, <4>4
      <4> QED BY <3>2, <4>3, <4>4
    <3>4. Cardinality(Takers') \in Nat
      BY <1>1, WorkersFinite DEF Takers
    <3> QED BY <3>1, <3>3, <3>4, Counts DEF NoLostWakeup
  <2> QED BY <2>1, <2>2
<1>6. Accounted'
  BY DEF Accounted, Places, history
<1>7. EnoughNulls'
  <2>1. Owing' = Owing \/ Owing' = Owing \ {w}
    BY <1>2, <1>3 DEF Owing, Live
  <2>2. Cardinality(Owing') <= Cardinality(Owing)
    <3>1. Cardinality(Owing \ {w}) = IF w \in Owing THEN Cardinality(Owing) - 1
                                    ELSE Cardinality(Owing)
      BY Counts, FS_RemoveElement
    <3>2. Cardinality(Owing) \in Nat
      BY Counts
    <3>3. CASE Owing' = Owing
      BY <3>2, <3>3
    <3>4. CASE Owing' = Owing \ {w}
      BY <3>1, <3>2, <3>4
    <3> QED BY <2>1, <3>3, <3>4
  <2>3. Places(Nullptr)' = Places(Nullptr) /\ NullsToPut' = NullsToPut
    BY DEF Places, NullsToPut
  <2>4. Cardinality(Owing') \in Nat /\ NullsToPut \in Int
    <3>1. Owing' \in SUBSET Worker
      BY DEF Owing, Live
    <3>2. NullsToPut \in Int
      BY ThreadPoolAssumption DEF NullsToPut, TypeOK
    <3> QED BY <3>1, <3>2, WorkersFinite
  <2> QED BY <2>2, <2>3, <2>4, Counts DEF EnoughNulls, Owing
<1> QED BY <1>1, <1>4, <1>5, <1>6, <1>7

\* take() hands the head of the queue to one worker.
LEMMA TakeItemInv ==
  ASSUME Inv, NEW w \in Worker, TakeItem(w)
  PROVE  Inv'
<1> USE DEF Inv
<1> DEFINE h == Head(queue)
<1>1. queue \in Seq(Item) /\ queue # <<>> /\ pc[w] = "take"
  BY DEF TypeOK, Item, TakeItem
<1>2. /\ queue' = Tail(queue) /\ item' = [item EXCEPT ![w] = h]
      /\ pc' = [pc EXCEPT ![w] = "taken"]
      /\ UNCHANGED <<interrupted, shutdown, next, puts, started, cancelled>>
  BY DEF TakeItem, history
<1>3. /\ h \in Item /\ queue' \in Seq(Item) /\ Len(queue') = Len(queue) - 1
  BY <1>1, <1>2, HeadTailProperties
<1> HIDE DEF h
<1>4. TypeOK'
  BY <1>2, <1>3 DEF TypeOK, Item
<1>5. \A v \in Worker : /\ pc'[v] = IF v = w THEN "taken" ELSE pc[v]
                        /\ item'[v] = IF v = w THEN h ELSE item[v]
  BY <1>2 DEF TypeOK
<1>6. item[w] = Nullptr
  BY <1>1 DEF Stages
<1>7. Stages'
  BY <1>2, <1>5 DEF Stages
<1>8. NoLostWakeup'
  <2>1. Waiting' = Waiting /\ Takers' = Takers \ {w} /\ w \in Takers
    BY <1>1, <1>5 DEF Waiting, Takers
  <2>2. Cardinality(Takers') = Cardinality(Takers) - 1
    BY <2>1, Counts, FS_RemoveElement
  <2> QED BY <1>3, <2>1, <2>2, Counts DEF NoLostWakeup
<1>9. \A x : Cardinality(Places(x)') = Cardinality(Places(x)) - (IF x = h THEN 1 ELSE 0)
  <2> SUFFICES ASSUME NEW x
               PROVE  Cardinality(Places(x)') = Cardinality(Places(x)) - (IF x = h THEN 1 ELSE 0)
    OBVIOUS
  <2>1. Places(x) = PlacesOf(queue, {x}) /\ Places(x)' = PlacesOf(queue', {x})
    BY DEF Places, PlacesOf
  <2>2. Cardinality(PlacesOf(Tail(queue), {x}))
          = Cardinality(PlacesOf(queue, {x})) - (IF Head(queue) \in {x} THEN 1 ELSE 0)
    BY <1>1, TailPlaces
  <2> QED BY <1>2, <2>1, <2>2 DEF h
<1>10. Accounted'
  <2> SUFFICES ASSUME NEW x \in Runnable
               PROVE  puts'[x] = started'[x] + cancelled'[x] + Cardinality(Places(x)')
                                 + Cardinality(Holders(x)')
    BY DEF Accounted, Holders
  <2>1. puts[x] = started[x] + cancelled[x] + Cardinality(Places(x)) + Cardinality(Holders(x))
    BY DEF Accounted, Holders
  <2>2. Holders(x)' = (IF x = h THEN Holders(x) \cup {w} ELSE Holders(x)) /\ w \notin Holders(x)
    BY <1>5, <1>6, ThreadPoolAssumption DEF Holders
  <2>3. Cardinality(Holders(x)') = Cardinality(Holders(x)) + (IF x = h THEN 1 ELSE 0)
    <3>1. Cardinality(Holders(x) \cup {w}) = Cardinality(Holders(x)) + 1
      BY <2>2, Counts, FS_AddElement
    <3> QED BY <2>2, <3>1, Counts
  <2>4. /\ puts[x] \in Nat /\ started[x] \in Nat /\ cancelled[x] \in Nat
        /\ Cardinality(Places(x)) \in Nat /\ Cardinality(Holders(x)) \in Nat
    BY Counts DEF TypeOK
  <2> QED BY <1>2, <1>9, <2>1, <2>3, <2>4
<1>11. EnoughNulls'
  <2>1. Owing' = (IF h = Nullptr THEN Owing \ {w} ELSE Owing) /\ w \in Owing
    BY <1>1, <1>5 DEF Owing, Live
  <2>2. Cardinality(Owing') = Cardinality(Owing) - (IF h = Nullptr THEN 1 ELSE 0)
    <3>1. Cardinality(Owing \ {w}) = Cardinality(Owing) - 1
      BY <2>1, Counts, FS_RemoveElement
    <3> QED BY <2>1, <3>1, Counts
  <2>3. NullsToPut' = NullsToPut /\ NullsToPut \in Int
    BY <1>2, ThreadPoolAssumption DEF NullsToPut, TypeOK
  <2> QED BY <1>9, <2>2, <2>3, Counts DEF EnoughNulls, Owing
<1> QED BY <1>4, <1>7, <1>8, <1>10, <1>11

\* A worker starts what it holds, or ends because that is null.
LEMMA RunInv ==
  ASSUME Inv, NEW w \in Worker, Run(w)
  PROVE  Inv'
<1> USE DEF Inv
<1> DEFINE h == item[w]
           to == IF h # Nullptr THEN "check" ELSE "done"
<1>1. pc[w] = "taken" /\ h \in Item
  BY DEF Run, TypeOK, Item
<1>2. /\ pc' = [pc EXCEPT ![w] = to] /\ item' = [item EXCEPT ![w] = Nullptr]
      /\ UNCHANGED <<queue, interrupted, shutdown, next, puts, cancelled>>
      /\ h # Nullptr => started' = [started EXCEPT ![h] = @ + 1]
      /\ h = Nullptr => started' = started
  BY DEF Run
<1> HIDE DEF h
<1>3. started' \in [Runnable -> Nat]
  <2>1. CASE h = Nullptr
    BY <1>2, <2>1 DEF TypeOK
  <2>2. CASE h # Nullptr
    <3>1. h \in Runnable /\ started[h] + 1 \in Nat
      BY <1>1, <2>2 DEF TypeOK, Item
    <3> QED BY <1>2, <2>2, <3>1 DEF TypeOK
  <2> QED BY <2>1, <2>2
<1>4. TypeOK'
  BY <1>2, <1>3 DEF TypeOK
<1>5. \A v \in Worker : /\ pc'[v] = IF v = w THEN to ELSE pc[v]
                        /\ item'[v] = IF v = w THEN Nullptr ELSE item[v]
  BY <1>2 DEF TypeOK
<1>6. Stages'
  BY <1>2, <1>5 DEF Stages
<1>7. NoLostWakeup'
  <2>1. Waiting' = Waiting /\ Takers' = Takers
    BY <1>1, <1>5 DEF Waiting, Takers
  <2> QED BY <1>2, <2>1 DEF NoLostWakeup
<1>8. Accounted'
  <2> SUFFICES ASSUME NEW x \in Runnable
               PROVE  puts'[x] = started'[x] + cancelled'[x] + Cardinality(Places(x)')
                                 + Cardinality(Holders(x)')
    BY DEF Accounted, Holders
  <2>1. puts[x] = started[x] + cancelled[x] + Cardinality(Places(x)) + Cardinality(Holders(x))
    BY DEF Accounted, Holders
  <2>2. Holders(x)' = Holders(x) \ {w} /\ (w \in Holders(x) <=> x = h)
    BY <1>5, ThreadPoolAssumption DEF Holders, h
  <2>3. Cardinality(Holders(x)') = Cardinality(Holders(x)) - (IF x = h THEN 1 ELSE 0)
    <3>1. Cardinality(Holders(x) \ {w}) = IF w \in Holders(x) THEN Cardinality(Holders(x)) - 1
                                         ELSE Cardinality(Holders(x))
      BY Counts, FS_RemoveElement
    <3> QED BY <2>2, <3>1, Counts
  <2>4. /\ puts[x] \in Nat /\ started[x] \in Nat /\ cancelled[x] \in Nat
        /\ Cardinality(Places(x)) \in Nat /\ Cardinality(Holders(x)) \in Nat
    BY Counts DEF TypeOK
  <2>5. started'[x] = started[x] + (IF x = h THEN 1 ELSE 0)
    BY <1>2, ThreadPoolAssumption DEF TypeOK
  <2>6. Places(x)' = Places(x)
    BY <1>2 DEF Places
  <2> QED BY <1>2, <2>1, <2>3, <2>4, <2>5, <2>6
<1>9. EnoughNulls'
  <2>1. Owing' = Owing
    BY <1>1, <1>5 DEF Owing, Live, h
  <2>2. NullsToPut' = NullsToPut /\ Places(Nullptr)' = Places(Nullptr)
    BY <1>2 DEF NullsToPut, Places
  <2> QED BY <2>1, <2>2 DEF EnoughNulls, Owing
<1> QED BY <1>4, <1>6, <1>7, <1>8, <1>9

\* shutdown() puts one null runnable and has one less to put.
LEMMA PutNullInv ==
  ASSUME Inv, PutNull
  PROVE  Inv'
<1> USE DEF Inv
<1>1. /\ Put(Nullptr) /\ Nullptr \in Item /\ shutdown = "put"
      /\ next' = next + 1 /\ shutdown' = "interrupt"
      /\ UNCHANGED <<item, interrupted, puts, started, cancelled>>
  BY DEF PutNull, Item, history
<1>2. /\ queue' \in Seq(Item)
      /\ pc' \in [Worker -> {"check", "take", "waiting", "taken", "done"}]
      /\ \A w \in Worker : pc'[w] # pc[w] => pc[w] = "waiting" /\ pc'[w] = "take"
      /\ NoLostWakeup'
      /\ \A x : Cardinality(Places(x)') = Cardinality(Places(x)) + (IF x = Nullptr THEN 1 ELSE 0)
      /\ Owing' = Owing
  BY <1>1, PutFacts
<1>3. next \in 1 .. mSize /\ next' \in 1 .. mSize + 1
  BY <1>1, ThreadPoolAssumption DEF TypeOK, Stages
<1>4. TypeOK'
  BY <1>1, <1>2, <1>3 DEF TypeOK, Item
<1>5. Stages'
  BY <1>1, <1>2 DEF Stages, TypeOK
<1>6. Accounted'
  <2> SUFFICES ASSUME NEW x \in Runnable
               PROVE  puts'[x] = started'[x] + cancelled'[x] + Cardinality(Places(x)')
                                 + Cardinality(Holders(x)')
    BY DEF Accounted, Holders
  <2>1. puts[x] = started[x] + cancelled[x] + Cardinality(Places(x)) + Cardinality(Holders(x))
    BY DEF Accounted, Holders
  <2>2. Holders(x)' = Holders(x)
    BY <1>1 DEF Holders
  <2>3. Cardinality(Places(x)') = Cardinality(Places(x))
    BY <1>2, Counts, ThreadPoolAssumption
  <2> QED BY <1>1, <2>1, <2>2, <2>3
<1>7. EnoughNulls'
  <2>1. NullsToPut' = NullsToPut - 1 /\ NullsToPut \in Int
    BY <1>1, <1>3, ThreadPoolAssumption DEF NullsToPut
  <2>2. Cardinality(Places(Nullptr)') = Cardinality(Places(Nullptr)) + 1
    BY <1>2
  <2>3. Cardinality(Owing) <= Cardinality(Places(Nullptr)) + NullsToPut
    BY DEF EnoughNulls, Owing
  <2>4. Cardinality(Owing') <= Cardinality(Places(Nullptr)') + NullsToPut'
    BY <1>2, <2>1, <2>2, <2>3, Counts
  <2> QED BY <2>4 DEF EnoughNulls, Owing
<1> QED BY <1>2, <1>4, <1>5, <1>6, <1>7

\* The steps of shutdown() that only move its loops keep the number of null
\* runnables it has still to put.
LEMMA LoopInv ==
  ASSUME Inv, UNCHANGED <<queueVars, history>>,
         Begin \/ Interrupt \/ BeginJoin \/ Join \/ EndJoin
  PROVE  Inv'
<1> USE DEF Inv, queueVars, history
<1>1. /\ next' \in 1 .. mSize + 1
      /\ shutdown' \in {"interrupt", "put", "join", "done"}
      /\ shutdown' = "put" => next' <= mSize
  BY ThreadPoolAssumption DEF Begin, Interrupt, BeginJoin, Join, EndJoin, TypeOK
<1>2. interrupted' \in [Worker -> BOOLEAN]
  BY DEF Begin, Interrupt, BeginJoin, Join, EndJoin, TypeOK
<1>3. NullsToPut' = NullsToPut
  BY ThreadPoolAssumption
  DEF NullsToPut, Begin, Interrupt, BeginJoin, Join, EndJoin, TypeOK, Stages
<1>4. TypeOK'
  BY <1>1, <1>2 DEF TypeOK
<1>5. Stages'
  BY <1>1 DEF Stages
<1>6. NoLostWakeup' /\ Accounted'
  BY DEF NoLostWakeup, Accounted, Waiting, Takers, Places
<1>7. EnoughNulls'
  <2>1. Owing' = Owing /\ Places(Nullptr)' = Places(Nullptr)
    BY DEF Owing, Live, Places
  <2> QED BY <1>3, <2>1 DEF EnoughNulls, Owing
<1> QED BY <1>4, <1>5, <1>6, <1>7

\* Every step preserves the invariant.
LEMMA NextInv == Inv /\ [Next]_vars => Inv'
<1> SUFFICES ASSUME Inv, [Next]_vars PROVE Inv'
  OBVIOUS
<1>1. CASE \E r \in Runnable : Execute(r) \/ Cancel(r)
  BY <1>1, ExecuteInv, CancelInv
<1>2. ASSUME NEW w \in Worker, Check(w) PROVE Inv'
  <2>1. PICK to \in {"take", "done"} : pc' = [pc EXCEPT ![w] = to]
    BY <1>2 DEF Check
  <2>2. pc[w] = "check" /\ UNCHANGED <<queue, item, interrupted, shutdown, next, history>>
    BY <1>2 DEF Check
  <2> QED BY <2>1, <2>2, MoveInv
<1>3. ASSUME NEW w \in Worker, TakeAwait(w) PROVE Inv'
  BY <1>3, MoveInv DEF TakeAwait
<1>4. ASSUME NEW w \in Worker, SpuriousWakeup(w) PROVE Inv'
  BY <1>4, MoveInv DEF SpuriousWakeup
<1>5. ASSUME NEW w \in Worker, TakeItem(w) \/ Run(w) PROVE Inv'
  BY <1>5, TakeItemInv, RunInv
<1>6. CASE Begin \/ Interrupt \/ BeginJoin \/ Join \/ EndJoin
  <2>1. UNCHANGED <<queueVars, history>>
    BY <1>6 DEF Begin, Interrupt, BeginJoin, Join, EndJoin
  <2> QED BY <1>6, <2>1, LoopInv
<1>7. CASE PutNull
  BY <1>7, PutNullInv
<1>8. CASE UNCHANGED vars
  BY <1>8 DEF vars, queueVars, history, Inv, TypeOK, Stages, NoLostWakeup, Waiting, Takers,
              Accounted, Places, EnoughNulls, Live, NullsToPut
<1> QED BY <1>1, <1>2, <1>3, <1>4, <1>5, <1>6, <1>7, <1>8 DEF Next, WorkerStep, Shutdown

\* In every behaviour of the executor the invariant holds.
THEOREM Invariance == Spec => []Inv
<1> QED BY InitInv, NextInv, PTL DEF Spec

\* Every variable of the executor always holds a value of its kind.
THEOREM TypeCorrect == Spec => []TypeOK
<1>1. Inv => TypeOK
  BY DEF Inv
<1> QED BY <1>1, Invariance, PTL

\* LinkedBlockingQueue loses no wakeup: a put, a cancel or a take in any order never
\* leaves an item in the queue that only sleeping workers could take.
THEOREM NoLostWakeupHolds == Spec => []NoLostWakeup
<1>1. Inv => NoLostWakeup
  BY DEF Inv
<1> QED BY <1>1, Invariance, PTL

\* execute() and cancel() never lose or duplicate a submission: what was put is
\* queued, held by one worker, started or cancelled, once.
THEOREM AccountedHolds == Spec => []Accounted
<1>1. Inv => Accounted
  BY DEF Inv
<1> QED BY <1>1, Invariance, PTL

\* shutdown() puts enough null runnables: no worker that has still to end can find
\* them all taken, whichever of them saw the interrupt first.
THEOREM EnoughNullsHolds == Spec => []EnoughNulls
<1>1. Inv => EnoughNulls
  BY DEF Inv
<1> QED BY <1>1, Invariance, PTL
=============================================================================
