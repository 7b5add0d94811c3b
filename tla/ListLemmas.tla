----------------------------- MODULE ListLemmas -----------------------------
(***************************************************************************)
(* Facts about lists without duplicates: what inserting at a place,        *)
(* removing from a place, taking the head and pushing a new head do to the *)
(* elements, to the order and to the set of the list's elements.  Then, of *)
(* any list, how many of its places hold an element of a set after an      *)
(* append or without its head.  The proofs about the message queue, the    *)
(* executors' queue and the service manager's inbox cite them.             *)
(***************************************************************************)
EXTENDS Integers, Sequences, SequencesExt, SequenceTheorems, FiniteSetTheorems, TLAPS

\* The places of a list that hold an element of X.
PlacesOf(s, X) == {i \in 1 .. Len(s) : s[i] \in X}

\* Inserting e at place i moves what was at i and after it up by one.
LEMMA InsertAtProperties ==
  ASSUME NEW S, NEW s \in Seq(S), NEW i \in 1 .. Len(s) + 1, NEW e \in S
  PROVE  /\ InsertAt(s, i, e) \in Seq(S)
         /\ Len(InsertAt(s, i, e)) = Len(s) + 1
         /\ \A j \in 1 .. Len(s) + 1 :
              InsertAt(s, i, e)[j] = IF j < i THEN s[j]
                                     ELSE IF j = i THEN e ELSE s[j - 1]
<1> DEFINE a == SubSeq(s, 1, i - 1)
           b == SubSeq(s, i, Len(s))
           c == a \o <<e>>
<1>1. Len(s) \in Nat /\ i \in Nat
  BY LenProperties
<1>2. /\ a \in Seq(S) /\ Len(a) = i - 1
      /\ \A j \in 1 .. i - 1 : a[j] = s[j]
  BY <1>1, SubSeqProperties
<1>3. /\ b \in Seq(S) /\ Len(b) = Len(s) - i + 1
      /\ \A j \in 1 .. Len(s) - i + 1 : b[j] = s[i + j - 1]
  BY <1>1, SubSeqProperties
<1>4. /\ <<e>> \in Seq(S) /\ Len(<<e>>) = 1 /\ <<e>>[1] = e
  OBVIOUS
<1>5. /\ c \in Seq(S) /\ Len(c) = i
      /\ \A j \in 1 .. i : c[j] = IF j < i THEN s[j] ELSE e
  <2> HIDE DEF a
  <2> QED BY <1>1, <1>2, <1>4, ConcatProperties
<1>6. /\ c \o b \in Seq(S) /\ Len(c \o b) = Len(s) + 1
      /\ \A j \in 1 .. Len(s) + 1 :
           (c \o b)[j] = IF j < i THEN s[j] ELSE IF j = i THEN e ELSE s[j - 1]
  <2> HIDE DEF b, c
  <2>1. /\ c \o b \in Seq(S) /\ Len(c \o b) = Len(c) + Len(b)
        /\ \A j \in 1 .. Len(c) + Len(b) :
             (c \o b)[j] = IF j <= Len(c) THEN c[j] ELSE b[j - Len(c)]
    BY <1>3, <1>5, ConcatProperties
  <2> QED BY <2>1, <1>1, <1>3, <1>5
<1> QED BY <1>6 DEF InsertAt

\* Removing place i moves what came after it down by one.
LEMMA RemoveAtProperties ==
  ASSUME NEW S, NEW s \in Seq(S), NEW i \in 1 .. Len(s)
  PROVE  /\ RemoveAt(s, i) \in Seq(S)
         /\ Len(RemoveAt(s, i)) = Len(s) - 1
         /\ \A j \in 1 .. Len(s) - 1 :
              RemoveAt(s, i)[j] = IF j < i THEN s[j] ELSE s[j + 1]
<1> DEFINE a == SubSeq(s, 1, i - 1)
           b == SubSeq(s, i + 1, Len(s))
<1>1. Len(s) \in Nat /\ i \in Nat
  BY LenProperties
<1>2. /\ a \in Seq(S) /\ Len(a) = i - 1
      /\ \A j \in 1 .. i - 1 : a[j] = s[j]
  BY <1>1, SubSeqProperties
<1>3. /\ b \in Seq(S) /\ Len(b) = Len(s) - i
      /\ \A j \in 1 .. Len(s) - i : b[j] = s[i + j]
  BY <1>1, SubSeqProperties
<1>4. /\ a \o b \in Seq(S) /\ Len(a \o b) = Len(s) - 1
      /\ \A j \in 1 .. Len(s) - 1 : (a \o b)[j] = IF j < i THEN s[j] ELSE s[j + 1]
  <2> HIDE DEF a, b
  <2>1. /\ a \o b \in Seq(S) /\ Len(a \o b) = Len(a) + Len(b)
        /\ \A j \in 1 .. Len(a) + Len(b) :
             (a \o b)[j] = IF j <= Len(a) THEN a[j] ELSE b[j - Len(a)]
    BY <1>2, <1>3, ConcatProperties
  <2> QED BY <2>1, <1>1, <1>2, <1>3
<1> QED BY <1>4 DEF RemoveAt

\* Inserting a new element keeps a list free of duplicates and adds it to its elements.
LEMMA InsertAtInjective ==
  ASSUME NEW S, NEW s \in Seq(S), NEW i \in 1 .. Len(s) + 1, NEW e \in S,
         IsInjective(s), e \notin Range(s)
  PROVE  /\ IsInjective(InsertAt(s, i, e))
         /\ Range(InsertAt(s, i, e)) = Range(s) \cup {e}
<1> DEFINE u == InsertAt(s, i, e)
<1>1. /\ u \in Seq(S) /\ Len(u) = Len(s) + 1 /\ Len(s) \in Nat
      /\ \A j \in 1 .. Len(s) + 1 :
           u[j] = IF j < i THEN s[j] ELSE IF j = i THEN e ELSE s[j - 1]
  BY InsertAtProperties, LenProperties
<1>2. DOMAIN s = 1 .. Len(s) /\ DOMAIN u = 1 .. Len(s) + 1
  BY <1>1, LenProperties
<1> HIDE DEF u
<1>3. IsInjective(u)
  <2>1. SUFFICES ASSUME NEW a \in 1 .. Len(s) + 1, NEW b \in 1 .. Len(s) + 1, a < b
                 PROVE  u[a] # u[b]
    BY <1>1, <1>2 DEF IsInjective
  <2>2. \A j \in 1 .. Len(s) : s[j] # e
    BY <1>2 DEF Range
  <2>3. \A j, k \in 1 .. Len(s) : j # k => s[j] # s[k]
    BY <1>2 DEF IsInjective
  <2>4. CASE a < i /\ b < i
    BY <1>1, <2>1, <2>3, <2>4
  <2>5. CASE a < i /\ b = i
    BY <1>1, <2>1, <2>2, <2>5
  <2>6. CASE a < i /\ b > i
    <3>1. /\ a \in 1 .. Len(s) /\ b - 1 \in 1 .. Len(s) /\ a # b - 1
          /\ u[a] = s[a] /\ u[b] = s[b - 1]
      BY <1>1, <2>6
    <3> QED BY <2>3, <3>1
  <2>7. CASE a = i
    BY <1>1, <2>1, <2>2, <2>7
  <2>8. CASE a > i
    BY <1>1, <2>1, <2>3, <2>8
  <2> QED BY <1>1, <2>4, <2>5, <2>6, <2>7, <2>8
<1>4. Range(u) \subseteq Range(s) \cup {e}
  <2>1. SUFFICES ASSUME NEW j \in 1 .. Len(s) + 1 PROVE u[j] \in Range(s) \cup {e}
    BY <1>2 DEF Range
  <2>2. j < i => j \in DOMAIN s /\ u[j] = s[j]
    BY <1>1, <1>2
  <2>3. j = i => u[j] = e
    BY <1>1
  <2>4. j > i => j - 1 \in DOMAIN s /\ u[j] = s[j - 1]
    BY <1>1, <1>2
  <2> QED BY <1>1, <2>2, <2>3, <2>4 DEF Range
<1>5. \A j \in 1 .. Len(s) : s[j] \in Range(u)
  <2> SUFFICES ASSUME NEW j \in 1 .. Len(s) PROVE s[j] \in Range(u)
    OBVIOUS
  <2>1. CASE j < i
    BY <2>1, <1>1, <1>2 DEF Range
  <2>2. CASE j >= i
    <3>1. j + 1 \in 1 .. Len(s) + 1 /\ u[j + 1] = s[j]
      BY <2>2, <1>1
    <3> QED BY <3>1, <1>2 DEF Range
  <2> QED BY <2>1, <2>2, <1>1
<1>6. e \in Range(u)
  BY <1>1, <1>2 DEF Range
<1>7. Range(u) = Range(s) \cup {e}
  BY <1>2, <1>4, <1>5, <1>6 DEF Range
<1> QED BY <1>3, <1>7 DEF u

\* Removing a place of a list without duplicates removes exactly that element.
LEMMA RemoveAtInjective ==
  ASSUME NEW S, NEW s \in Seq(S), NEW i \in 1 .. Len(s), IsInjective(s)
  PROVE  /\ IsInjective(RemoveAt(s, i))
         /\ Range(RemoveAt(s, i)) = Range(s) \ {s[i]}
<1> DEFINE u == RemoveAt(s, i)
<1>1. /\ u \in Seq(S) /\ Len(u) = Len(s) - 1 /\ Len(s) \in Nat
      /\ \A j \in 1 .. Len(s) - 1 : u[j] = IF j < i THEN s[j] ELSE s[j + 1]
  BY RemoveAtProperties, LenProperties
<1>2. DOMAIN s = 1 .. Len(s) /\ DOMAIN u = 1 .. Len(s) - 1
  BY <1>1, LenProperties
<1> HIDE DEF u
<1>0. \A j, k \in 1 .. Len(s) : j # k => s[j] # s[k]
  BY <1>2 DEF IsInjective
<1>3. IsInjective(u)
  <2>1. SUFFICES ASSUME NEW a \in 1 .. Len(s) - 1, NEW b \in 1 .. Len(s) - 1, a < b
                 PROVE  u[a] # u[b]
    BY <1>1, <1>2 DEF IsInjective
  <2>2. CASE a < i /\ b < i
    BY <1>0, <1>1, <2>1, <2>2, SMTT(30)
  <2>3. CASE a < i /\ b >= i
    BY <1>0, <1>1, <2>1, <2>3, SMTT(30)
  <2>4. CASE a >= i
    BY <1>0, <1>1, <2>1, <2>4, SMTT(30)
  <2> QED BY <1>1, <2>2, <2>3, <2>4
<1>4. Range(u) \subseteq Range(s) \ {s[i]}
  <2>1. \A j \in 1 .. Len(s) - 1 : \E k \in 1 .. Len(s) : k # i /\ u[j] = s[k]
    BY <1>1
  <2> QED BY <1>0, <1>2, <2>1 DEF Range
<1>5. \A j \in 1 .. Len(s) : j # i => s[j] \in Range(u)
  <2> SUFFICES ASSUME NEW j \in 1 .. Len(s), j # i PROVE s[j] \in Range(u)
    OBVIOUS
  <2>1. CASE j < i
    BY <2>1, <1>1, <1>2 DEF Range
  <2>2. CASE j > i
    <3>1. j - 1 \in 1 .. Len(s) - 1 /\ u[j - 1] = s[j]
      BY <2>2, <1>1
    <3> QED BY <3>1, <1>2 DEF Range
  <2> QED BY <2>1, <2>2, <1>1
<1>6. Range(u) = Range(s) \ {s[i]}
  BY <1>2, <1>4, <1>5 DEF Range
<1> QED BY <1>3, <1>6 DEF u

\* Taking the head off a list without duplicates removes exactly that element.
LEMMA TailInjective ==
  ASSUME NEW S, NEW s \in Seq(S), s # <<>>, IsInjective(s)
  PROVE  /\ Tail(s) \in Seq(S) /\ Len(Tail(s)) = Len(s) - 1
         /\ \A j \in 1 .. Len(s) - 1 : Tail(s)[j] = s[j + 1]
         /\ IsInjective(Tail(s))
         /\ Head(s) = s[1] /\ s[1] \in S /\ s[1] \in Range(s)
         /\ Range(Tail(s)) = Range(s) \ {s[1]}
<1> DEFINE u == Tail(s)
<1>1. /\ u \in Seq(S) /\ Len(u) = Len(s) - 1 /\ Len(s) \in Nat /\ Len(s) > 0
      /\ \A j \in 1 .. Len(s) - 1 : u[j] = s[j + 1]
  BY HeadTailProperties, LenProperties, EmptySeq
<1>2. DOMAIN s = 1 .. Len(s) /\ DOMAIN u = 1 .. Len(s) - 1
  BY <1>1, LenProperties
<1>3. Head(s) = s[1] /\ s[1] \in S /\ s[1] \in Range(s)
  BY <1>1, <1>2, ElementOfSeq DEF Range
<1> HIDE DEF u
<1>0. \A j, k \in 1 .. Len(s) : j # k => s[j] # s[k]
  BY <1>2 DEF IsInjective
<1>4. IsInjective(u)
  <2>1. SUFFICES ASSUME NEW a \in 1 .. Len(s) - 1, NEW b \in 1 .. Len(s) - 1, a < b
                 PROVE  u[a] # u[b]
    BY <1>1, <1>2 DEF IsInjective
  <2> QED BY <1>0, <1>1, <2>1
<1>5. Range(u) \subseteq Range(s) \ {s[1]}
  BY <1>0, <1>1, <1>2 DEF Range
<1>6. \A j \in 2 .. Len(s) : s[j] \in Range(u)
  <2> SUFFICES ASSUME NEW j \in 2 .. Len(s) PROVE s[j] \in Range(u)
    OBVIOUS
  <2>1. j - 1 \in 1 .. Len(s) - 1 /\ u[j - 1] = s[j]
    BY <1>1
  <2> QED BY <2>1, <1>2 DEF Range
<1>7. Range(s) \ {s[1]} \subseteq Range(u)
  <2>1. SUFFICES ASSUME NEW x \in Range(s) \ {s[1]} PROVE x \in Range(u)
    OBVIOUS
  <2>2. PICK j \in 1 .. Len(s) : x = s[j]
    BY <1>2 DEF Range
  <2>3. j \in 2 .. Len(s)
    BY <1>1, <2>1, <2>2
  <2> QED BY <1>6, <2>2, <2>3
<1>8. Range(u) = Range(s) \ {s[1]}
  BY <1>5, <1>7
<1> QED BY <1>1, <1>3, <1>4, <1>8 DEF u

\* Pushing a new element on the front keeps a list free of duplicates and adds it.
LEMMA PushInjective ==
  ASSUME NEW S, NEW s \in Seq(S), NEW e \in S, IsInjective(s), e \notin Range(s)
  PROVE  /\ <<e>> \o s \in Seq(S) /\ Len(<<e>> \o s) = Len(s) + 1
         /\ IsInjective(<<e>> \o s)
         /\ Range(<<e>> \o s) = Range(s) \cup {e}
<1> DEFINE u == <<e>> \o s
<1>1. <<e>> \in Seq(S) /\ Len(<<e>>) = 1 /\ <<e>>[1] = e
  OBVIOUS
<1>2. /\ u \in Seq(S) /\ Len(u) = 1 + Len(s) /\ Len(s) \in Nat
      /\ \A j \in 1 .. 1 + Len(s) : u[j] = IF j <= 1 THEN e ELSE s[j - 1]
  BY <1>1, ConcatProperties, LenProperties
<1>3. DOMAIN s = 1 .. Len(s) /\ DOMAIN u = 1 .. 1 + Len(s)
  BY <1>2, LenProperties
<1> HIDE DEF u
<1>4. IsInjective(u)
  <2>1. SUFFICES ASSUME NEW a \in 1 .. 1 + Len(s), NEW b \in 1 .. 1 + Len(s), a < b
                 PROVE  u[a] # u[b]
    BY <1>2, <1>3 DEF IsInjective
  <2>2. \A j \in 1 .. Len(s) : s[j] # e
    BY <1>3 DEF Range
  <2>3. \A j, k \in 1 .. Len(s) : j # k => s[j] # s[k]
    BY <1>3 DEF IsInjective
  <2>4. CASE a = 1
    BY <1>2, <2>1, <2>2, <2>4
  <2>5. CASE a > 1
    <3>1. /\ a - 1 \in 1 .. Len(s) /\ b - 1 \in 1 .. Len(s) /\ a - 1 # b - 1
          /\ u[a] = s[a - 1] /\ u[b] = s[b - 1]
      BY <1>2, <2>1, <2>5
    <3> QED BY <2>3, <3>1
  <2> QED BY <1>2, <2>4, <2>5
<1>5. Range(u) \subseteq Range(s) \cup {e}
  BY <1>2, <1>3 DEF Range
<1>6. \A j \in 1 .. Len(s) : s[j] \in Range(u)
  <2> SUFFICES ASSUME NEW j \in 1 .. Len(s) PROVE s[j] \in Range(u)
    OBVIOUS
  <2>1. j + 1 \in 1 .. 1 + Len(s) /\ u[j + 1] = s[j]
    BY <1>2
  <2> QED BY <2>1, <1>3 DEF Range
<1>7. e \in Range(u)
  BY <1>2, <1>3 DEF Range
<1>8. Range(u) = Range(s) \cup {e}
  BY <1>3, <1>5, <1>6, <1>7 DEF Range
<1> QED BY <1>2, <1>4, <1>8 DEF u

\* Inserting keeps a list ordered by R if e is R-after what precedes its place and
\* R-before what follows it.
LEMMA InsertAtOrder ==
  ASSUME NEW S, NEW s \in Seq(S), NEW i \in 1 .. Len(s) + 1, NEW e \in S, NEW R,
         \A j, k \in 1 .. Len(s) : j < k => <<s[j], s[k]>> \in R,
         \A j \in 1 .. Len(s) : j < i => <<s[j], e>> \in R,
         \A j \in 1 .. Len(s) : j >= i => <<e, s[j]>> \in R
  PROVE  \A j, k \in 1 .. Len(s) + 1 :
           j < k => <<InsertAt(s, i, e)[j], InsertAt(s, i, e)[k]>> \in R
<1> DEFINE u == InsertAt(s, i, e)
<1>1. /\ Len(s) \in Nat
      /\ \A j \in 1 .. Len(s) + 1 :
           u[j] = IF j < i THEN s[j] ELSE IF j = i THEN e ELSE s[j - 1]
  BY InsertAtProperties, LenProperties
<1> HIDE DEF u
<1>2. SUFFICES ASSUME NEW j \in 1 .. Len(s) + 1, NEW k \in 1 .. Len(s) + 1, j < k
               PROVE  <<u[j], u[k]>> \in R
  BY DEF u
<1>3. CASE k < i
  <2>1. j \in 1 .. Len(s) /\ k \in 1 .. Len(s) /\ u[j] = s[j] /\ u[k] = s[k]
    BY <1>1, <1>2, <1>3
  <2> QED BY <1>2, <2>1
<1>4. CASE k = i
  <2>1. j \in 1 .. Len(s) /\ j < i /\ u[j] = s[j] /\ u[k] = e
    BY <1>1, <1>2, <1>4
  <2> QED BY <2>1
<1>5. CASE j < i /\ i < k
  <2>1. j \in 1 .. Len(s) /\ k - 1 \in 1 .. Len(s) /\ j < k - 1
        /\ u[j] = s[j] /\ u[k] = s[k - 1]
    BY <1>1, <1>2, <1>5
  <2> QED BY <2>1
<1>6. CASE j = i
  <2>1. k - 1 \in 1 .. Len(s) /\ k - 1 >= i /\ u[j] = e /\ u[k] = s[k - 1]
    BY <1>1, <1>2, <1>6
  <2> QED BY <2>1
<1>7. CASE i < j
  <2>1. j - 1 \in 1 .. Len(s) /\ k - 1 \in 1 .. Len(s) /\ j - 1 < k - 1
        /\ u[j] = s[j - 1] /\ u[k] = s[k - 1]
    BY <1>1, <1>2, <1>7
  <2> QED BY <2>1
<1> QED BY <1>1, <1>2, <1>3, <1>4, <1>5, <1>6, <1>7

\* Removing a place keeps the rest of the list ordered by R.
LEMMA RemoveAtOrder ==
  ASSUME NEW S, NEW s \in Seq(S), NEW i \in 1 .. Len(s), NEW R,
         \A j, k \in 1 .. Len(s) : j < k /\ j # i /\ k # i => <<s[j], s[k]>> \in R
  PROVE  \A j, k \in 1 .. Len(s) - 1 :
           j < k => <<RemoveAt(s, i)[j], RemoveAt(s, i)[k]>> \in R
<1> DEFINE u == RemoveAt(s, i)
<1>1. /\ Len(s) \in Nat
      /\ \A j \in 1 .. Len(s) - 1 : u[j] = IF j < i THEN s[j] ELSE s[j + 1]
  BY RemoveAtProperties, LenProperties
<1> HIDE DEF u
<1>2. SUFFICES ASSUME NEW j \in 1 .. Len(s) - 1, NEW k \in 1 .. Len(s) - 1, j < k
               PROVE  <<u[j], u[k]>> \in R
  BY DEF u
<1>3. CASE k < i
  <2>1. j \in 1 .. Len(s) /\ k \in 1 .. Len(s) /\ j # i /\ k # i
        /\ u[j] = s[j] /\ u[k] = s[k]
    BY <1>1, <1>2, <1>3
  <2> QED BY <1>2, <2>1
<1>4. CASE j < i /\ i <= k
  <2>1. j \in 1 .. Len(s) /\ k + 1 \in 1 .. Len(s) /\ j < k + 1 /\ j # i /\ k + 1 # i
        /\ u[j] = s[j] /\ u[k] = s[k + 1]
    BY <1>1, <1>2, <1>4
  <2> QED BY <2>1
<1>5. CASE i <= j
  <2>1. j + 1 \in 1 .. Len(s) /\ k + 1 \in 1 .. Len(s) /\ j + 1 < k + 1
        /\ j + 1 # i /\ k + 1 # i /\ u[j] = s[j + 1] /\ u[k] = s[k + 1]
    BY <1>1, <1>2, <1>5
  <2> QED BY <2>1
<1> QED BY <1>1, <1>2, <1>3, <1>4, <1>5
\* A list has finitely many places of any kind, at most its length.
LEMMA PlacesFinite ==
  ASSUME NEW S, NEW s \in Seq(S), NEW X
  PROVE  /\ IsFiniteSet(PlacesOf(s, X))
         /\ Cardinality(PlacesOf(s, X)) \in Nat
         /\ Cardinality(PlacesOf(s, X)) <= Len(s)
<1>1. Len(s) \in Nat
  BY LenProperties
<1>2. /\ IsFiniteSet(1 .. Len(s))
      /\ Cardinality(1 .. Len(s)) = IF 1 > Len(s) THEN 0 ELSE Len(s) - 1 + 1
  BY <1>1, FS_Interval
<1>3. PlacesOf(s, X) \in SUBSET (1 .. Len(s))
  BY DEF PlacesOf
<1>4. /\ IsFiniteSet(PlacesOf(s, X))
      /\ Cardinality(PlacesOf(s, X)) <= Cardinality(1 .. Len(s))
  BY <1>2, <1>3, FS_Subset
<1>5. Cardinality(PlacesOf(s, X)) \in Nat
  BY <1>4, FS_CardinalityType
<1> QED BY <1>1, <1>2, <1>4, <1>5

\* Appending adds one place of the kind of what is appended.
LEMMA AppendPlaces ==
  ASSUME NEW S, NEW s \in Seq(S), NEW e \in S, NEW X
  PROVE  Cardinality(PlacesOf(Append(s, e), X))
           = Cardinality(PlacesOf(s, X)) + (IF e \in X THEN 1 ELSE 0)
<1> DEFINE n == Len(s)
           P == PlacesOf(s, X)
<1>1. n \in Nat
  BY LenProperties
<1>2. /\ Len(Append(s, e)) = n + 1 /\ Append(s, e)[n + 1] = e
      /\ \A i \in 1 .. n : Append(s, e)[i] = s[i]
  BY AppendProperties
<1>3. IsFiniteSet(P) /\ Cardinality(P) \in Nat
  BY PlacesFinite
<1>4. n + 1 \notin P
  BY <1>1 DEF PlacesOf
<1>5. CASE e \in X
  <2>1. PlacesOf(Append(s, e), X) = P \cup {n + 1}
    BY <1>1, <1>2, <1>5 DEF PlacesOf
  <2> QED BY <2>1, <1>3, <1>4, <1>5, FS_AddElement
<1>6. CASE e \notin X
  <2>1. PlacesOf(Append(s, e), X) = P
    BY <1>1, <1>2, <1>6 DEF PlacesOf
  <2> QED BY <2>1, <1>3, <1>6
<1> QED BY <1>5, <1>6

\* Taking the head off removes one place of its kind.
LEMMA TailPlaces ==
  ASSUME NEW S, NEW s \in Seq(S), s # <<>>, NEW X
  PROVE  Cardinality(PlacesOf(Tail(s), X))
           = Cardinality(PlacesOf(s, X)) - (IF Head(s) \in X THEN 1 ELSE 0)
<1> DEFINE n == Len(s)
           P == PlacesOf(s, X)
           Q == PlacesOf(Tail(s), X)
           up == [i \in Q |-> i + 1]
<1>1. n \in Nat /\ n > 0
  BY LenProperties, EmptySeq
<1>2. /\ Tail(s) \in Seq(S) /\ Len(Tail(s)) = n - 1 /\ Head(s) = s[1]
      /\ \A i \in 1 .. n - 1 : Tail(s)[i] = s[i + 1]
  BY HeadTailProperties
<1>3. IsFiniteSet(P) /\ Cardinality(P) \in Nat /\ IsFiniteSet(Q) /\ Cardinality(Q) \in Nat
  BY <1>2, PlacesFinite
<1>4. up \in Bijection(Q, P \ {1})
  <2>1. up \in [Q -> P \ {1}]
    BY <1>1, <1>2 DEF PlacesOf
  <2>2. \A i, j \in Q : up[i] = up[j] => i = j
    BY <1>1, <1>2 DEF PlacesOf
  <2>3. \A j \in P \ {1} : j - 1 \in Q /\ up[j - 1] = j
    BY <1>1, <1>2 DEF PlacesOf
  <2> QED BY <2>1, <2>2, <2>3 DEF Bijection, Injection, Surjection, IsInjective
<1>5. Cardinality(P \ {1}) = Cardinality(Q)
  BY <1>3, <1>4, FS_Bijection DEF ExistsBijection
<1>6. Cardinality(P \ {1}) = IF 1 \in P THEN Cardinality(P) - 1 ELSE Cardinality(P)
  BY <1>3, FS_RemoveElement
<1>7. 1 \in P <=> Head(s) \in X
  BY <1>1, <1>2 DEF PlacesOf
<1> QED BY <1>3, <1>5, <1>6, <1>7
=============================================================================
