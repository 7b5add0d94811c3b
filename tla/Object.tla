------------------------------- MODULE Object -------------------------------
(***************************************************************************)
(* lang/Object: the references sp and wp to one object, and the two        *)
(* counters in its WeakReferenceImpl.  A strong reference counts in both,  *)
(* a weak one in the second.  The object goes with the last strong         *)
(* reference, or with the last reference if its lifetime is extended; the  *)
(* counters go with the last reference.  A step is one operation on an     *)
(* atomic variable.                                                        *)
(*                                                                         *)
(* Maker's thread constructs the object.  The constructor may extend the   *)
(* lifetime, for good or, as the one of Binder does, for a moment in which *)
(* it creates and drops a strong reference to itself and leaves a weak one *)
(* in a table.  Nobody else uses the object before it is constructed.      *)
(***************************************************************************)
EXTENDS Integers, FiniteSets

CONSTANTS
  Thread, Maker,
  INITIAL,   \* INITIAL_STRONG_REFERENCE_VALUE, 2^28
  MaxRefs    \* bound: references of a thread

ASSUME ObjectAssumption ==
  /\ IsFiniteSet(Thread) /\ Maker \in Thread /\ MaxRefs \in Nat \ {0}
  /\ INITIAL \in Nat /\ INITIAL > Cardinality(Thread) * (MaxRefs + 1)

VARIABLES
  mStrong, mWeak,  \* mStrongReferenceCounter, mWeakReferenceCounter
  mFlags,          \* the lifetime, "strong" or "weak"
  object,          \* is the object there?
  reference,       \* are its counters there?
  phase,           \* of the maker: "new", "attaching", "attached", "raw", "shared"
  pc, count,       \* per thread: next step, and its local variable
  sps, wps         \* per thread: how many sp and wp it has

counters == <<mStrong, mWeak, mFlags>>
life == <<object, reference>>
refs == <<sps, wps>>
vars == <<counters, life, phase, pc, count, refs>>

Init ==
  /\ mStrong = INITIAL /\ mWeak = 0 /\ mFlags = "strong"
  /\ object = TRUE /\ reference = TRUE /\ phase = "new"
  /\ pc = [t \in Thread |-> "idle"] /\ count = [t \in Thread |-> 0]
  /\ sps = [t \in Thread |-> 0] /\ wps = [t \in Thread |-> 0]

Goto(t, l) == pc' = [pc EXCEPT ![t] = l]
Sets(t, n) == count' = [count EXCEPT ![t] = n]
More(r, t) == [r EXCEPT ![t] = @ + 1]
Less(r, t) == [r EXCEPT ![t] = @ - 1]

\* Thread t may use the object: it has a strong reference or is its maker.
Has(t) == sps[t] > 0 \/ (t = Maker /\ phase \in {"attaching", "raw"})

Free(t) == pc[t] = "idle" /\ (phase # "shared" => t = Maker)

Room(t) == sps[t] + wps[t] < MaxRefs

\* The maker has one reference now and forgets its raw pointer.
Shared(t) == phase' = IF phase = "raw" THEN "shared" ELSE phase

(***************************************************************************)
(* The constructor.                                                        *)
(***************************************************************************)
\* The constructor does nothing special, or extends the lifetime for good ...
Construct ==
  /\ phase = "new"
  /\ phase' = "raw" /\ mFlags' \in {"strong", "weak"}
  /\ UNCHANGED <<mStrong, mWeak, life, pc, count, refs>>

\* ... or for a while: Binder() and attachInterface().
Attach ==
  /\ phase \in {"new", "raw"} /\ mFlags = "strong"
  /\ phase' = "attaching" /\ mFlags' = "weak"
  /\ UNCHANGED <<mStrong, mWeak, life, pc, count, refs>>

\* setObjectLifetime(OBJECT_LIFETIME_STRONG_REFERENCE): a counter of 0 is made
\* INITIAL again, then the flag is set.
ResetCounter ==
  /\ phase = "attaching" /\ pc[Maker] = "idle" /\ sps[Maker] = 0 /\ wps[Maker] > 0
  /\ phase' = "attached"
  /\ mStrong' = IF mStrong = 0 THEN INITIAL ELSE mStrong
  /\ UNCHANGED <<mWeak, mFlags, life, pc, count, refs>>

Attached ==
  /\ phase = "attached"
  /\ phase' = "raw" /\ mFlags' = "strong"
  /\ UNCHANGED <<mStrong, mWeak, life, pc, count, refs>>

(***************************************************************************)
(* incStrongReference(): copies of sp, and sp from a raw pointer.          *)
(***************************************************************************)
IncStrong(t) ==
  /\ Free(t) /\ Has(t) /\ Room(t)
  /\ mWeak' = mWeak + 1
  /\ Goto(t, "incStrong") /\ Shared(t)
  /\ UNCHANGED <<mStrong, mFlags, life, count, refs>>

AddStrong(t) ==
  /\ pc[t] = "incStrong"
  /\ mStrong' = mStrong + 1
  /\ IF mStrong = INITIAL
       THEN Goto(t, "first") /\ UNCHANGED sps
       ELSE Goto(t, "idle") /\ sps' = More(sps, t)
  /\ UNCHANGED <<mWeak, mFlags, life, phase, count, wps>>

First(t) ==
  /\ pc[t] = "first"
  /\ mStrong' = mStrong - INITIAL
  /\ Goto(t, "idle") /\ sps' = More(sps, t)
  /\ UNCHANGED <<mWeak, mFlags, life, phase, count, wps>>

(***************************************************************************)
(* decStrongReference(): the end of an sp.                                 *)
(***************************************************************************)
DecStrong(t) ==
  /\ Free(t) /\ sps[t] > 0 /\ (phase = "attaching" => wps[t] > 0)
  /\ sps' = Less(sps, t)
  /\ mStrong' = mStrong - 1
  /\ Goto(t, IF mStrong = 1 THEN "last" ELSE "decWeak")
  /\ UNCHANGED <<mWeak, mFlags, life, phase, count, wps>>

LastStrong(t) ==
  /\ pc[t] = "last"
  /\ Goto(t, IF mFlags = "strong" THEN "delete" ELSE "decWeak")
  /\ UNCHANGED <<counters, life, phase, count, refs>>

\* ~Object() takes the counters along if nobody will come for them.
TakesCounters == IF mFlags = "weak" THEN mWeak = 0 ELSE mStrong = INITIAL

Delete(t) ==
  /\ pc[t] = "delete"
  /\ object' = FALSE /\ reference' = (reference /\ ~TakesCounters)
  /\ Goto(t, "decWeak")
  /\ UNCHANGED <<counters, phase, count, refs>>

(***************************************************************************)
(* incWeakReference() and decWeakReference(): copies and the end of a wp.  *)
(***************************************************************************)
IncWeak(t) ==
  /\ Free(t) /\ (Has(t) \/ wps[t] > 0) /\ Room(t)
  /\ mWeak' = mWeak + 1 /\ wps' = More(wps, t) /\ Shared(t)
  /\ UNCHANGED <<mStrong, mFlags, life, pc, count, sps>>

DropWeak(t) ==
  /\ Free(t) /\ wps[t] > 0 /\ phase = "shared"
  /\ wps' = Less(wps, t) /\ Goto(t, "decWeak")
  /\ UNCHANGED <<counters, life, phase, count, sps>>

DecWeak(t) ==
  /\ pc[t] = "decWeak"
  /\ mWeak' = mWeak - 1
  /\ Goto(t, IF mWeak = 1 THEN "lastWeak" ELSE "idle")
  /\ UNCHANGED <<mStrong, mFlags, life, phase, count, refs>>

\* The object goes now if its lifetime was extended or it never had a strong
\* reference; the counters go with it, or alone.
LastWeak(t) ==
  /\ pc[t] = "lastWeak"
  /\ IF mFlags = "strong" /\ mStrong # INITIAL
       THEN reference' = FALSE /\ UNCHANGED object
       ELSE object' = FALSE /\ reference' = (reference /\ ~TakesCounters)
  /\ Goto(t, "idle")
  /\ UNCHANGED <<counters, phase, count, refs>>

(***************************************************************************)
(* tryIncStrongReference(): wp::get().                                     *)
(***************************************************************************)
TryInc(t) ==
  /\ Free(t) /\ wps[t] > 0 /\ Room(t) /\ phase = "shared"
  /\ mWeak' = mWeak + 1
  /\ Goto(t, "tryLoad")
  /\ UNCHANGED <<mStrong, mFlags, life, phase, count, refs>>

TryLoad(t) ==
  /\ pc[t] = "tryLoad"
  /\ Sets(t, mStrong) /\ Goto(t, "tryCas")
  /\ UNCHANGED <<counters, life, phase, refs>>

\* Variant: the counter is incremented without a comparison.
ExchangeBlindly(t, l) == mStrong' = mStrong + 1 /\ Goto(t, "tryFirst") /\ UNCHANGED count

\* Variant: a failed exchange is not repeated.
ExchangeOnce(t, l) ==
  \/ /\ mStrong = count[t]
     /\ mStrong' = mStrong + 1
     /\ Goto(t, "tryFirst") /\ UNCHANGED count
  \/ Sets(t, mStrong) /\ Goto(t, "decWeak") /\ UNCHANGED mStrong

\* compare_exchange_weak(): it may also fail for no reason.
Exchange(t, l) ==
  \/ /\ mStrong = count[t]
     /\ mStrong' = mStrong + 1
     /\ Goto(t, "tryFirst") /\ UNCHANGED count
  \/ Sets(t, mStrong) /\ Goto(t, l) /\ UNCHANGED mStrong

TryCas(t) ==
  /\ pc[t] = "tryCas"
  /\ \/ count[t] > 0 /\ count[t] # INITIAL /\ Exchange(t, "tryCas")
     \/ /\ count[t] <= 0 \/ count[t] = INITIAL
        /\ Goto(t, "tryFlags") /\ UNCHANGED <<mStrong, count>>
  /\ UNCHANGED <<mWeak, mFlags, life, phase, refs>>

\* Variant: the weak reference of the attempt is not given back.
UnpromotedOnly(t) == Goto(t, "idle") /\ Sets(t, 0) /\ UNCHANGED mStrong

\* The object cannot come back: decWeakReference() and false.
Unpromoted(t) == Goto(t, "decWeak") /\ Sets(t, 0) /\ UNCHANGED mStrong

\* An object whose lifetime is extended comes back without further ado.
TryFlags(t) ==
  /\ pc[t] = "tryFlags"
  /\ \/ mFlags = "strong" /\ count[t] <= 0 /\ Unpromoted(t)
     \/ /\ mFlags = "strong" /\ count[t] > 0
        /\ Goto(t, "tryInitial") /\ UNCHANGED <<mStrong, count>>
     \/ /\ mFlags = "weak"
        /\ mStrong' = mStrong + 1 /\ Sets(t, mStrong)
        /\ Goto(t, "tryFirst")
  /\ UNCHANGED <<mWeak, mFlags, life, phase, refs>>

TryInitial(t) ==
  /\ pc[t] = "tryInitial"
  /\ \/ count[t] > 0 /\ Exchange(t, "tryInitial")
     \/ count[t] <= 0 /\ Unpromoted(t)
  /\ UNCHANGED <<mWeak, mFlags, life, phase, refs>>

\* The first strong reference takes the initial value away.
TakenAway(n) == IF n = INITIAL THEN INITIAL ELSE 0

TryFirst(t) ==
  /\ pc[t] = "tryFirst"
  /\ mStrong' = mStrong - TakenAway(count[t])
  /\ sps' = More(sps, t)
  /\ Goto(t, "idle") /\ Sets(t, 0)
  /\ UNCHANGED <<mWeak, mFlags, life, phase, wps>>

\* A reference is moved to another thread: sp(sp&&), moveStrongReference().
Move(t, u) ==
  /\ Free(t) /\ phase = "shared" /\ t # u /\ pc[u] = "idle" /\ Room(u)
  /\ \/ sps[t] > 0 /\ sps' = More(Less(sps, t), u) /\ UNCHANGED wps
     \/ wps[t] > 0 /\ wps' = More(Less(wps, t), u) /\ UNCHANGED sps
  /\ UNCHANGED <<counters, life, phase, pc, count>>

Step(t) ==
  \/ IncStrong(t) \/ AddStrong(t) \/ First(t) \/ DecStrong(t) \/ LastStrong(t) \/ Delete(t)
  \/ IncWeak(t) \/ DropWeak(t) \/ DecWeak(t) \/ LastWeak(t)
  \/ TryInc(t) \/ TryLoad(t) \/ TryCas(t) \/ TryFlags(t) \/ TryInitial(t) \/ TryFirst(t)

Next ==
  \/ Construct \/ Attach \/ ResetCounter \/ Attached
  \/ \E t \in Thread : Step(t)
  \/ \E t, u \in Thread : Move(t, u)

Spec == Init /\ [][Next]_vars

(***************************************************************************)
(* Properties.                                                             *)
(***************************************************************************)
PC == {"idle", "incStrong", "first", "last", "delete", "decWeak", "lastWeak",
       "tryLoad", "tryCas", "tryFlags", "tryInitial", "tryFirst"}

\* Every variable holds a value of its kind.
TypeOK ==
  /\ mStrong \in Nat /\ mWeak \in Nat /\ mFlags \in {"strong", "weak"}
  /\ object \in BOOLEAN /\ reference \in BOOLEAN
  /\ phase \in {"new", "attaching", "attached", "raw", "shared"}
  /\ pc \in [Thread -> PC] /\ count \in [Thread -> Nat]
  /\ sps \in [Thread -> 0..MaxRefs] /\ wps \in [Thread -> 0..MaxRefs]

\* All the references of a kind: f is sps or wps.
Sum(f) == Cardinality({r \in Thread \X (1 .. MaxRefs) : r[2] <= f[r[1]]})

Idle == \A t \in Thread : pc[t] = "idle"

\* No thread uses the counters or the object after they are deleted, and
\* nothing is deleted twice: a thread at any step of an operation still finds
\* the counters, one that increments, ends or deletes finds the object, and a
\* thread that is about to delete the counters is the only one.  A strong
\* reference, and the raw pointer of the maker, keep the object; any reference
\* keeps the counters, and the object if its lifetime is extended.
NoUseAfterFree ==
  /\ \A t \in Thread :
       /\ pc[t] # "idle" => reference
       /\ pc[t] \in {"incStrong", "first", "last", "delete"} => object
       /\ pc[t] = "lastWeak" =>
            /\ TakesCounters \/ ~object
            /\ \A u \in Thread \ {t} : pc[u] = "idle" /\ sps[u] + wps[u] = 0
  /\ Cardinality({t \in Thread : pc[t] = "delete"}) <= 1
  /\ \A t \in Thread : (Has(t) => object) /\ (sps[t] + wps[t] > 0 => reference)
  /\ mFlags = "weak" /\ Sum(sps) + Sum(wps) > 0 => object

\* Between operations the counters are the numbers of references, and the
\* strong one is INITIAL before the first strong reference.  Nothing is left
\* behind: without references the object and its counters are gone; without
\* strong ones an object is, unless it never had any or its lifetime is extended.
CountsMatch ==
  Idle =>
    /\ reference =>
         /\ mWeak = Sum(sps) + Sum(wps)
         /\ mStrong = Sum(sps) \/ (mStrong = INITIAL /\ Sum(sps) = 0 /\ object)
    /\ phase = "shared" =>
         /\ Sum(sps) + Sum(wps) = 0 => ~object /\ ~reference
         /\ Sum(sps) = 0 /\ mFlags = "strong" /\ object => mStrong = INITIAL

\* wp::get() of thread t fails in this step.
Missing(t) == pc[t] \in {"tryCas", "tryFlags", "tryInitial"} /\ pc'[t] = "decWeak"

\* wp::get() fails only if the object is gone or its last strong reference is:
\* a thread never misses an object that somebody keeps.
FailsOnlyAtTheEnd ==
  [][\A t \in Thread : Missing(t) => Sum(sps) = 0 /\ mFlags = "strong" /\ mStrong = 0]_vars
=============================================================================
