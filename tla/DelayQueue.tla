----------------------------- MODULE DelayQueue -----------------------------
(***************************************************************************)
(* What a message queue with its looper promises to those who post to it,  *)
(* with no list, lock, condition variable, flag or pool: a set of pending  *)
(* entries, of which at most one is handled at a time, never before its    *)
(* time, always in dispatch order, and none once the queue is closed.      *)
(* MessageQueue is shown to implement this.                                *)
(***************************************************************************)
EXTENDS Integers

CONSTANTS Message, None

VARIABLES
  now,       \* the clock
  pending,   \* posted entries that are neither handled nor withdrawn
  handling,  \* the entry being handled, or None
  next,      \* entries posted so far
  open       \* the queue has not been closed

vars == <<now, pending, handling, next, open>>

Entry == [message : Message, when : Nat, ticket : Nat]

\* Earlier times first; among equal times first come, first served; but time 0
\* asks for the front of the queue.
Precedes(e, f) ==
  \/ e.when < f.when
  \/ /\ e.when = f.when
     /\ IF e.when = 0 THEN f.ticket < e.ticket ELSE e.ticket < f.ticket

Init ==
  /\ now \in Nat
  /\ pending = {} /\ handling = None
  /\ next = 0 /\ open = TRUE

Tick ==
  /\ now' = now + 1
  /\ UNCHANGED <<pending, handling, next, open>>

Post(e) ==
  /\ open
  /\ e \in Entry /\ e.ticket = next
  /\ \A f \in pending : f.message # e.message
  /\ pending' = pending \cup {e}
  /\ next' = next + 1
  /\ UNCHANGED <<now, handling, open>>

\* By a removal, or by the queue being closed.
Withdraw(e) ==
  /\ pending' = pending \ {e}
  /\ UNCHANGED <<now, handling, next, open>>

Handle(e) ==
  /\ open /\ handling = None
  /\ e.when <= now
  /\ \A f \in pending \ {e} : Precedes(e, f)
  /\ handling' = e
  /\ pending' = pending \ {e}
  /\ UNCHANGED <<now, next, open>>

Handled ==
  /\ handling # None /\ handling' = None
  /\ UNCHANGED <<now, pending, next, open>>

Close ==
  /\ open' = FALSE
  /\ UNCHANGED <<now, pending, handling, next>>

Next ==
  \/ Tick
  \/ \E e \in pending' \ pending : Post(e)
  \/ \E e \in pending : Withdraw(e) \/ Handle(e)
  \/ Handled
  \/ Close

Spec == Init /\ [][Next]_vars
=============================================================================
