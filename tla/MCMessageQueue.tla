--------------------------- MODULE MCMessageQueue ---------------------------
(* Model values and bounds for checking MessageQueue with TLC. *)
EXTENDS MessageQueue, TLC

CONSTANTS m1, m2, m3, t1, t2, h1, r1

\* A message with a code.
OneMessage == {[what |-> 1, callback |-> 0, obj |-> 0]}

\* A posted callback, and a message with a code and an object.
PostAndMessage == {[what |-> 0, callback |-> 1, obj |-> 0],
                   [what |-> 1, callback |-> 0, obj |-> 1]}

AnyMessage == OneMessage \cup PostAndMessage

\* A removal that messages with a code only may be subject to.
AsksForOne(request) ==
  /\ request.op # "callbacks" /\ request.obj = Null
  /\ request.op = "messages" => request.key = 1

\* Bound: messages are all alike, and the clock stops if one is sent again; ...
Alike ==
  /\ Range(content) \subseteq OneMessage \cup {Empty}
  /\ sweep = None \/ AsksForOne(sweep)
  /\ barrier = None \/ AsksForOne(barrier.of)
  /\ resends = 0 \/ now = 1

\* ... or they are of two kinds, and none is delayed or sent again.
Mixed ==
  /\ Range(content) \subseteq PostAndMessage \cup {Empty}
  /\ resends = 0 /\ now = 1
  /\ \A t \in Thread : at[t] <= 1
  /\ \A m \in Message : when[m] <= 1

AlikeOrMixed == Alike \/ Mixed

Symmetry == Permutations(Message) \cup Permutations(Thread)
=============================================================================
